--------------------------- MODULE XBarLayer_proofs ---------------------------
(***************************************************************************)
(* Proofs about XBarLayer, for every number of layers and ports.           *)
(***************************************************************************)
EXTENDS XBarLayer, Integers, TLAPS

(* While retryWaiting calls a port that port does not wait for a retry     *)
(* any more, so that it may be refused again, and a layer is in RETRY.     *)
CalledIsFree ==
    retryingPort # NoPort => /\ retryingPort \notin refused
                             /\ \E l \in Layers : state[l] = "RETRY"

(* The conjuncts support each other: no port queues twice because a port   *)
(* that sends is not refused and hence not held; the release event is not  *)
(* scheduled twice because only a busy layer has one.                      *)
IInv == TypeOK /\ HeldExactlyOnce /\ HolderIsWoken /\ AssertionsHold /\ CalledIsFree

-----------------------------------------------------------------------------
(* What a queue looks like after push_back, pop_front and push_front.      *)
LEMMA AppendFacts ==
    ASSUME NEW S, NEW s \in Seq(S), NEW x \in S
    PROVE  /\ Append(s, x) \in Seq(S)
           /\ DOMAIN Append(s, x) = DOMAIN s \cup {Len(s) + 1}
           /\ \A i \in DOMAIN s : Append(s, x)[i] = s[i]
           /\ Append(s, x)[Len(s) + 1] = x
           /\ Len(s) + 1 \notin DOMAIN s
  OBVIOUS

(* Popping the front: the other ports keep their order.                    *)
LEMMA TailFacts ==
    ASSUME NEW S, NEW s \in Seq(S), s # <<>>
    PROVE  /\ Tail(s) \in Seq(S) /\ Head(s) \in S
           /\ Head(s) = s[1] /\ 1 \in DOMAIN s
           /\ \A i \in DOMAIN Tail(s) : /\ i + 1 \in DOMAIN s /\ i + 1 # 1
                                        /\ Tail(s)[i] = s[i + 1]
                                        /\ i \in Nat
           /\ \A i \in DOMAIN s : i # 1 => /\ i - 1 \in DOMAIN Tail(s)
                                           /\ Tail(s)[i - 1] = s[i]
  OBVIOUS

(* A port in front of a queue: the others move back by one.                *)
LEMMA ConsFacts ==
    ASSUME NEW S, NEW s \in Seq(S), NEW x \in S
    PROVE  /\ <<x>> \o s \in Seq(S)
           /\ Head(<<x>> \o s) = x /\ Tail(<<x>> \o s) = s
           /\ <<x>> \o s # <<>>
           /\ 1 \in DOMAIN (<<x>> \o s) /\ (<<x>> \o s)[1] = x
           /\ \A i \in DOMAIN (<<x>> \o s) :
                  i # 1 => /\ i - 1 \in DOMAIN s /\ (<<x>> \o s)[i] = s[i - 1]
                           /\ i \in Int
           /\ \A i \in DOMAIN s : /\ i + 1 \in DOMAIN (<<x>> \o s)
                                  /\ (<<x>> \o s)[i + 1] = s[i]
  OBVIOUS

-----------------------------------------------------------------------------
(* A port that does not wait sends to a layer: recvTimingReq of the        *)
(* crossbar keeps the books, whether the layer queues it, the peer takes   *)
(* its packet or refuses it.                                               *)
LEMMA SendKeeps ==
    ASSUME IInv, NEW p \in Ports, NEW l \in Layers, p \notin refused, Send(p, l),
           retryingPort' = NoPort
    PROVE  IInv'
<1> USE PortAssumption
<1>0. \A m \in Layers : ~Held(p, m)
  BY DEF IInv, HeldExactlyOnce
<1>1. CASE tryTiming(p, l)
  <2> DEFINE w == waitingForLayer[l]
  <2>1. w \in Seq(Ports)
    BY DEF IInv, TypeOK
  <2>2. /\ waitingForLayer' = [waitingForLayer EXCEPT ![l] = Append(w, p)]
        /\ refused' = refused \cup {p}
        /\ failed' = (failed \/ Waits(p, l))
        /\ Taken(l)
        /\ UNCHANGED <<state, waitingForPeer, releaseEvent, peerBusy, drainManager>>
    BY <1>1 DEF Send, tryTiming
  <2>3. /\ Append(w, p) \in Seq(Ports)
        /\ DOMAIN Append(w, p) = DOMAIN w \cup {Len(w) + 1}
        /\ \A i \in DOMAIN w : Append(w, p)[i] = w[i]
        /\ Append(w, p)[Len(w) + 1] = p
    BY <2>1, AppendFacts
  <2> HIDE DEF w
  <2>4. /\ waitingForLayer'[l] = Append(w, p)
        /\ \A m \in Layers : m # l => waitingForLayer'[m] = waitingForLayer[m]
        /\ waitingForLayer' \in [Layers -> Seq(Ports)]
    BY <2>2, <2>3 DEF IInv, TypeOK
  <2>5. \A q, m : m \in Layers => (Waits(q, m)' <=> Waits(q, m) \/ (m = l /\ q = p))
    BY <2>3, <2>4 DEF Waits, w
  <2>6. \A q, m : m \in Layers => (Held(q, m)' <=> Held(q, m) \/ (m = l /\ q = p))
    BY <2>2, <2>5 DEF Held
  <2>7. TypeOK'
    BY <2>2, <2>4 DEF IInv, TypeOK, Send
  <2>8. HeldExactlyOnce'
    <3>1. \A q \in Ports : q \in refused' <=> \E m \in Layers : Held(q, m)'
      BY <2>2, <2>6 DEF IInv, HeldExactlyOnce
    <3>2. \A q \in Ports, m, n \in Layers : Held(q, m)' /\ Held(q, n)' => m = n
      BY <1>0, <2>6 DEF IInv, HeldExactlyOnce
    <3>3. \A m \in Layers : \A i, j \in DOMAIN waitingForLayer'[m] :
              waitingForLayer'[m][i] = waitingForLayer'[m][j] => i = j
      <4>1. \A i \in DOMAIN w : w[i] # p
        BY <1>0 DEF Held, Waits, w
      <4>2. \A i, j \in DOMAIN w : w[i] = w[j] => i = j
        BY DEF IInv, HeldExactlyOnce, w
      <4>3. \A i, j \in DOMAIN Append(w, p) : Append(w, p)[i] = Append(w, p)[j] => i = j
        BY <2>3, <4>1, <4>2
      <4> QED BY <2>4, <4>3 DEF IInv, HeldExactlyOnce
    <3>4. \A m \in Layers : ~Waits(waitingForPeer[m], m)'
      BY <1>0, <2>2, <2>5 DEF IInv, HeldExactlyOnce, Held
    <3> QED BY <3>1, <3>2, <3>3, <3>4 DEF HeldExactlyOnce
  <2>9. HolderIsWoken'
    BY <2>2, <2>4 DEF IInv, HolderIsWoken, TypeOK, Taken
  <2>10. AssertionsHold'
    BY <1>0, <2>2 DEF IInv, AssertionsHold, Held
  <2>11. CalledIsFree'
    BY DEF CalledIsFree
  <2> QED BY <2>7, <2>8, <2>9, <2>10, <2>11 DEF IInv
<1>2. CASE succeededTiming(p, l)
  <2>1. /\ ~Taken(l)
        /\ state' = [state EXCEPT ![l] = "BUSY"]
        /\ releaseEvent' = [releaseEvent EXCEPT ![l] = TRUE]
        /\ failed' = (failed \/ releaseEvent[l])
        /\ UNCHANGED <<waitingForLayer, waitingForPeer, refused, peerBusy, drainManager>>
    BY <1>2 DEF Send, succeededTiming, occupyLayer
  <2>2. TypeOK'
    BY <2>1 DEF IInv, TypeOK, Send
  <2>3. HeldExactlyOnce'
    BY <2>1 DEF IInv, HeldExactlyOnce, Held, Waits
  <2>4. HolderIsWoken'
    BY <2>1 DEF IInv, HolderIsWoken, TypeOK
  <2>5. AssertionsHold'
    BY <2>1 DEF IInv, AssertionsHold, HolderIsWoken, Taken
  <2>6. CalledIsFree'
    BY DEF CalledIsFree
  <2> QED BY <2>2, <2>3, <2>4, <2>5, <2>6 DEF IInv
<1>3. CASE failedTiming(p, l)
  <2>1. /\ ~Taken(l)
        /\ state' = [state EXCEPT ![l] = "BUSY"]
        /\ releaseEvent' = [releaseEvent EXCEPT ![l] = TRUE]
        /\ waitingForPeer' = [waitingForPeer EXCEPT ![l] = p]
        /\ refused' = refused \cup {p}
        /\ peerBusy' = [peerBusy EXCEPT ![l] = TRUE]
        /\ failed' = (failed \/ releaseEvent[l] \/ waitingForPeer[l] # NoPort)
        /\ UNCHANGED <<waitingForLayer, drainManager>>
    BY <1>3 DEF Send, failedTiming, occupyLayer
  <2>2. \A q \in Ports, m \in Layers : Held(q, m)' <=> Held(q, m) \/ (m = l /\ q = p)
    BY <2>1 DEF IInv, TypeOK, Held, Waits, Taken
  <2>3. TypeOK'
    BY <2>1 DEF IInv, TypeOK, Send
  <2>4. HeldExactlyOnce'
    <3>1. \A q \in Ports : q \in refused' <=> \E m \in Layers : Held(q, m)'
      BY <2>1, <2>2 DEF IInv, HeldExactlyOnce
    <3>2. \A q \in Ports, m, n \in Layers : Held(q, m)' /\ Held(q, n)' => m = n
      BY <1>0, <2>2 DEF IInv, HeldExactlyOnce
    <3>3. \A m \in Layers : ~Waits(waitingForPeer[m], m)'
      BY <1>0, <2>1 DEF IInv, HeldExactlyOnce, Held, Waits, TypeOK
    <3> QED BY <2>1, <3>1, <3>2, <3>3 DEF IInv, HeldExactlyOnce
  <2>5. HolderIsWoken'
    BY <2>1 DEF IInv, HolderIsWoken, TypeOK
  <2>6. AssertionsHold'
    BY <2>1 DEF IInv, AssertionsHold, HolderIsWoken, Taken
  <2>7. CalledIsFree'
    BY DEF CalledIsFree
  <2> QED BY <2>3, <2>4, <2>5, <2>6, <2>7 DEF IInv
<1> QED BY <1>1, <1>2, <1>3 DEF Send

(* The first port that waits is called: retryWaiting takes it off the      *)
(* books of the layer.                                                     *)
LEMMA ReleaseKeeps ==
    ASSUME IInv, NEW l \in Layers, releaseLayer(l)
    PROVE  IInv'
<1> USE PortAssumption
<1> DEFINE w == waitingForLayer[l]
<1>1. /\ Quiet /\ releaseEvent[l]
      /\ releaseEvent' = [releaseEvent EXCEPT ![l] = FALSE]
      /\ failed' = (failed \/ state[l] # "BUSY")
      /\ UNCHANGED <<waitingForPeer, peerBusy>>
  BY DEF releaseLayer
<1>2. AssertionsHold'
  BY <1>1 DEF IInv, AssertionsHold, HolderIsWoken
<1>3. drainManager' \in [Layers -> BOOLEAN] /\ drained' \in [Layers -> BOOLEAN]
  BY DEF releaseLayer, IInv, TypeOK
<1>4. CASE waitingForPeer[l] = NoPort /\ w # <<>>
  <2>1. /\ state' = [state EXCEPT ![l] = "RETRY"]
        /\ retryingPort' = Head(w)
        /\ refused' = refused \ {Head(w)}
        /\ waitingForLayer' = [waitingForLayer EXCEPT ![l] = Tail(w)]
    BY <1>4 DEF releaseLayer, retryWaiting
  <2>2. w \in Seq(Ports) /\ w # <<>>
    BY <1>4 DEF IInv, TypeOK
  <2>3. /\ Tail(w) \in Seq(Ports) /\ Head(w) \in Ports
        /\ Head(w) = w[1] /\ 1 \in DOMAIN w
        /\ \A i \in DOMAIN Tail(w) : /\ i + 1 \in DOMAIN w /\ i + 1 # 1
                                     /\ Tail(w)[i] = w[i + 1] /\ i \in Nat
        /\ \A i \in DOMAIN w : i # 1 => /\ i - 1 \in DOMAIN Tail(w)
                                        /\ Tail(w)[i - 1] = w[i]
    BY <2>2, TailFacts
  <2>4. \A i, j \in DOMAIN w : w[i] = w[j] => i = j
    BY DEF IInv, HeldExactlyOnce
  <2>5. \A q : (\E i \in DOMAIN w : w[i] = q) <=> Waits(q, l)
    BY DEF Waits
  <2> HIDE DEF w
  <2>6. /\ waitingForLayer'[l] = Tail(w)
        /\ \A m \in Layers : m # l => waitingForLayer'[m] = waitingForLayer[m]
        /\ waitingForLayer' \in [Layers -> Seq(Ports)]
    BY <2>1, <2>3 DEF IInv, TypeOK
  <2>7. \A q, m : m \in Layers => (Waits(q, m)' <=> Waits(q, m) /\ ~(m = l /\ q = Head(w)))
    <3>1. ASSUME NEW q, NEW m \in Layers, m # l
          PROVE  Waits(q, m)' <=> Waits(q, m)
      BY <2>6, <3>1 DEF Waits
    <3>2. ASSUME NEW q, Waits(q, l)' PROVE Waits(q, l) /\ q # Head(w)
      <4>1. PICK i \in DOMAIN Tail(w) : Tail(w)[i] = q
        BY <2>6, <3>2 DEF Waits
      <4>2. i + 1 \in DOMAIN w /\ w[i + 1] = q /\ i + 1 # 1
        BY <2>3, <4>1
      <4> QED BY <2>3, <2>4, <2>5, <4>2
    <3>3. ASSUME NEW q, Waits(q, l), q # Head(w) PROVE Waits(q, l)'
      <4>1. PICK i \in DOMAIN w : w[i] = q
        BY <2>5, <3>3
      <4>2. i - 1 \in DOMAIN Tail(w) /\ Tail(w)[i - 1] = q
        BY <2>3, <3>3, <4>1
      <4> QED BY <2>6, <4>2 DEF Waits
    <3> QED BY <3>1, <3>2, <3>3
  <2>8. \A q \in Ports, m \in Layers :
            Held(q, m)' <=> Held(q, m) /\ ~(m = l /\ q = Head(w))
    BY <1>1, <1>4, <2>3, <2>7 DEF Held
  <2>9. Held(Head(w), l)
    BY <2>3, <2>5 DEF Held
  <2>10. TypeOK'
    BY <1>1, <1>3, <2>1, <2>3, <2>6 DEF IInv, TypeOK
  <2>11. HeldExactlyOnce'
    <3>1. \A q \in Ports : q \in refused' <=> \E m \in Layers : Held(q, m)'
      BY <2>1, <2>3, <2>8, <2>9 DEF IInv, HeldExactlyOnce
    <3>2. \A q \in Ports, m, n \in Layers : Held(q, m)' /\ Held(q, n)' => m = n
      BY <2>8 DEF IInv, HeldExactlyOnce
    <3>3. \A i, j \in DOMAIN Tail(w) : Tail(w)[i] = Tail(w)[j] => i = j
      BY <2>3, <2>4
    <3>4. \A m \in Layers : ~Waits(waitingForPeer[m], m)'
      BY <1>1, <2>7 DEF IInv, HeldExactlyOnce
    <3> QED BY <2>6, <3>1, <3>2, <3>3, <3>4 DEF IInv, HeldExactlyOnce
  <2>12. HolderIsWoken'
    BY <1>1, <2>1, <2>6 DEF IInv, HolderIsWoken, TypeOK
  <2>13. CalledIsFree'
    BY <2>1 DEF IInv, TypeOK, CalledIsFree
  <2> QED BY <1>2, <2>10, <2>11, <2>12, <2>13 DEF IInv
<1>5. CASE ~(waitingForPeer[l] = NoPort /\ w # <<>>)
  <2>1. /\ state' = [state EXCEPT ![l] = "IDLE"]
        /\ UNCHANGED <<waitingForLayer, retryingPort, refused>>
    BY <1>5 DEF releaseLayer
  <2>2. TypeOK'
    BY <1>1, <1>3, <2>1 DEF IInv, TypeOK
  <2>3. HeldExactlyOnce'
    BY <1>1, <2>1 DEF IInv, HeldExactlyOnce, Held, Waits
  <2>4. HolderIsWoken'
    BY <1>1, <1>5, <2>1 DEF IInv, HolderIsWoken, TypeOK
  <2>5. CalledIsFree'
    BY <1>1, <2>1 DEF IInv, CalledIsFree, Quiet
  <2> QED BY <1>2, <2>2, <2>3, <2>4, <2>5 DEF IInv
<1> QED BY <1>4, <1>5

(* The port the peer refused moves to the head of the queue, or is called  *)
(* at once.                                                                *)
LEMMA RetryKeeps ==
    ASSUME IInv, NEW l \in Layers, recvRetry(l)
    PROVE  IInv'
<1> USE PortAssumption
<1> DEFINE x == waitingForPeer[l]
           s == waitingForLayer[l]
           w == <<x>> \o s
<1>1. /\ Quiet /\ peerBusy[l]
      /\ peerBusy' = [peerBusy EXCEPT ![l] = FALSE]
      /\ waitingForPeer' = [waitingForPeer EXCEPT ![l] = NoPort]
      /\ failed' = (failed \/ x = NoPort)
      /\ UNCHANGED <<releaseEvent, drainManager, drained>>
  BY DEF recvRetry
<1>2. x \in Ports /\ s \in Seq(Ports)
  BY <1>1 DEF IInv, TypeOK, HolderIsWoken
<1>3. /\ w \in Seq(Ports) /\ w # <<>>
      /\ Head(w) = x /\ Tail(w) = s
      /\ 1 \in DOMAIN w /\ w[1] = x
      /\ \A i \in DOMAIN w : i # 1 => /\ i - 1 \in DOMAIN s /\ w[i] = s[i - 1]
                                      /\ i \in Int
      /\ \A i \in DOMAIN s : i + 1 \in DOMAIN w /\ w[i + 1] = s[i]
  BY <1>2, ConsFacts
<1>4. AssertionsHold'
  BY <1>1, <1>2 DEF IInv, AssertionsHold
<1>5. /\ Held(x, l) /\ ~Waits(x, l) /\ x \in refused
      /\ \A i, j \in DOMAIN s : s[i] = s[j] => i = j
      /\ \A i \in DOMAIN s : s[i] # x
  BY <1>2 DEF IInv, HeldExactlyOnce, Held, Waits
<1>6. CASE state[l] = "IDLE"
  <2>1. /\ state' = [state EXCEPT ![l] = "RETRY"]
        /\ retryingPort' = x
        /\ refused' = refused \ {x}
        /\ waitingForLayer' = [waitingForLayer EXCEPT ![l] = s]
    BY <1>3, <1>6 DEF recvRetry, retryWaiting
  <2>2. waitingForLayer' = waitingForLayer
    BY <2>1 DEF IInv, TypeOK
  <2>3. \A q \in Ports, m \in Layers : Held(q, m)' <=> Held(q, m) /\ ~(m = l /\ q = x)
    BY <1>1, <1>5, <2>2 DEF IInv, TypeOK, Held, Waits
  <2>4. TypeOK'
    BY <1>1, <1>2, <2>1, <2>2 DEF IInv, TypeOK
  <2>5. HeldExactlyOnce'
    <3>1. \A q \in Ports : q \in refused' <=> \E m \in Layers : Held(q, m)'
      BY <1>2, <1>5, <2>1, <2>3 DEF IInv, HeldExactlyOnce
    <3>2. \A q \in Ports, m, n \in Layers : Held(q, m)' /\ Held(q, n)' => m = n
      BY <2>3 DEF IInv, HeldExactlyOnce
    <3>3. \A m \in Layers : ~Waits(waitingForPeer[m], m)'
      <4>1. ~Waits(NoPort, l)
        BY <1>2 DEF Waits
      <4> QED BY <1>1, <2>2, <4>1 DEF IInv, HeldExactlyOnce, TypeOK, Waits
    <3> QED BY <2>2, <3>1, <3>2, <3>3 DEF IInv, HeldExactlyOnce
  <2>6. HolderIsWoken'
    BY <1>1, <1>6, <2>1, <2>2 DEF IInv, HolderIsWoken, TypeOK
  <2>7. CalledIsFree'
    BY <2>1 DEF IInv, TypeOK, CalledIsFree
  <2> QED BY <1>4, <2>4, <2>5, <2>6, <2>7 DEF IInv
<1>7. CASE state[l] # "IDLE"
  <2>1. /\ waitingForLayer' = [waitingForLayer EXCEPT ![l] = w]
        /\ UNCHANGED <<state, retryingPort, refused>>
    BY <1>7 DEF recvRetry
  <2> HIDE DEF w
  <2>2. /\ waitingForLayer'[l] = w
        /\ \A m \in Layers : m # l => waitingForLayer'[m] = waitingForLayer[m]
        /\ waitingForLayer' \in [Layers -> Seq(Ports)]
    BY <1>3, <2>1 DEF IInv, TypeOK
  <2>3. \A q, m : m \in Layers => (Waits(q, m)' <=> Waits(q, m) \/ (m = l /\ q = x))
    <3>1. ASSUME NEW q, NEW m \in Layers, m # l
          PROVE  Waits(q, m)' <=> Waits(q, m)
      BY <2>2, <3>1 DEF Waits
    <3>2. ASSUME NEW q, Waits(q, l)' PROVE Waits(q, l) \/ q = x
      BY <1>3, <2>2, <3>2 DEF Waits
    <3>3. ASSUME NEW q, Waits(q, l) \/ q = x PROVE Waits(q, l)'
      BY <1>3, <2>2, <3>3 DEF Waits
    <3> QED BY <3>1, <3>2, <3>3
  <2>4. \A q \in Ports, m \in Layers : Held(q, m)' <=> Held(q, m)
    BY <1>1, <1>2, <2>3 DEF IInv, TypeOK, Held
  <2>5. TypeOK'
    BY <1>1, <2>1, <2>2 DEF IInv, TypeOK
  <2>6. HeldExactlyOnce'
    <3>1. \A q \in Ports : q \in refused' <=> \E m \in Layers : Held(q, m)'
      BY <2>1, <2>4 DEF IInv, HeldExactlyOnce
    <3>2. \A q \in Ports, m, n \in Layers : Held(q, m)' /\ Held(q, n)' => m = n
      BY <2>4 DEF IInv, HeldExactlyOnce
    <3>3. \A i, j \in DOMAIN w : w[i] = w[j] => i = j
      <4> SUFFICES ASSUME NEW i \in DOMAIN w, NEW j \in DOMAIN w, w[i] = w[j] PROVE i = j
        OBVIOUS
      <4>1. CASE i = 1 \/ j = 1
        BY <1>3, <1>5, <4>1
      <4>2. CASE i # 1 /\ j # 1
        <5>1. /\ i - 1 \in DOMAIN s /\ w[i] = s[i - 1] /\ i \in Int
              /\ j - 1 \in DOMAIN s /\ w[j] = s[j - 1] /\ j \in Int
          BY <1>3, <4>2
        <5>2. i - 1 = j - 1
          BY <1>5, <5>1
        <5> QED BY <5>1, <5>2
      <4> QED BY <4>1, <4>2
    <3>4. \A m \in Layers : ~Waits(waitingForPeer[m], m)'
      <4>1. ~Waits(NoPort, l)
        BY <1>2 DEF Waits
      <4> QED BY <1>1, <1>2, <2>3, <4>1 DEF IInv, HeldExactlyOnce, TypeOK
    <3> QED BY <2>2, <3>1, <3>2, <3>3, <3>4 DEF IInv, HeldExactlyOnce
  <2>7. HolderIsWoken'
    BY <1>1, <1>7, <2>1, <2>2 DEF IInv, HolderIsWoken, TypeOK
  <2>8. CalledIsFree'
    BY <1>1, <2>1 DEF IInv, CalledIsFree, Quiet
  <2> QED BY <1>4, <2>5, <2>6, <2>7, <2>8 DEF IInv
<1> QED BY <1>6, <1>7

-----------------------------------------------------------------------------
(* The initial state of the crossbar: every layer idle and empty.          *)
LEMMA InitIInv == Init => IInv
<1> SUFFICES ASSUME Init PROVE IInv
  OBVIOUS
<1> USE PortAssumption DEF Init
<1>0. <<>> \in Seq(Ports)
  OBVIOUS
<1>1. TypeOK
  <2>1. waitingForLayer \in [Layers -> Seq(Ports)]
    BY <1>0
  <2>2. failed \in BOOLEAN /\ refused \subseteq Ports
    OBVIOUS
  <2> QED BY <2>1, <2>2 DEF TypeOK
<1>2. \A l \in Layers, p \in Ports : ~Held(p, l)
  BY DEF Held, Waits
<1>3. HeldExactlyOnce
  BY <1>2 DEF HeldExactlyOnce, Waits
<1>4. HolderIsWoken /\ AssertionsHold /\ CalledIsFree
  BY DEF HolderIsWoken, AssertionsHold, CalledIsFree
<1> QED BY <1>1, <1>3, <1>4 DEF IInv

(* Every step of a layer, a port or a peer keeps the invariant.            *)
LEMMA NextIInv == IInv /\ [Next]_vars => IInv'
<1> SUFFICES ASSUME IInv, [Next]_vars PROVE IInv'
  OBVIOUS
<1> USE PortAssumption
<1>1. ASSUME NEW p \in Ports, NEW l \in Layers, RecvTiming(p, l) PROVE IInv'
  <2>1. Send(p, l) /\ p \notin refused /\ UNCHANGED retryingPort /\ Quiet
    BY <1>1 DEF RecvTiming
  <2>2. retryingPort' = NoPort
    BY <2>1 DEF IInv, CalledIsFree, Quiet
  <2> QED BY <2>1, <2>2, SendKeeps
<1>2. ASSUME NEW l \in Layers, Resend(l) PROVE IInv'
  <2>1. /\ retryingPort \in Ports /\ retryingPort \notin refused
        /\ Send(retryingPort, l) /\ retryingPort' = NoPort
    BY <1>2 DEF Resend, IInv, TypeOK, CalledIsFree
  <2> QED BY <2>1, SendKeeps
<1>3. CASE NoResend
  BY <1>3 DEF NoResend, IInv, TypeOK, HeldExactlyOnce, Held, Waits, HolderIsWoken,
              AssertionsHold, CalledIsFree
<1>4. ASSUME NEW l \in Layers, StillRetry(l) PROVE IInv'
  <2>1. /\ state[l] = "RETRY"
        /\ state' = [state EXCEPT ![l] = "BUSY"]
        /\ releaseEvent' = [releaseEvent EXCEPT ![l] = TRUE]
        /\ failed' = (failed \/ releaseEvent[l])
        /\ UNCHANGED <<waitingForLayer, waitingForPeer, drainManager,
                       retryingPort, refused, peerBusy, drained>>
    BY <1>4 DEF StillRetry, occupyLayer
  <2>2. TypeOK'
    BY <2>1 DEF IInv, TypeOK
  <2>3. HeldExactlyOnce' /\ CalledIsFree'
    BY <1>4, <2>1 DEF StillRetry, IInv, HeldExactlyOnce, Held, Waits, CalledIsFree
  <2>4. HolderIsWoken' /\ AssertionsHold'
    BY <2>1 DEF IInv, HolderIsWoken, TypeOK, AssertionsHold
  <2> QED BY <2>2, <2>3, <2>4 DEF IInv
<1>5. ASSUME NEW l \in Layers, releaseLayer(l) PROVE IInv'
  BY <1>5, ReleaseKeeps
<1>6. ASSUME NEW l \in Layers, recvRetry(l) PROVE IInv'
  BY <1>6, RetryKeeps
<1>7. ASSUME NEW l \in Layers, drain(l) PROVE IInv'
  <2>1. UNCHANGED <<state, waitingForLayer, waitingForPeer, releaseEvent,
                    retryingPort, refused, peerBusy, failed>>
    BY <1>7 DEF drain
  <2>2. TypeOK'
    BY <1>7, <2>1 DEF drain, IInv, TypeOK
  <2>3. HeldExactlyOnce' /\ HolderIsWoken' /\ AssertionsHold' /\ CalledIsFree'
    BY <2>1 DEF IInv, HeldExactlyOnce, Held, Waits, HolderIsWoken, AssertionsHold,
                CalledIsFree
  <2> QED BY <2>2, <2>3 DEF IInv
<1>8. CASE UNCHANGED vars
  BY <1>8 DEF vars, IInv, TypeOK, HeldExactlyOnce, Held, Waits, HolderIsWoken,
              AssertionsHold, CalledIsFree
<1> QED BY <1>1, <1>2, <1>3, <1>4, <1>5, <1>6, <1>7, <1>8 DEF Next

(* The books of the crossbar are right in every reachable state.           *)
LEMMA Invariance == Spec => []IInv
BY InitIInv, NextIInv, PTL DEF Spec

(* Every variable of a layer keeps its type.                               *)
THEOREM TypeCorrect == Spec => []TypeOK
<1>1. IInv => TypeOK
  BY DEF IInv
<1> QED BY Invariance, <1>1, PTL

(* Whatever the ports and the peers do, a refused port is held by exactly  *)
(* one layer, once, until that layer calls it (tryTiming, failedTiming,    *)
(* releaseLayer, recvRetry).                                               *)
THEOREM RefusedHeldOnce == Spec => []HeldExactlyOnce
<1>1. IInv => HeldExactlyOnce
  BY DEF IInv
<1> QED BY Invariance, <1>1, PTL

(* A layer that holds a port has an event or a peer that will make it call *)
(* the port: there is no lost wake-up (releaseLayer, retryWaiting).        *)
THEOREM NoLostWakeup == Spec => []HolderIsWoken
<1>1. IInv => HolderIsWoken
  BY DEF IInv
<1> QED BY Invariance, <1>1, PTL

(* No assert of BaseXBar::Layer can fail.                                  *)
THEOREM NoAssertFails == Spec => []AssertionsHold
<1>1. IInv => AssertionsHold
  BY DEF IInv
<1> QED BY Invariance, <1>1, PTL

(* A port that arrives never overtakes one that waits, and never uses a    *)
(* layer whose peer has not asked for the retry yet (tryTiming).           *)
THEOREM Orderly == Spec => NoBarging
<1> DEFINE Barges == \A l \in Layers : state[l] = "IDLE" /\ state'[l] = "BUSY"
                        => waitingForLayer[l] = <<>> /\ waitingForPeer[l] = NoPort
<1>1. ASSUME IInv, [Next]_vars PROVE [Barges]_vars
  <2> SUFFICES ASSUME Next, NEW l \in Layers, state[l] = "IDLE", state'[l] = "BUSY"
               PROVE  waitingForLayer[l] = <<>> /\ waitingForPeer[l] = NoPort
    BY <1>1
  <2>0. IInv
    BY <1>1
  <2>1. ASSUME NEW p, NEW m \in Layers, Send(p, m)
        PROVE  waitingForLayer[l] = <<>> /\ waitingForPeer[l] = NoPort
    <3>1. m = l /\ ~Taken(l)
      BY <2>0, <2>1 DEF Send, tryTiming, succeededTiming, failedTiming, occupyLayer, IInv, TypeOK
    <3> QED BY <2>0, <3>1 DEF Taken, IInv, HolderIsWoken
  <2>2. ASSUME NEW m \in Layers, StillRetry(m) \/ releaseLayer(m) \/ recvRetry(m) \/ drain(m)
        PROVE  FALSE
    BY <2>0, <2>2 DEF StillRetry, releaseLayer, recvRetry, drain, retryWaiting,
                      occupyLayer, IInv, TypeOK
  <2>3. CASE NoResend
    BY <2>3 DEF NoResend
  <2> QED BY <2>1, <2>2, <2>3 DEF Next, RecvTiming, Resend
<1>2. IInv /\ [Next]_vars => [Barges]_vars
  BY <1>1
<1> QED BY Invariance, <1>2, PTL DEF Spec, NoBarging
=============================================================================
