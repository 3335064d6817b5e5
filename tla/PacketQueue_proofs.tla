------------------------- MODULE PacketQueue_proofs -------------------------
(***************************************************************************)
(* Proofs about PacketQueue, for every delay and number of packets.        *)
(***************************************************************************)
EXTENDS PacketQueue, Integers, TLAPS

(* The event ev, if scheduled, is right for the first packet of the list.  *)
RightTime ==
    sendEvent.scheduled =>
        /\ transmitList # <<>>
        /\ transmitList[1].tick <= sendEvent.when
        /\ sendEvent.when <= 1 \/ sendEvent.when = transmitList[1].tick

(* Packets are numbered in the order of their arrival.                     *)
Numbered == \A k \in DOMAIN transmitList : transmitList[k].pkt <= arrived

(* During sendTiming the packet that is sent could go back to the head of  *)
(* the list, and no event has been scheduled unless the peer queued a      *)
(* packet.                                                                 *)
InCall ==
    sending # <<>> =>
        /\ ~waitingOnRetry
        /\ sending[1].tick = 0 /\ sending[1].pkt <= arrived
        /\ sending[1].forced =>
               \A k \in DOMAIN transmitList : sending[1].pkt < transmitList[k].pkt
        /\ ~nested => ~sendEvent.scheduled

(* The peer owes a retry exactly when the queue waits for it.              *)
RetryOwed == owesRetry <=> waitingOnRetry

(* Why the asserts hold: the event is right for the first packet, a        *)
(* refused packet is ready and first, so nothing is queued before it; a    *)
(* sorted list lets a forced packet go to the end.                         *)
IInv ==
    /\ TypeOK /\ WokenOnTime /\ RefusedStaysFirst /\ ForcedInOrder /\ AssertionsHold
    /\ RightTime /\ Numbered /\ InCall /\ RetryOwed

-----------------------------------------------------------------------------
(* schedSendEvent gives an event that is at least a tick ahead, unless a   *)
(* retry is outstanding or an earlier event is there.                      *)
LEMMA EventType ==
    ASSUME TypeOK, NEW when \in Nat
    PROVE  schedSendEvent(when) \in [scheduled : BOOLEAN, when : Nat]
  BY DEF TypeOK, schedSendEvent

(* The list after an insertion.                                            *)
LEMMA InsertFacts ==
    ASSUME NEW S, NEW list \in Seq(S), NEW dp \in S, NEW i \in 1 .. Len(list) + 1
    PROVE  /\ Insert(list, i, dp) \in Seq(S) /\ Insert(list, i, dp) # <<>>
           /\ DOMAIN Insert(list, i, dp) = 1 .. Len(list) + 1
           /\ \A k \in 1 .. Len(list) + 1 :
                /\ k < i => k \in DOMAIN list /\ Insert(list, i, dp)[k] = list[k]
                /\ k = i => Insert(list, i, dp)[k] = dp
                /\ k > i => /\ k - 1 \in DOMAIN list
                            /\ Insert(list, i, dp)[k] = list[k - 1]
<1> DEFINE new == Insert(list, i, dp)
<1>1. \A k \in 1 .. Len(list) + 1 :
          /\ k < i => k \in DOMAIN list /\ new[k] = list[k]
          /\ k = i => new[k] = dp
          /\ k > i => k - 1 \in DOMAIN list /\ new[k] = list[k - 1]
  BY DEF Insert
<1>2. DOMAIN new = 1 .. Len(list) + 1
  BY DEF Insert
<1>3. \A k \in 1 .. Len(list) + 1 : new[k] \in S
  BY <1>1
<1>4. new = [k \in 1 .. Len(list) + 1 |-> new[k]]
  BY DEF Insert
<1> HIDE DEF new
<1>5. new \in [1 .. Len(list) + 1 -> S] /\ Len(list) + 1 \in Nat
  BY <1>3, <1>4
<1>6. new \in Seq(S)
  BY <1>5
<1>7. new # <<>>
  BY <1>2, <1>6
<1> QED BY <1>1, <1>2, <1>6, <1>7 DEF new

(* The list after the first packet has left it.                            *)
LEMMA TailFacts ==
    ASSUME NEW S, NEW list \in Seq(S), list # <<>>
    PROVE  /\ Tail(list) \in Seq(S) /\ list[1] \in S /\ 1 \in DOMAIN list
           /\ DOMAIN list = 1 .. Len(list) /\ Len(list) \in Nat
           /\ DOMAIN Tail(list) = 1 .. Len(list) - 1
           /\ \A k \in DOMAIN Tail(list) : /\ k \in Nat /\ k > 0 /\ k + 1 \in DOMAIN list
                                           /\ Tail(list)[k] = list[k + 1]
  OBVIOUS

(* The packet that is being sent, as a sequence.                           *)
LEMMA OneElement ==
    ASSUME NEW S, NEW s \in Seq(S), Len(s) <= 1, s # <<>>
    PROVE  s[1] \in S /\ s = <<s[1]>>
<1>1. 1 \in DOMAIN s /\ DOMAIN s = 1 .. Len(s) /\ Len(s) \in Nat /\ s[1] \in S
  BY TailFacts
<1>2. Len(s) = 1
  BY <1>1
<1> QED BY <1>1, <1>2

(* The list after a refused packet has come back to its head.              *)
LEMMA ConsFacts ==
    ASSUME NEW S, NEW list \in Seq(S), NEW x \in S
    PROVE  /\ <<x>> \o list \in Seq(S) /\ <<x>> \o list # <<>>
           /\ (<<x>> \o list)[1] = x
           /\ \A k \in DOMAIN (<<x>> \o list) :
                  /\ k \in Nat /\ k > 0
                  /\ k # 1 => k - 1 \in DOMAIN list /\ (<<x>> \o list)[k] = list[k - 1]
  OBVIOUS

-----------------------------------------------------------------------------
(* schedSendTiming: the packet goes behind those that are due no later.    *)
LEMMA QueueKeeps ==
    ASSUME IInv, NEW when \in Nat, NEW force_order \in BOOLEAN,
           schedSendTiming(when, force_order)
    PROVE  IInv'
<1> DEFINE w == Forced(when, force_order)
           dp == [tick |-> w, pkt |-> arrived + 1, forced |-> force_order]
           n == Len(transmitList)
<1>1. /\ transmitList \in Seq(DeferredPacket) /\ n \in Nat
      /\ DOMAIN transmitList = 1 .. n
      /\ \A k \in 1 .. n : /\ transmitList[k] \in DeferredPacket
                           /\ transmitList[k].tick \in Nat /\ transmitList[k].pkt \in Nat
                           /\ transmitList[k].forced \in BOOLEAN
                           /\ transmitList[k].pkt <= arrived
      /\ arrived \in Nat
  <2>1. transmitList \in Seq(DeferredPacket) /\ arrived \in Nat
    BY DEF IInv, TypeOK
  <2>2. n \in Nat /\ DOMAIN transmitList = 1 .. n
    BY <2>1
  <2>3. \A k \in 1 .. n : transmitList[k] \in DeferredPacket
    BY <2>1, <2>2
  <2>4. \A k \in 1 .. n : transmitList[k].pkt <= arrived
    BY <2>2 DEF IInv, Numbered
  <2> QED BY <2>1, <2>2, <2>3, <2>4 DEF DeferredPacket
<1>2. /\ w \in Nat
      /\ force_order => \A k \in 1 .. n : transmitList[k].tick <= w
  <2>1. CASE transmitList = <<>>
    BY <1>1, <2>1 DEF Forced
  <2>2. CASE transmitList # <<>>
    <3>1. n \in 1 .. n
      BY <1>1, <2>2
    <3>2. \A k \in 1 .. n : transmitList[k].tick <= transmitList[n].tick
      BY <1>1, <3>1 DEF IInv, ForcedInOrder
    <3> QED BY <1>1, <2>2, <3>1, <3>2 DEF Forced
  <2> QED BY <2>1, <2>2
<1>3. dp \in DeferredPacket
  BY <1>1, <1>2 DEF DeferredPacket
<1> HIDE DEF w
<1>4. PICK i \in 1 .. n + 1 :
          /\ IsPlace(i, w)
          /\ transmitList' = Insert(transmitList, i, dp)
          /\ sendEvent' = IF i = 1 THEN schedSendEvent(w) ELSE sendEvent
          /\ failed' = (failed \/ (i = 1 /\ EventClash) \/ (force_order /\ i <= n))
  BY DEF schedSendTiming, w
<1>5. /\ arrived' = arrived + 1 /\ nested' = (sending # <<>>)
      /\ UNCHANGED <<waitingOnRetry, drainManager, sending, owesRetry, refused>>
  BY DEF schedSendTiming
<1>6. /\ \A k \in 1 .. n : k < i => transmitList[k].tick <= w
      /\ \A k \in 1 .. n : k >= i => w < transmitList[k].tick
  <2>1. \A k \in 1 .. n : k < i => transmitList[k].tick <= w
    BY <1>1, <1>4 DEF IsPlace
  <2>2. \A k \in 1 .. n : k >= i => w < transmitList[k].tick
    <3> SUFFICES ASSUME NEW k \in 1 .. n, k >= i
                 PROVE  w < transmitList[k].tick
      OBVIOUS
    <3>1. i \in 1 .. n /\ w < transmitList[i].tick
      BY <1>1, <1>4 DEF IsPlace
    <3>2. transmitList[i].tick <= transmitList[k].tick
      BY <1>1, <3>1 DEF IInv, ForcedInOrder
    <3> QED BY <1>1, <1>2, <3>1, <3>2
  <2> QED BY <2>1, <2>2
<1>7. /\ transmitList' \in Seq(DeferredPacket) /\ transmitList' # <<>>
      /\ DOMAIN transmitList' = 1 .. n + 1
      /\ \A k \in 1 .. n + 1 :
           /\ k < i => k \in 1 .. n /\ transmitList'[k] = transmitList[k]
           /\ k = i => transmitList'[k] = dp
           /\ k > i => k - 1 \in 1 .. n /\ transmitList'[k] = transmitList[k - 1]
  <2> HIDE DEF dp
  <2>1. i \in 1 .. Len(transmitList) + 1
    OBVIOUS
  <2>2. /\ transmitList' \in Seq(DeferredPacket) /\ transmitList' # <<>>
        /\ DOMAIN transmitList' = 1 .. Len(transmitList) + 1
        /\ \A k \in 1 .. Len(transmitList) + 1 :
             /\ k < i => k \in DOMAIN transmitList /\ transmitList'[k] = transmitList[k]
             /\ k = i => transmitList'[k] = dp
             /\ k > i => /\ k - 1 \in DOMAIN transmitList
                         /\ transmitList'[k] = transmitList[k - 1]
    <3>1. /\ transmitList \in Seq(DeferredPacket) /\ dp \in DeferredPacket
          /\ transmitList' = Insert(transmitList, i, dp)
      BY <1>1, <1>3, <1>4
    <3> HIDE DEF n
    <3> QED BY ONLY <2>1, <3>1, InsertFacts
  <2> QED BY <1>1, <2>2
<1>8. force_order => i = n + 1
  BY <1>1, <1>2, <1>4, <1>6
<1>9. /\ waitingOnRetry => i # 1 /\ n > 0
      /\ sendEvent.scheduled => n > 0
  BY <1>1, <1>2, <1>6 DEF IInv, RefusedStaysFirst, RightTime
<1>10. TypeOK'
  <2>1. sendEvent' \in [scheduled : BOOLEAN, when : Nat]
    BY <1>2, <1>4, EventType DEF IInv, TypeOK
  <2>2. failed' \in BOOLEAN /\ nested' \in BOOLEAN /\ arrived' \in Nat
    BY <1>1, <1>4, <1>5 DEF IInv, TypeOK
  <2> QED BY <1>5, <1>7, <2>1, <2>2 DEF IInv, TypeOK
<1>11. ForcedInOrder'
  <2> SUFFICES ASSUME NEW j \in 1 .. n + 1, NEW k \in 1 .. n + 1, j < k
               PROVE  /\ transmitList'[j].tick <= transmitList'[k].tick
                      /\ transmitList'[j].forced
                           => transmitList'[j].pkt < transmitList'[k].pkt
    BY <1>7 DEF ForcedInOrder
  <2>1. CASE k < i
    <3>1. /\ k \in 1 .. n /\ j \in 1 .. n
          /\ transmitList'[j] = transmitList[j] /\ transmitList'[k] = transmitList[k]
      BY <1>1, <1>7, <2>1
    <3> QED BY <1>1, <3>1 DEF IInv, ForcedInOrder
  <2>2. CASE k = i
    BY <1>1, <1>2, <1>6, <1>7, <2>2
  <2>3. CASE k > i /\ j = i
    BY <1>1, <1>2, <1>6, <1>7, <1>8, <2>3
  <2>4. CASE k > i /\ j < i
    <3>1. /\ k - 1 \in 1 .. n /\ j \in 1 .. n /\ j < k - 1
          /\ transmitList'[j] = transmitList[j] /\ transmitList'[k] = transmitList[k - 1]
      BY <1>1, <1>7, <2>4
    <3> QED BY <1>1, <3>1 DEF IInv, ForcedInOrder
  <2>5. CASE k > i /\ j > i
    <3>1. /\ k - 1 \in 1 .. n /\ j - 1 \in 1 .. n /\ j - 1 < k - 1
          /\ transmitList'[j] = transmitList[j - 1] /\ transmitList'[k] = transmitList[k - 1]
      BY <1>1, <1>7, <2>5
    <3> QED BY <1>1, <3>1 DEF IInv, ForcedInOrder
  <2> QED BY <1>1, <1>4, <2>1, <2>2, <2>3, <2>4, <2>5
<1>12. Numbered'
  <2> SUFFICES ASSUME NEW k \in 1 .. n + 1
               PROVE  transmitList'[k].pkt <= arrived + 1
    BY <1>5, <1>7 DEF Numbered
  <2>1. k < i \/ k = i \/ k > i
    BY <1>1, <1>4
  <2>2. \/ k \in 1 .. n /\ transmitList'[k] = transmitList[k]
        \/ transmitList'[k].pkt = arrived + 1
        \/ k - 1 \in 1 .. n /\ transmitList'[k] = transmitList[k - 1]
    BY <1>7, <2>1
  <2> QED BY <1>1, <2>2
<1>13. /\ 1 \in 1 .. n + 1
       /\ i = 1 => transmitList'[1] = dp /\ dp.tick = w
       /\ i # 1 => transmitList'[1] = transmitList[1] /\ n > 0 /\ 1 \in 1 .. n
  BY <1>1, <1>4, <1>7
<1>14. RightTime'
  <2>1. CASE i # 1
    BY <1>4, <1>7, <1>13, <2>1 DEF IInv, RightTime
  <2>2. CASE i = 1
    <3>1. ~waitingOnRetry
      BY <1>9, <2>2
    <3>2. sendEvent' = schedSendEvent(w) /\ transmitList'[1].tick = w
      BY <1>4, <1>13, <2>2
    <3>3. sendEvent.scheduled => w < transmitList[1].tick /\ transmitList[1].tick <= sendEvent.when
      BY <1>1, <1>6, <1>9, <2>2 DEF IInv, RightTime
    <3>4. sendEvent \in [scheduled : BOOLEAN, when : Nat]
      BY DEF IInv, TypeOK
    <3>5. /\ w <= sendEvent'.when
          /\ sendEvent'.when <= 1 \/ sendEvent'.when = w
      <4>1. CASE sendEvent.scheduled /\ sendEvent.when <= (IF w = 0 THEN 1 ELSE w)
        BY <1>1, <1>2, <3>1, <3>2, <3>3, <3>4, <4>1, <1>9 DEF schedSendEvent
      <4>2. CASE ~(sendEvent.scheduled /\ sendEvent.when <= (IF w = 0 THEN 1 ELSE w))
        BY <1>2, <3>1, <3>2, <4>2 DEF schedSendEvent
      <4> QED BY <4>1, <4>2
    <3> QED BY <1>7, <3>2, <3>5 DEF RightTime
  <2> QED BY <2>1, <2>2
<1>15. WokenOnTime'
  <2> SUFFICES ASSUME sending = <<>>
               PROVE  /\ sendEvent'.scheduled <=> ~waitingOnRetry
                      /\ RightTime'
    BY <1>5, <1>7 DEF WokenOnTime, RightTime
  <2>1. sendEvent'.scheduled <=> ~waitingOnRetry
    <3>1. CASE i = 1
      BY <1>4, <1>9, <3>1 DEF schedSendEvent
    <3>2. CASE i # 1
      BY <1>1, <1>4, <1>13, <3>2 DEF IInv, WokenOnTime
    <3> QED BY <3>1, <3>2
  <2> QED BY <1>14, <2>1
<1>16. RefusedStaysFirst' /\ RetryOwed'
  BY <1>5, <1>7, <1>9, <1>13 DEF IInv, RefusedStaysFirst, RetryOwed
<1>17. AssertionsHold'
  <2>1. ~failed /\ ~(i = 1 /\ EventClash) /\ ~(force_order /\ i <= n)
    BY <1>1, <1>4, <1>8, <1>9 DEF IInv, AssertionsHold, EventClash
  <2> QED BY <1>4, <2>1 DEF AssertionsHold
<1>18. InCall'
  <2> SUFFICES ASSUME sending # <<>>
               PROVE  /\ ~waitingOnRetry
                      /\ sending[1].tick = 0 /\ sending[1].pkt <= arrived + 1
                      /\ sending[1].forced => \A k \in 1 .. n + 1 :
                                                 sending[1].pkt < transmitList'[k].pkt
    BY <1>5, <1>7 DEF InCall
  <2>1. /\ ~waitingOnRetry /\ sending[1].tick = 0 /\ sending[1].pkt <= arrived
        /\ sending[1].forced => \A k \in 1 .. n : sending[1].pkt < transmitList[k].pkt
        /\ sending[1].pkt \in Nat
    <3>1. sending \in Seq(DeferredPacket)
      BY DEF IInv, TypeOK
    <3>2. sending[1] \in DeferredPacket
      BY <3>1, TailFacts
    <3>3. sending[1].pkt \in Nat
      BY <3>2 DEF DeferredPacket
    <3> QED BY <1>1, <3>3 DEF IInv, InCall
  <2>2. ASSUME sending[1].forced, NEW k \in 1 .. n + 1
        PROVE  sending[1].pkt < transmitList'[k].pkt
    <3>1. k < i \/ k = i \/ k > i
      BY <1>1, <1>4
    <3>2. \/ k \in 1 .. n /\ transmitList'[k] = transmitList[k]
          \/ transmitList'[k].pkt = arrived + 1
          \/ k - 1 \in 1 .. n /\ transmitList'[k] = transmitList[k - 1]
      BY <1>7, <3>1
    <3> QED BY <1>1, <2>1, <2>2, <3>2
  <2> QED BY <1>1, <2>1, <2>2
<1> QED BY <1>10, <1>11, <1>12, <1>14, <1>15, <1>16, <1>17, <1>18 DEF IInv

(* sendDeferredPacket: the first packet, which is ready, leaves the list   *)
(* and no event is scheduled while it is sent.                             *)
LEMMA LeaveKeeps ==
    ASSUME IInv, transmitList # <<>>, transmitList[1].tick = 0,
           sendDeferredPacket(TRUE),
           sendEvent' \in [scheduled : BOOLEAN, when : Nat], ~sendEvent'.scheduled,
           waitingOnRetry' \in BOOLEAN, ~waitingOnRetry',
           owesRetry' \in BOOLEAN, ~owesRetry',
           UNCHANGED <<drainManager, refused, arrived>>
    PROVE  IInv'
<1>1. /\ sending' = <<transmitList[1]>> /\ transmitList' = Tail(transmitList)
      /\ failed' = failed /\ nested' = FALSE
  <2>1. failed' = (failed \/ ~TRUE \/ ~TRUE) /\ failed \in BOOLEAN
    BY DEF sendDeferredPacket, IInv, TypeOK
  <2> QED BY <2>1 DEF sendDeferredPacket
<1>2. transmitList \in Seq(DeferredPacket) /\ arrived \in Nat
  BY DEF IInv, TypeOK
<1>3. /\ transmitList' \in Seq(DeferredPacket) /\ transmitList[1] \in DeferredPacket
      /\ 1 \in DOMAIN transmitList
      /\ \A k \in DOMAIN transmitList' : /\ k \in Nat /\ k > 0 /\ k + 1 \in DOMAIN transmitList
                                         /\ transmitList'[k] = transmitList[k + 1]
  BY <1>1, <1>2, TailFacts
<1>4. /\ sending' \in Seq(DeferredPacket) /\ Len(sending') <= 1 /\ sending' # <<>>
      /\ sending'[1] = transmitList[1]
  BY <1>1, <1>3
<1>5. TypeOK'
  BY <1>1, <1>3, <1>4 DEF IInv, TypeOK
<1>6. ForcedInOrder'
  <2> SUFFICES ASSUME NEW j \in DOMAIN transmitList', NEW k \in DOMAIN transmitList', j < k
               PROVE  /\ transmitList'[j].tick <= transmitList'[k].tick
                      /\ transmitList'[j].forced
                           => transmitList'[j].pkt < transmitList'[k].pkt
    BY DEF ForcedInOrder
  <2>1. /\ j + 1 \in DOMAIN transmitList /\ k + 1 \in DOMAIN transmitList /\ j + 1 < k + 1
        /\ transmitList'[j] = transmitList[j + 1] /\ transmitList'[k] = transmitList[k + 1]
    BY <1>3
  <2> QED BY <2>1 DEF IInv, ForcedInOrder
<1>7. Numbered'
  BY <1>3 DEF IInv, Numbered
<1>8. InCall'
  <2>1. sending'[1].tick = 0 /\ sending'[1].pkt <= arrived'
    BY <1>3, <1>4 DEF IInv, Numbered
  <2>2. ASSUME sending'[1].forced, NEW k \in DOMAIN transmitList'
        PROVE  sending'[1].pkt < transmitList'[k].pkt
    <3>1. /\ k + 1 \in DOMAIN transmitList /\ 1 < k + 1
          /\ transmitList'[k] = transmitList[k + 1]
      BY <1>3
    <3> QED BY <1>3, <1>4, <2>2, <3>1 DEF IInv, ForcedInOrder
  <2> QED BY <2>1, <2>2 DEF InCall
<1>9. WokenOnTime' /\ RightTime' /\ RefusedStaysFirst' /\ RetryOwed'
  BY <1>4 DEF WokenOnTime, RightTime, RefusedStaysFirst, RetryOwed
<1>10. AssertionsHold'
  BY <1>1 DEF IInv, AssertionsHold
<1> QED BY <1>5, <1>6, <1>7, <1>8, <1>9, <1>10 DEF IInv

(* processSendEvent: the event comes for a packet that is ready.           *)
LEMMA EventKeeps ==
    ASSUME IInv, processSendEvent
    PROVE  IInv'
<1>1. /\ sendEvent.when = 0 /\ sendEvent.scheduled /\ sending = <<>>
      /\ sendEvent' = NoEvent /\ sendDeferredPacket(~waitingOnRetry)
      /\ UNCHANGED <<waitingOnRetry, drainManager, owesRetry, refused, arrived>>
  BY DEF processSendEvent
<1>2. /\ ~waitingOnRetry /\ ~owesRetry /\ transmitList # <<>>
      /\ transmitList[1].tick <= 0
  BY <1>1 DEF IInv, WokenOnTime, RetryOwed
<1>3. transmitList[1].tick = 0
  <2>1. transmitList[1] \in DeferredPacket
    BY <1>2, TailFacts DEF IInv, TypeOK
  <2> QED BY <1>2, <2>1 DEF DeferredPacket
<1>4. sendDeferredPacket(TRUE)
  BY <1>1, <1>2 DEF sendDeferredPacket
<1>5. /\ sendEvent' \in [scheduled : BOOLEAN, when : Nat] /\ ~sendEvent'.scheduled
      /\ waitingOnRetry' \in BOOLEAN /\ owesRetry' \in BOOLEAN
      /\ ~waitingOnRetry' /\ ~owesRetry'
  BY <1>1, <1>2 DEF NoEvent, IInv, TypeOK
<1> QED BY <1>1, <1>2, <1>3, <1>4, <1>5, LeaveKeeps

(* retry: the refused packet is tried again.                               *)
LEMMA RetryKeeps ==
    ASSUME IInv, retry
    PROVE  IInv'
<1>1. /\ owesRetry /\ sending = <<>> /\ owesRetry' = FALSE /\ waitingOnRetry' = FALSE
      /\ sendDeferredPacket(waitingOnRetry)
      /\ UNCHANGED <<sendEvent, drainManager, refused, arrived>>
  BY DEF retry
<1>2. waitingOnRetry /\ transmitList # <<>> /\ transmitList[1].tick = 0
  BY <1>1 DEF IInv, RetryOwed, RefusedStaysFirst
<1>3. sendDeferredPacket(TRUE)
  BY <1>1, <1>2 DEF sendDeferredPacket
<1>4. sendEvent' \in [scheduled : BOOLEAN, when : Nat] /\ ~sendEvent'.scheduled
  BY <1>1, <1>2 DEF IInv, TypeOK, WokenOnTime
<1> QED BY <1>1, <1>2, <1>3, <1>4, LeaveKeeps

(* sendTiming returns true: the next packet has its event.                 *)
LEMMA TakenKeeps ==
    ASSUME IInv, SendTaken
    PROVE  IInv'
<1>1. /\ sending # <<>> /\ sending' = <<>>
      /\ sendEvent' = IF transmitList = <<>> THEN sendEvent
                      ELSE schedSendEvent(transmitList[1].tick)
      /\ failed' = (failed \/ EventClash)
      /\ drainManager' = (drainManager /\ ~(transmitList = <<>> /\ ~sendEvent.scheduled))
      /\ UNCHANGED <<transmitList, waitingOnRetry, nested, owesRetry, refused, arrived>>
  BY DEF SendTaken
<1>2. ~waitingOnRetry
  BY <1>1 DEF IInv, InCall
<1>3. transmitList # <<>> => transmitList[1].tick \in Nat
  <2> SUFFICES ASSUME transmitList # <<>> PROVE transmitList[1].tick \in Nat
    OBVIOUS
  <2>1. transmitList[1] \in DeferredPacket
    BY TailFacts DEF IInv, TypeOK
  <2> QED BY <2>1 DEF DeferredPacket
<1>4. sendEvent \in [scheduled : BOOLEAN, when : Nat]
  BY DEF IInv, TypeOK
<1>5. TypeOK'
  <2>1. sendEvent' \in [scheduled : BOOLEAN, when : Nat]
    BY <1>1, <1>3, <1>4, EventType DEF IInv
  <2>2. failed' \in BOOLEAN /\ drainManager' \in BOOLEAN
    BY <1>1 DEF IInv, TypeOK
  <2>3. sending' \in Seq(DeferredPacket) /\ Len(sending') <= 1
    BY <1>1
  <2> QED BY <1>1, <2>1, <2>2, <2>3 DEF IInv, TypeOK
<1>6. RightTime' /\ (sendEvent'.scheduled <=> transmitList # <<>>)
  <2>1. CASE transmitList = <<>>
    BY <1>1, <2>1 DEF IInv, RightTime
  <2>2. CASE transmitList # <<>>
    <3> DEFINE t == transmitList[1].tick
               at == IF t = 0 THEN 1 ELSE t
    <3>1. sendEvent' = IF sendEvent.scheduled /\ sendEvent.when <= at
                       THEN sendEvent ELSE [scheduled |-> TRUE, when |-> at]
      BY <1>1, <1>2, <2>2 DEF schedSendEvent
    <3>2. sendEvent.scheduled => /\ t <= sendEvent.when
                                 /\ sendEvent.when <= 1 \/ sendEvent.when = t
      BY DEF IInv, RightTime
    <3>3. /\ sendEvent'.scheduled /\ t <= sendEvent'.when
          /\ sendEvent'.when <= 1 \/ sendEvent'.when = t
      <4> HIDE DEF t
      <4>1. t \in Nat
        BY <1>3, <2>2 DEF t
      <4>2. CASE sendEvent.scheduled /\ sendEvent.when <= at
        BY <3>1, <3>2, <4>2
      <4>3. CASE ~(sendEvent.scheduled /\ sendEvent.when <= at)
        BY <3>1, <4>1, <4>3
      <4> QED BY <4>2, <4>3
    <3> QED BY <1>1, <2>2, <3>3 DEF RightTime
  <2> QED BY <2>1, <2>2
<1>7. WokenOnTime'
  BY <1>1, <1>2, <1>6 DEF WokenOnTime, RightTime
<1>8. RefusedStaysFirst' /\ RetryOwed' /\ ForcedInOrder' /\ Numbered' /\ InCall'
  BY <1>1 DEF IInv, RefusedStaysFirst, RetryOwed, ForcedInOrder, Numbered, InCall
<1>9. AssertionsHold'
  <2>1. ~failed /\ ~EventClash
    BY <1>2 DEF IInv, AssertionsHold, EventClash
  <2> QED BY <1>1, <2>1 DEF AssertionsHold
<1> QED BY <1>5, <1>6, <1>7, <1>8, <1>9 DEF IInv

(* sendTiming returns false: the packet is the first of the list again.    *)
LEMMA RefusedKeeps ==
    ASSUME IInv, SendRefused
    PROVE  IInv'
<1>1. /\ sending # <<>> /\ ~nested /\ sending' = <<>>
      /\ transmitList' = sending \o transmitList
      /\ waitingOnRetry' = TRUE /\ owesRetry' = TRUE /\ refused' = sending[1].pkt
      /\ UNCHANGED <<sendEvent, drainManager, nested, arrived, failed>>
  BY DEF SendRefused
<1>2. /\ transmitList \in Seq(DeferredPacket) /\ sending \in Seq(DeferredPacket)
      /\ Len(sending) <= 1 /\ arrived \in Nat
  BY DEF IInv, TypeOK
<1>3. sending[1] \in DeferredPacket /\ sending = <<sending[1]>>
  BY <1>1, <1>2, OneElement
<1> DEFINE x == sending[1]
<1>4. transmitList' = <<x>> \o transmitList /\ x \in DeferredPacket
  BY <1>1, <1>3
<1>5. /\ x.tick = 0 /\ x.pkt <= arrived /\ x.pkt \in Nat
      /\ x.forced => \A k \in DOMAIN transmitList : x.pkt < transmitList[k].pkt
      /\ ~sendEvent.scheduled
  BY <1>1, <1>3 DEF IInv, InCall, DeferredPacket
<1> HIDE DEF x
<1>6. /\ transmitList' \in Seq(DeferredPacket) /\ transmitList' # <<>>
      /\ transmitList'[1] = x
      /\ \A k \in DOMAIN transmitList' :
             /\ k \in Nat /\ k > 0
             /\ k # 1 => /\ k - 1 \in DOMAIN transmitList
                         /\ transmitList'[k] = transmitList[k - 1]
  BY <1>2, <1>4, ConsFacts
<1>7. \A k \in DOMAIN transmitList : transmitList[k].tick \in Nat
  <2> SUFFICES ASSUME NEW k \in DOMAIN transmitList
               PROVE  transmitList[k].tick \in Nat
    OBVIOUS
  <2>1. transmitList[k] \in DeferredPacket
    BY <1>2
  <2> QED BY <2>1 DEF DeferredPacket
<1>8. TypeOK'
  <2>1. sending' \in Seq(DeferredPacket) /\ Len(sending') <= 1
    BY <1>1
  <2>2. refused' \in Nat
    BY <1>1, <1>5 DEF x
  <2> QED BY <1>1, <1>6, <2>1, <2>2 DEF IInv, TypeOK
<1>9. ForcedInOrder'
  <2> SUFFICES ASSUME NEW j \in DOMAIN transmitList', NEW k \in DOMAIN transmitList', j < k
               PROVE  /\ transmitList'[j].tick <= transmitList'[k].tick
                      /\ transmitList'[j].forced
                           => transmitList'[j].pkt < transmitList'[k].pkt
    BY DEF ForcedInOrder
  <2>1. k - 1 \in DOMAIN transmitList /\ transmitList'[k] = transmitList[k - 1]
    BY <1>6
  <2>2. CASE j = 1
    BY <1>5, <1>6, <1>7, <2>1, <2>2
  <2>3. CASE j # 1
    <3>1. /\ j - 1 \in DOMAIN transmitList /\ transmitList'[j] = transmitList[j - 1]
          /\ j - 1 < k - 1
      BY <1>6, <2>3
    <3> QED BY <2>1, <3>1 DEF IInv, ForcedInOrder
  <2> QED BY <2>2, <2>3
<1>10. Numbered'
  <2> SUFFICES ASSUME NEW k \in DOMAIN transmitList'
               PROVE  transmitList'[k].pkt <= arrived
    BY <1>1 DEF Numbered
  <2>1. CASE k = 1
    BY <1>5, <1>6, <2>1
  <2>2. CASE k # 1
    BY <1>6, <2>2 DEF IInv, Numbered
  <2> QED BY <2>1, <2>2
<1>11. WokenOnTime' /\ RightTime' /\ InCall' /\ RetryOwed'
  BY <1>1, <1>5 DEF WokenOnTime, RightTime, InCall, RetryOwed
<1>12. RefusedStaysFirst'
  BY <1>1, <1>5, <1>6 DEF RefusedStaysFirst, x
<1>13. AssertionsHold'
  BY <1>1 DEF IInv, AssertionsHold
<1> QED BY <1>8, <1>9, <1>10, <1>11, <1>12, <1>13 DEF IInv

(* Time passes: nothing changes its order, and an event and its packet     *)
(* come closer together.                                                   *)
LEMMA TickKeeps ==
    ASSUME IInv, Tick
    PROVE  IInv'
<1>1. /\ sending = <<>> /\ (sendEvent.scheduled => sendEvent.when > 0)
      /\ transmitList' = [k \in DOMAIN transmitList |->
                             [transmitList[k] EXCEPT !.tick = Sooner(@)]]
      /\ sendEvent' = [sendEvent EXCEPT !.when = Sooner(@)]
      /\ UNCHANGED <<waitingOnRetry, drainManager, sending, nested, owesRetry,
                     refused, arrived, failed>>
  BY DEF Tick
<1>2. /\ transmitList \in Seq(DeferredPacket)
      /\ sendEvent \in [scheduled : BOOLEAN, when : Nat]
  BY DEF IInv, TypeOK
<1>3. \A t \in Nat : Sooner(t) \in Nat
  BY DEF Sooner
<1>4. \A t, u \in Nat : t <= u => Sooner(t) <= Sooner(u)
  BY DEF Sooner
<1>5. /\ sendEvent' \in [scheduled : BOOLEAN, when : Nat]
      /\ sendEvent'.scheduled = sendEvent.scheduled
      /\ sendEvent'.when = Sooner(sendEvent.when)
  BY <1>1, <1>2, <1>3
<1>6. \A k \in DOMAIN transmitList :
          /\ transmitList[k] \in DeferredPacket /\ transmitList[k].tick \in Nat
          /\ transmitList'[k] \in DeferredPacket
          /\ transmitList'[k].tick = Sooner(transmitList[k].tick)
          /\ transmitList'[k].pkt = transmitList[k].pkt
          /\ transmitList'[k].forced = transmitList[k].forced
  <2> SUFFICES ASSUME NEW k \in DOMAIN transmitList
               PROVE  /\ transmitList[k] \in DeferredPacket /\ transmitList[k].tick \in Nat
                      /\ transmitList'[k] \in DeferredPacket
                      /\ transmitList'[k].tick = Sooner(transmitList[k].tick)
                      /\ transmitList'[k].pkt = transmitList[k].pkt
                      /\ transmitList'[k].forced = transmitList[k].forced
    OBVIOUS
  <2>1. transmitList[k] \in DeferredPacket
    BY <1>2
  <2>2. transmitList'[k] = [transmitList[k] EXCEPT !.tick = Sooner(@)]
    BY <1>1
  <2> QED BY <1>3, <2>1, <2>2 DEF DeferredPacket
<1>7. /\ transmitList' \in Seq(DeferredPacket)
      /\ DOMAIN transmitList' = DOMAIN transmitList
      /\ transmitList' = <<>> <=> transmitList = <<>>
      /\ transmitList # <<>> => 1 \in DOMAIN transmitList
  <2>1. DOMAIN transmitList = 1 .. Len(transmitList) /\ Len(transmitList) \in Nat
    BY <1>2
  <2>2. transmitList' \in [1 .. Len(transmitList) -> DeferredPacket]
    BY <1>1, <1>6, <2>1
  <2>3. transmitList' \in Seq(DeferredPacket) /\ DOMAIN transmitList' = DOMAIN transmitList
    BY <2>1, <2>2
  <2>4. transmitList # <<>> => 1 \in DOMAIN transmitList
    BY <1>2, TailFacts
  <2>5. transmitList' # <<>> => 1 \in DOMAIN transmitList'
    BY <2>3, TailFacts
  <2> QED BY <2>3, <2>4, <2>5
<1>8. TypeOK'
  BY <1>1, <1>5, <1>7 DEF IInv, TypeOK
<1>9. ForcedInOrder' /\ Numbered'
  <2>1. ASSUME NEW j \in DOMAIN transmitList, NEW k \in DOMAIN transmitList, j < k
        PROVE  /\ transmitList'[j].tick <= transmitList'[k].tick
               /\ transmitList'[j].forced => transmitList'[j].pkt < transmitList'[k].pkt
    <3>1. /\ transmitList[j].tick <= transmitList[k].tick
          /\ transmitList[j].forced => transmitList[j].pkt < transmitList[k].pkt
      BY <2>1 DEF IInv, ForcedInOrder
    <3> QED BY <1>4, <1>6, <3>1
  <2>2. \A k \in DOMAIN transmitList : transmitList'[k].pkt <= arrived'
    BY <1>1, <1>6 DEF IInv, Numbered
  <2> QED BY <1>7, <2>1, <2>2 DEF ForcedInOrder, Numbered
<1>10. RightTime'
  <2> SUFFICES ASSUME sendEvent.scheduled
               PROVE  /\ transmitList # <<>>
                      /\ transmitList'[1].tick <= Sooner(sendEvent.when)
                      /\ Sooner(sendEvent.when) <= 1 \/ Sooner(sendEvent.when) = transmitList'[1].tick
    BY <1>5, <1>7 DEF RightTime
  <2>1. /\ transmitList # <<>> /\ transmitList[1].tick <= sendEvent.when
        /\ sendEvent.when <= 1 \/ sendEvent.when = transmitList[1].tick
    BY DEF IInv, RightTime
  <2>2. transmitList'[1].tick = Sooner(transmitList[1].tick) /\ transmitList[1].tick \in Nat
    BY <1>6, <1>7, <2>1
  <2>3. sendEvent.when <= 1 => Sooner(sendEvent.when) <= 1
    BY <1>2 DEF Sooner
  <2> QED BY <1>2, <1>4, <2>1, <2>2, <2>3
<1>11. WokenOnTime'
  <2>1. sendEvent'.scheduled <=> transmitList' # <<>> /\ ~waitingOnRetry'
    BY <1>1, <1>5, <1>7 DEF IInv, WokenOnTime
  <2> QED BY <1>10, <2>1 DEF WokenOnTime, RightTime
<1>12. RefusedStaysFirst'
  <2>1. Sooner(0) = 0
    BY DEF Sooner
  <2> QED BY <1>1, <1>6, <1>7, <2>1 DEF IInv, RefusedStaysFirst
<1>13. InCall' /\ RetryOwed' /\ AssertionsHold'
  BY <1>1 DEF IInv, InCall, RetryOwed, AssertionsHold
<1> QED BY <1>8, <1>9, <1>10, <1>11, <1>12, <1>13 DEF IInv

-----------------------------------------------------------------------------
(* The empty queue of the constructor.                                     *)
LEMMA InitIInv == Init => IInv
<1> SUFFICES ASSUME Init PROVE IInv
  OBVIOUS
<1>1. TypeOK
  <2>1. /\ transmitList \in Seq(DeferredPacket)
        /\ sending \in Seq(DeferredPacket) /\ Len(sending) <= 1
    BY DEF Init
  <2>2. sendEvent \in [scheduled : BOOLEAN, when : Nat]
    BY DEF Init, NoEvent
  <2> QED BY <2>1, <2>2 DEF Init, TypeOK
<1>2. WokenOnTime /\ RightTime /\ RefusedStaysFirst /\ InCall /\ RetryOwed /\ AssertionsHold
  BY DEF Init, NoEvent, WokenOnTime, RightTime, RefusedStaysFirst, InCall, RetryOwed,
         AssertionsHold
<1>3. DOMAIN transmitList = {}
  BY DEF Init
<1>4. ForcedInOrder /\ Numbered
  BY <1>3 DEF ForcedInOrder, Numbered
<1> QED BY <1>1, <1>2, <1>4 DEF IInv

(* Every step of the queue, its user or its peer keeps the invariant.      *)
LEMMA NextIInv == IInv /\ [Next]_vars => IInv'
<1> SUFFICES ASSUME IInv, [Next]_vars PROVE IInv'
  OBVIOUS
<1>1. ASSUME NEW when \in 0 .. MaxDelay, NEW force_order \in BOOLEAN,
             schedSendTiming(when, force_order)
      PROVE  IInv'
  <2>1. when \in Nat
    BY QueueAssumption
  <2> QED BY <1>1, <2>1, QueueKeeps
<1>2. CASE processSendEvent
  BY <1>2, EventKeeps
<1>3. CASE retry
  BY <1>3, RetryKeeps
<1>4. CASE SendTaken
  BY <1>4, TakenKeeps
<1>5. CASE SendRefused
  BY <1>5, RefusedKeeps
<1>6. CASE drain
  <2>1. /\ drainManager' = TRUE
        /\ UNCHANGED <<transmitList, sendEvent, waitingOnRetry, sending, nested,
                       owesRetry, refused, arrived, failed>>
    BY <1>6 DEF drain
  <2> QED BY <2>1 DEF IInv, TypeOK, WokenOnTime, RefusedStaysFirst, ForcedInOrder,
                      AssertionsHold, RightTime, Numbered, InCall, RetryOwed
<1>7. CASE Tick
  BY <1>7, TickKeeps
<1>8. CASE UNCHANGED vars
  BY <1>8 DEF vars, IInv, TypeOK, WokenOnTime, RefusedStaysFirst, ForcedInOrder,
              AssertionsHold, RightTime, Numbered, InCall, RetryOwed
<1> QED BY <1>1, <1>2, <1>3, <1>4, <1>5, <1>6, <1>7, <1>8 DEF Next

(* So the invariant holds in every state of every behaviour.               *)
LEMMA Invariance == Spec => []IInv
BY InitIInv, NextIInv, PTL DEF Spec

(* Every variable of the queue keeps its type.                             *)
THEOREM TypeCorrect == Spec => []TypeOK
<1>1. IInv => TypeOK
  BY DEF IInv
<1> QED BY Invariance, <1>1, PTL

(* No lost wake-up: whatever is queued, taken or refused, a packet that    *)
(* need not wait for a retry has its event, on time (schedSendEvent).      *)
THEOREM PacketIsWoken == Spec => []WokenOnTime
<1>1. IInv => WokenOnTime
  BY DEF IInv
<1> QED BY Invariance, <1>1, PTL

(* The packet that was refused is the one that is retried, whatever is     *)
(* queued in between (schedSendTiming, sendDeferredPacket).                *)
THEOREM RefusedIsRetriedFirst == Spec => []RefusedStaysFirst
<1>1. IInv => RefusedStaysFirst
  BY DEF IInv
<1> QED BY Invariance, <1>1, PTL

(* The list is sorted and no packet overtakes those that were queued       *)
(* before it when it asked for their order (force_order).                  *)
THEOREM OrderKept == Spec => []ForcedInOrder
<1>1. IInv => ForcedInOrder
  BY DEF IInv
<1> QED BY Invariance, <1>1, PTL

(* No assert of PacketQueue fails, calls of the peer into the queue while  *)
(* it sends included.                                                      *)
THEOREM NoAssertFails == Spec => []AssertionsHold
<1>1. IInv => AssertionsHold
  BY DEF IInv
<1> QED BY Invariance, <1>1, PTL
=============================================================================
