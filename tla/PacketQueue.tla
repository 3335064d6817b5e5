----------------------------- MODULE PacketQueue -----------------------------
(***************************************************************************)
(* The queue behind a port (mem/packet_queue.cc): responses, snoop         *)
(* responses and requests wait in order of the tick they may be sent at,   *)
(* one event sends the first, a refused packet waits for a retry.          *)
(*                                                                         *)
(* Sending is a call into the peer, in zero time, and a peer that takes a  *)
(* packet may queue the next one here before it returns; "sending" is the  *)
(* packet during that call.  Ticks are relative to curTick(), 0 is "now or *)
(* earlier".  A packet is the number of its arrival.  The panic above 100  *)
(* packets is out of the reach of MaxPackets.                              *)
(***************************************************************************)
EXTENDS Naturals, Sequences

CONSTANTS
    MaxDelay,   \* bound: "when" is at most this far in the future
    MaxPackets  \* bound: packets queued in a behaviour

ASSUME QueueAssumption == MaxDelay \in Nat /\ MaxPackets \in Nat

VARIABLES
    transmitList, sendEvent, waitingOnRetry, drainManager,
    sending,    \* the packet sendTiming is called with, or <<>>
    nested,     \* the peer has queued packets during the call
    owesRetry,  \* the peer has refused a packet and will call retry
    refused,    \* the packet it refused
    arrived,    \* packets queued so far
    failed      \* an assert of the code did not hold

vars == <<transmitList, sendEvent, waitingOnRetry, drainManager, sending, nested,
          owesRetry, refused, arrived, failed>>

NoEvent == [scheduled |-> FALSE, when |-> 0]

Init ==
    /\ transmitList = <<>> /\ sendEvent = NoEvent /\ waitingOnRetry = FALSE
    /\ drainManager = FALSE /\ sending = <<>> /\ nested = FALSE
    /\ owesRetry = FALSE /\ refused = 0 /\ arrived = 0 /\ failed = FALSE

-----------------------------------------------------------------------------
(* Faulty form: the event may be due before the present.                   *)
EarlyEvent(when) ==
    IF waitingOnRetry THEN sendEvent ELSE [scheduled |-> TRUE, when |-> when - 1]

(* Faulty form: an event that is scheduled is never moved forward.         *)
KeepEvent(when) ==
    IF waitingOnRetry \/ sendEvent.scheduled THEN sendEvent
    ELSE [scheduled |-> TRUE, when |-> IF when = 0 THEN 1 ELSE when]

(* schedSendEvent for a time other than MaxTick: at least one tick ahead,  *)
(* and never later than before.                                            *)
schedSendEvent(when) ==
    LET at == IF when = 0 THEN 1 ELSE when
    IN  IF waitingOnRetry \/ (sendEvent.scheduled /\ sendEvent.when <= at)
        THEN sendEvent ELSE [scheduled |-> TRUE, when |-> at]

(* Its assert.                                                             *)
EventClash == waitingOnRetry /\ sendEvent.scheduled

Insert(list, i, dp) ==
    [k \in 1 .. Len(list) + 1 |->
        IF k < i THEN list[k] ELSE IF k = i THEN dp ELSE list[k - 1]]

(* Faulty form: before the packets of the same tick.                       *)
BeforeEqual(i, when) ==
    /\ \A k \in 1 .. i - 1 : transmitList[k].tick < when
    /\ i <= Len(transmitList) => when <= transmitList[i].tick

(* The place of a packet: behind those that are due no later.              *)
IsPlace(i, when) ==
    /\ \A k \in 1 .. i - 1 : transmitList[k].tick <= when
    /\ i <= Len(transmitList) => when < transmitList[i].tick

(* Faulty form: forced packets are not moved back.                         *)
Unforced(when, force_order) == when

(* force_order: not before the last of the queue.                          *)
Forced(when, force_order) ==
    LET back == transmitList[Len(transmitList)].tick
    IN  IF force_order /\ transmitList # <<>> /\ when < back THEN back ELSE when

schedSendTiming(when, force_order) ==
    LET w == Forced(when, force_order)
        dp == [tick |-> w, pkt |-> arrived + 1, forced |-> force_order]
        n == Len(transmitList)
    IN  /\ arrived < MaxPackets
        /\ arrived' = arrived + 1
        /\ nested' = (sending # <<>>)
        /\ \E i \in 1 .. n + 1 :
              /\ IsPlace(i, w)
              /\ transmitList' = Insert(transmitList, i, dp)
              /\ sendEvent' = IF i = 1 THEN schedSendEvent(w) ELSE sendEvent
              /\ failed' = (failed \/ (i = 1 /\ EventClash) \/ (force_order /\ i <= n))
        /\ UNCHANGED <<waitingOnRetry, drainManager, sending, owesRetry, refused>>

-----------------------------------------------------------------------------
(* sendDeferredPacket up to the call of sendTiming: the first packet, which *)
(* must be ready, leaves the list.  "legal" is the assert of the caller.   *)
sendDeferredPacket(legal) ==
    LET ready == transmitList # <<>> /\ transmitList[1].tick = 0
    IN  /\ sending' = IF ready THEN <<transmitList[1]>> ELSE <<>>
        /\ transmitList' = IF ready THEN Tail(transmitList) ELSE transmitList
        /\ failed' = (failed \/ ~ready \/ ~legal)
        /\ nested' = FALSE

processSendEvent ==
    /\ sending = <<>> /\ sendEvent.scheduled /\ sendEvent.when = 0
    /\ sendEvent' = NoEvent
    /\ sendDeferredPacket(~waitingOnRetry)
    /\ UNCHANGED <<waitingOnRetry, drainManager, owesRetry, refused, arrived>>

retry ==
    /\ sending = <<>> /\ owesRetry
    /\ owesRetry' = FALSE
    /\ waitingOnRetry' = FALSE
    /\ sendDeferredPacket(waitingOnRetry)
    /\ UNCHANGED <<sendEvent, drainManager, refused, arrived>>

(* Faulty form: the event of the next packet is left to its arrival.       *)
TakenNoEvent ==
    /\ sending # <<>>
    /\ sending' = <<>>
    /\ UNCHANGED <<transmitList, sendEvent, waitingOnRetry, drainManager, nested,
                   owesRetry, refused, arrived, failed>>

(* sendTiming returns true: the next packet gets its event, an empty queue *)
(* tells the drain manager.                                                *)
SendTaken ==
    LET empty == transmitList = <<>>
    IN  /\ sending # <<>>
        /\ sending' = <<>>
        /\ sendEvent' = IF empty THEN sendEvent ELSE schedSendEvent(transmitList[1].tick)
        /\ drainManager' = (drainManager /\ ~(empty /\ ~sendEvent.scheduled))
        /\ failed' = (failed \/ EventClash)
        /\ UNCHANGED <<transmitList, waitingOnRetry, nested, owesRetry, refused, arrived>>

(* Faulty form: the packet goes to the end of the list.                    *)
RefusedToBack ==
    /\ sending # <<>> /\ ~nested
    /\ sending' = <<>>
    /\ transmitList' = transmitList \o sending
    /\ waitingOnRetry' = TRUE /\ owesRetry' = TRUE /\ refused' = sending[1].pkt
    /\ UNCHANGED <<sendEvent, drainManager, nested, arrived, failed>>

(* sendTiming returns false: the packet is the first of the list again.  A *)
(* peer that refuses does nothing else, so it has queued nothing.          *)
SendRefused ==
    /\ sending # <<>> /\ ~nested
    /\ sending' = <<>>
    /\ transmitList' = sending \o transmitList
    /\ waitingOnRetry' = TRUE /\ owesRetry' = TRUE /\ refused' = sending[1].pkt
    /\ UNCHANGED <<sendEvent, drainManager, nested, arrived, failed>>

drain ==
    /\ sending = <<>> /\ transmitList # <<>>
    /\ drainManager' = TRUE
    /\ UNCHANGED <<transmitList, sendEvent, waitingOnRetry, sending, nested,
                   owesRetry, refused, arrived, failed>>

Sooner(t) == IF t = 0 THEN 0 ELSE t - 1

(* Time passes once the event of this point of time is done.               *)
Tick ==
    /\ sending = <<>>
    /\ sendEvent.scheduled => sendEvent.when > 0
    /\ transmitList' = [k \in DOMAIN transmitList |->
                           [transmitList[k] EXCEPT !.tick = Sooner(@)]]
    /\ sendEvent' = [sendEvent EXCEPT !.when = Sooner(@)]
    /\ UNCHANGED <<waitingOnRetry, drainManager, sending, nested, owesRetry,
                   refused, arrived, failed>>

Next ==
    \/ \E when \in 0 .. MaxDelay, force_order \in BOOLEAN :
           schedSendTiming(when, force_order)
    \/ processSendEvent
    \/ retry
    \/ SendTaken
    \/ SendRefused
    \/ drain
    \/ Tick

Spec == Init /\ [][Next]_vars

(* Events run, time goes on, a call returns and a peer that refused calls  *)
(* retry; a peer that is offered packets again and again takes one in the  *)
(* end.                                                                    *)
Fairness ==
    /\ WF_vars(processSendEvent) /\ WF_vars(Tick) /\ WF_vars(retry)
    /\ WF_vars(SendTaken \/ SendRefused) /\ SF_vars(SendTaken)

FairSpec == Spec /\ Fairness

-----------------------------------------------------------------------------
(* The packets of the list, in its order.                                  *)
DeferredPacket == [tick : Nat, pkt : Nat, forced : BOOLEAN]

(* The type of every variable.                                             *)
TypeOK ==
    /\ transmitList \in Seq(DeferredPacket)
    /\ sendEvent \in [scheduled : BOOLEAN, when : Nat]
    /\ waitingOnRetry \in BOOLEAN /\ drainManager \in BOOLEAN
    /\ sending \in Seq(DeferredPacket) /\ Len(sending) <= 1
    /\ nested \in BOOLEAN /\ owesRetry \in BOOLEAN
    /\ refused \in Nat /\ arrived \in Nat /\ failed \in BOOLEAN

(* Between calls the send event is scheduled exactly when there is a       *)
(* packet and no retry to wait for.  It finds the first packet ready and   *)
(* is not late: it comes at that packet's tick, or at the next tick when   *)
(* the packet could leave at once (schedSendEvent).                        *)
WokenOnTime ==
    sending = <<>> =>
        /\ sendEvent.scheduled <=> transmitList # <<>> /\ ~waitingOnRetry
        /\ sendEvent.scheduled =>
               /\ transmitList[1].tick <= sendEvent.when
               /\ sendEvent.when <= 1 \/ sendEvent.when = transmitList[1].tick

(* The packet that was refused is the first of the list, and ready, until  *)
(* it is retried: a packet that arrives in between does not take its place *)
(* ("could in theory put a new packet at the head", schedSendTiming) and   *)
(* the retry finds it.                                                     *)
RefusedStaysFirst ==
    waitingOnRetry => /\ owesRetry /\ transmitList # <<>>
                      /\ transmitList[1].pkt = refused /\ transmitList[1].tick = 0

(* The list stays sorted by tick, and what was queued before a packet with *)
(* force_order leaves before it, through any number of insertions, refusals*)
(* and packets queued by the peer while one is sent.                       *)
ForcedInOrder ==
    \A i, j \in DOMAIN transmitList : i < j =>
        /\ transmitList[i].tick <= transmitList[j].tick
        /\ transmitList[i].forced => transmitList[i].pkt < transmitList[j].pkt

(* The asserts of the queue hold: the event never fires for a packet that  *)
(* is not ready or while a retry is owed, a retry is expected, a forced    *)
(* packet goes to the end.                                                 *)
AssertionsHold == ~failed

(* Every packet is sent.                                                   *)
Queued(n) == \E k \in DOMAIN transmitList : transmitList[k].pkt = n
EveryPacketLeaves == \A n \in 1 .. MaxPackets : Queued(n) ~> ~Queued(n) /\ sending = <<>>

(* Once no more packets arrive a drain that was asked for is signalled.    *)
DrainCompletes == drainManager ~> ~drainManager
=============================================================================
