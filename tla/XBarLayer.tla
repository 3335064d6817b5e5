------------------------------ MODULE XBarLayer ------------------------------
(***************************************************************************)
(* The layers of a crossbar (BaseXBar::Layer, mem/xbar.cc): every          *)
(* destination port has a layer that carries one packet at a time.  A      *)
(* source port that finds the layer busy queues for it; one whose packet   *)
(* the peer behind the destination refuses is remembered until the peer    *)
(* sends a retry.  A refused port sends nothing until it is told to retry, *)
(* and may then send to another layer, or nothing at all (the cache picks  *)
(* what to send anew, and a snoop may have squashed its writeback).        *)
(*                                                                         *)
(* The calls of retryWaiting are nested in zero time: while a layer is in  *)
(* RETRY only the port it called, and then the rest of retryWaiting, run.  *)
(* Packets, their timing, routing and express snoops (which pass without   *)
(* a layer) are left out.                                                  *)
(***************************************************************************)
EXTENDS Naturals, Sequences

CONSTANTS
    Layers,     \* the destinations of one direction: reqLayers, say
    Ports,      \* the source ports
    NoPort      \* the NULL of waitingForPeer

ASSUME PortAssumption == NoPort \notin Ports

VARIABLES
    state, waitingForLayer, waitingForPeer, releaseEvent, drainManager,
    retryingPort,   \* the port retryWaiting is calling, until it returns
    refused,        \* the ports that wait for a retry
    peerBusy,       \* the peers that have refused a packet and owe a retry
    drained,        \* layers that said they are drained, and got nothing since
    failed          \* an assert of the code did not hold

vars == <<state, waitingForLayer, waitingForPeer, releaseEvent, drainManager,
          retryingPort, refused, peerBusy, drained, failed>>

Waits(p, l) == \E i \in DOMAIN waitingForLayer[l] : waitingForLayer[l][i] = p

Init ==
    /\ state = [l \in Layers |-> "IDLE"]
    /\ waitingForLayer = [l \in Layers |-> <<>>]
    /\ waitingForPeer = [l \in Layers |-> NoPort]
    /\ releaseEvent = [l \in Layers |-> FALSE]
    /\ drainManager = [l \in Layers |-> FALSE]
    /\ retryingPort = NoPort
    /\ refused = {}
    /\ peerBusy = [l \in Layers |-> FALSE]
    /\ drained = [l \in Layers |-> FALSE]
    /\ failed = FALSE

-----------------------------------------------------------------------------
(* occupyLayer: busy until the release event.                              *)
occupyLayer(l) ==
    /\ state' = [state EXCEPT ![l] = "BUSY"]
    /\ releaseEvent' = [releaseEvent EXCEPT ![l] = TRUE]

(* Faulty form: a layer that is idle takes whoever comes.                  *)
TakenOnlyWhenBusy(l) == state[l] = "BUSY"

(* The test of tryTiming.                                                  *)
Taken(l) == state[l] = "BUSY" \/ waitingForPeer[l] # NoPort

(* Faulty form: the last to come is the first to be called.                *)
QueueAtFront(p, l) ==
    /\ Taken(l)
    /\ waitingForLayer' = [waitingForLayer EXCEPT ![l] = <<p>> \o @]
    /\ refused' = refused \cup {p}
    /\ failed' = (failed \/ Waits(p, l))
    /\ UNCHANGED <<state, waitingForPeer, releaseEvent, peerBusy>>

(* tryTiming, refused: the port queues for the layer.                      *)
tryTiming(p, l) ==
    /\ Taken(l)
    /\ waitingForLayer' = [waitingForLayer EXCEPT ![l] = Append(@, p)]
    /\ refused' = refused \cup {p}
    /\ failed' = (failed \/ Waits(p, l))
    /\ UNCHANGED <<state, waitingForPeer, releaseEvent, peerBusy>>

(* tryTiming, then the peer takes the packet: succeededTiming.             *)
succeededTiming(p, l) ==
    /\ ~Taken(l)
    /\ occupyLayer(l)
    /\ failed' = (failed \/ releaseEvent[l])
    /\ UNCHANGED <<waitingForLayer, waitingForPeer, refused, peerBusy>>

(* Faulty form: the port is not remembered.                                *)
ForgetFailed(p, l) ==
    /\ ~Taken(l)
    /\ occupyLayer(l)
    /\ refused' = refused \cup {p}
    /\ peerBusy' = [peerBusy EXCEPT ![l] = TRUE]
    /\ failed' = (failed \/ releaseEvent[l])
    /\ UNCHANGED <<waitingForLayer, waitingForPeer>>

(* tryTiming, then the peer refuses the packet: failedTiming.              *)
failedTiming(p, l) ==
    /\ ~Taken(l)
    /\ waitingForPeer' = [waitingForPeer EXCEPT ![l] = p]
    /\ occupyLayer(l)
    /\ refused' = refused \cup {p}
    /\ peerBusy' = [peerBusy EXCEPT ![l] = TRUE]
    /\ failed' = (failed \/ releaseEvent[l] \/ waitingForPeer[l] # NoPort)
    /\ UNCHANGED waitingForLayer

(* recvTimingReq of the crossbar, as the layer sees it.                    *)
Send(p, l) ==
    /\ tryTiming(p, l) \/ succeededTiming(p, l) \/ failedTiming(p, l)
    /\ drained' = [drained EXCEPT ![l] = FALSE]
    /\ UNCHANGED drainManager

(* retryWaiting, up to the call of sendRetry: w are the ports that wait.   *)
retryWaiting(l, w) ==
    /\ state' = [state EXCEPT ![l] = "RETRY"]
    /\ retryingPort' = Head(w)
    /\ refused' = refused \ {Head(w)}
    /\ waitingForLayer' = [waitingForLayer EXCEPT ![l] = Tail(w)]

-----------------------------------------------------------------------------
(* No layer is in the middle of retryWaiting.                              *)
Quiet == \A l \in Layers : state[l] # "RETRY"

(* A port sends a packet of its own accord.                                *)
RecvTiming(p, l) ==
    /\ Quiet
    /\ p \notin refused
    /\ Send(p, l)
    /\ UNCHANGED retryingPort

(* Within sendRetry the port sends, to this layer or to another, or not.   *)
Resend(l) ==
    /\ retryingPort # NoPort
    /\ Send(retryingPort, l)
    /\ retryingPort' = NoPort

NoResend ==
    /\ retryingPort # NoPort
    /\ retryingPort' = NoPort
    /\ UNCHANGED <<state, waitingForLayer, waitingForPeer, releaseEvent,
                   drainManager, refused, peerBusy, drained, failed>>

(* Faulty form: nobody releases the layer when the port did not use it.    *)
RetryUnused(l) ==
    /\ retryingPort = NoPort /\ state[l] = "RETRY"
    /\ state' = [state EXCEPT ![l] = "IDLE"]
    /\ UNCHANGED <<waitingForLayer, waitingForPeer, releaseEvent, drainManager,
                   retryingPort, refused, peerBusy, drained, failed>>

(* The rest of retryWaiting: the layer was not used in zero time.          *)
StillRetry(l) ==
    /\ retryingPort = NoPort /\ state[l] = "RETRY"
    /\ occupyLayer(l)
    /\ failed' = (failed \/ releaseEvent[l])
    /\ UNCHANGED <<waitingForLayer, waitingForPeer, drainManager,
                   retryingPort, refused, peerBusy, drained>>

(* releaseLayer: the release event.                                        *)
releaseLayer(l) ==
    LET free == waitingForPeer[l] = NoPort
        done == free /\ waitingForLayer[l] = <<>> /\ drainManager[l]
    IN  /\ Quiet /\ releaseEvent[l]
        /\ releaseEvent' = [releaseEvent EXCEPT ![l] = FALSE]
        /\ failed' = (failed \/ state[l] # "BUSY")
        /\ \/ /\ free /\ waitingForLayer[l] # <<>>
              /\ retryWaiting(l, waitingForLayer[l])
           \/ /\ ~free \/ waitingForLayer[l] = <<>>
              /\ state' = [state EXCEPT ![l] = "IDLE"]
              /\ UNCHANGED <<waitingForLayer, retryingPort, refused>>
        /\ drainManager' = [drainManager EXCEPT ![l] = @ /\ ~done]
        /\ drained' = [drained EXCEPT ![l] = @ \/ done]
        /\ UNCHANGED <<waitingForPeer, peerBusy>>

(* Faulty form: a retry of the peer is taken without one being owed.       *)
RetryUnasked(l) ==
    /\ Quiet /\ state[l] = "BUSY"
    /\ peerBusy' = [peerBusy EXCEPT ![l] = FALSE]
    /\ waitingForPeer' = [waitingForPeer EXCEPT ![l] = NoPort]
    /\ waitingForLayer' = [waitingForLayer EXCEPT ![l] = <<waitingForPeer[l]>> \o @]
    /\ UNCHANGED <<state, retryingPort, refused, releaseEvent, drainManager,
                   drained, failed>>

(* recvRetry: the peer takes packets again.  The port it refused goes      *)
(* before all that wait.                                                   *)
recvRetry(l) ==
    LET w == <<waitingForPeer[l]>> \o waitingForLayer[l]
    IN  /\ Quiet /\ peerBusy[l]
        /\ peerBusy' = [peerBusy EXCEPT ![l] = FALSE]
        /\ waitingForPeer' = [waitingForPeer EXCEPT ![l] = NoPort]
        /\ failed' = (failed \/ waitingForPeer[l] = NoPort)
        /\ \/ state[l] = "IDLE" /\ retryWaiting(l, w)
           \/ /\ state[l] # "IDLE"
              /\ waitingForLayer' = [waitingForLayer EXCEPT ![l] = w]
              /\ UNCHANGED <<state, retryingPort, refused>>
        /\ UNCHANGED <<releaseEvent, drainManager, drained>>

(* drain: only a layer that is not idle keeps the drain manager.           *)
drain(l) ==
    /\ Quiet
    /\ \/ /\ state[l] # "IDLE"
          /\ drainManager' = [drainManager EXCEPT ![l] = TRUE]
          /\ UNCHANGED drained
       \/ /\ state[l] = "IDLE"
          /\ drained' = [drained EXCEPT ![l] = TRUE]
          /\ UNCHANGED drainManager
    /\ UNCHANGED <<state, waitingForLayer, waitingForPeer, releaseEvent,
                   retryingPort, refused, peerBusy, failed>>

Next ==
    \/ \E p \in Ports, l \in Layers : RecvTiming(p, l)
    \/ \E l \in Layers : Resend(l)
    \/ NoResend
    \/ \E l \in Layers : StillRetry(l)
    \/ \E l \in Layers : releaseLayer(l)
    \/ \E l \in Layers : recvRetry(l)
    \/ \E l \in Layers : drain(l)

Spec == Init /\ [][Next]_vars

(* A call that was made returns.  The simulator runs every scheduled event *)
(* and a peer that refused a packet sends a retry: both are only put off   *)
(* by the calls of other layers in between, hence the strong form.  A peer *)
(* that is offered a retried packet again and again takes one in the end.  *)
(* Nothing is assumed of ports that have not been called.                  *)
Called == NoResend \/ \E l \in Layers : Resend(l)
Accept(l) == Resend(l) /\ ~Taken(l) /\ ~peerBusy'[l]
Fairness ==
    /\ WF_vars(Called)
    /\ \A l \in Layers : /\ WF_vars(StillRetry(l)) /\ SF_vars(releaseLayer(l))
                         /\ SF_vars(recvRetry(l)) /\ SF_vars(Accept(l))

FairSpec == Spec /\ Fairness

-----------------------------------------------------------------------------
(* The type of every variable.                                             *)
TypeOK ==
    /\ state \in [Layers -> {"IDLE", "BUSY", "RETRY"}]
    /\ waitingForLayer \in [Layers -> Seq(Ports)]
    /\ waitingForPeer \in [Layers -> Ports \cup {NoPort}]
    /\ releaseEvent \in [Layers -> BOOLEAN]
    /\ drainManager \in [Layers -> BOOLEAN]
    /\ retryingPort \in Ports \cup {NoPort}
    /\ refused \subseteq Ports
    /\ peerBusy \in [Layers -> BOOLEAN]
    /\ drained \in [Layers -> BOOLEAN]
    /\ failed \in BOOLEAN

(* A port is held by a layer that will call it.                            *)
Held(p, l) == Waits(p, l) \/ waitingForPeer[l] = p

(* No refused port is lost and none is called twice: a port that waits for *)
(* a retry is held exactly once, in the queue of one layer or as the port  *)
(* its peer refused, and a layer holds no port that does not wait (the     *)
(* retry would reach a port that does not expect it, which asserts).       *)
HeldExactlyOnce ==
    /\ \A p \in Ports : p \in refused <=> \E l \in Layers : Held(p, l)
    /\ \A p \in Ports, l, m \in Layers : Held(p, l) /\ Held(p, m) => l = m
    /\ \A l \in Layers : \A i, j \in DOMAIN waitingForLayer[l] :
           waitingForLayer[l][i] = waitingForLayer[l][j] => i = j
    /\ \A l \in Layers : ~Waits(waitingForPeer[l], l)

(* Nobody waits for nothing: a layer that holds a port is busy with its    *)
(* release event scheduled, is calling a port, or its peer owes a retry;   *)
(* it never goes idle over its queue otherwise (releaseLayer, recvRetry).  *)
HolderIsWoken ==
    \A l \in Layers :
        /\ state[l] = "BUSY" <=> releaseEvent[l]
        /\ waitingForPeer[l] # NoPort <=> peerBusy[l]
        /\ state[l] = "IDLE" /\ waitingForLayer[l] # <<>> => peerBusy[l]

(* The asserts of the layer hold in every order of events: no port queues  *)
(* twice, the release event is not scheduled twice and finds the layer     *)
(* busy, a retry of the peer finds the port that waits for it.             *)
AssertionsHold == ~failed

(* No barging: an idle layer takes a packet directly only when no port is  *)
(* queued for it, although it goes idle with ports queued while its peer   *)
(* owes a retry (tryTiming).                                               *)
NoBarging ==
    [][\A l \in Layers : state[l] = "IDLE" /\ state'[l] = "BUSY"
           => waitingForLayer[l] = <<>> /\ waitingForPeer[l] = NoPort]_vars

(* Every refused port is called again, however the ports compete and the   *)
(* peers refuse: retryWaiting takes the ports in order.                    *)
RefusedIsCalled == \A p \in Ports : p \in refused ~> p \notin refused

(* A layer that says it is drained has nobody waiting ("We should check    *)
(* that we're not doing anything, and that noone is waiting", drain).      *)
DrainedLayerIsQuiet ==
    \A l \in Layers : drained[l] => waitingForLayer[l] = <<>> /\ waitingForPeer[l] = NoPort
=============================================================================
