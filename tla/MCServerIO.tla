----------------------------- MODULE MCServerIO -----------------------------
(***************************************************************************)
(* What stands between the server's threads and its sockets, in small      *)
(* instances: the message queues, used by two threads (queue) and used and *)
(* reset by one (reset), a player's send queue (send), and the listener of *)
(* a sector, parked (park) and with its comms restarted (comms).  Queues   *)
(* and listener share no variable, so that their steps commute and it is   *)
(* enough to let one of them move: a behaviour is one of its part.         *)
(***************************************************************************)
EXTENDS SendQueue

CONSTANTS
    Parts,         \* the parts that may move
    MaxConns, MaxRestarts, MaxLosses   \* the listener's bounds, see Listener

VARIABLES
    part,
    mgr, stopping, gm, conn, parked, made, frees, bound, running, dtls,
    thread, minted, resident, shutdown, restarts, losses

listenerVars == <<mgr, stopping, gm, conn, parked, made, frees, bound, running, dtls,
                  thread, minted, resident, shutdown, restarts, losses>>
ioVars == <<part, sendVars, listenerVars>>

\* Messages that share a packet of three bytes, need three packets, and fill
\* one exactly.
MCLength == <<1, 2, 7, 3>>

Park == INSTANCE Listener WITH
    MaxRestarts <- 0, BindOutcomes <- BOOLEAN, Orderly <- TRUE
Comms == INSTANCE Listener WITH
    MaxLosses <- 0, BindOutcomes <- {TRUE}, Orderly <- TRUE

ASSUME ListenerAssumption == Park!BoundsAssumption /\ Comms!BoundsAssumption

IOInit == part \in Parts /\ SendInit /\ Park!Init

InQueue(A) == part = "queue" /\ A /\ UNCHANGED <<part, packetVars, order, apart, listenerVars>>
InReset(A) == part = "reset" /\ A /\ UNCHANGED <<part, packetVars, order, apart, listenerVars>>
InSend(A) == part = "send" /\ A /\ UNCHANGED <<part, listenerVars>>
InPark(A) == part = "park" /\ A /\ UNCHANGED <<part, sendVars>>
InComms(A) == part = "comms" /\ A /\ UNCHANGED <<part, sendVars>>

IONext ==
    \/ InQueue(\E t \in Threads : Use(t))
    \/ InReset(Use(Sender) \/ ResetQueue(Sender))
    \/ InSend(SendNext)
    \/ InPark(Park!Next)
    \/ InComms(Comms!Next)

\* The fairness of each part, see its module.
IOFairness ==
    /\ \A t \in Threads : WF_ioVars(InQueue(GoesOn(t)))
    /\ \A k \in Queues : WF_ioVars(InQueue(Polled(k)))
    /\ WF_ioVars(InReset(GoesOn(Sender)))
    /\ \A k \in Queues : SF_ioVars(InReset(Take(Sender, k)))
    /\ \A k \in Queues : SF_ioVars(InSend(Watched(Visits(k))))
    /\ WF_ioVars(InSend(Watched(PacksOn)))
    /\ \A t \in Callers : WF_ioVars(InSend(Watched(AddsOn(t))))
    /\ WF_ioVars(InPark(Park!Join)) /\ WF_ioVars(InPark(Park!DropListener))
    /\ WF_ioVars(InPark(Park!Purge))
    /\ \A c \in Park!Conns : WF_ioVars(InPark(Park!ThreadStep(c)))

IOSpec == IOInit /\ [][IONext]_ioVars /\ IOFairness

\* Bound of the run: send is followed for as long as no two threads have been at work for
\* one player at once.  Two at once share its forming buffer and mix their messages, and
\* its queue is then no Fifo of them.
Followed == apart

\* A parked listener is quiet: once it is dropped, and until the sector is started
\* again, no receive thread is left to read the objects being purged, and the port
\* is free, whatever the thread was doing (StopReceiver, DropListener).  However
\* often /restartcomms, parks and restarts replace it, every connection is deleted
\* at most once, and a sector that is online has its port.
ListenerSound ==
    /\ part = "park" => Park!TypeOK /\ Park!Quiesced
    /\ part = "comms" => Comms!TypeOK /\ Comms!FreedOnce /\ Comms!OnlineListens

\* The park never waits for ever for the receive thread, whether this is blocked in
\* recvfrom, in a handler or about to open a new socket (StopReceiver).
Parks == part = "park" /\ mgr = "join" ~> mgr = "offline"
=============================================================================
