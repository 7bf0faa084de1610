------------------------------ MODULE Listener ------------------------------
(***************************************************************************)
(* The UDP listener of one sector: the connection objects, their receive   *)
(* threads, and the three who create and destroy them: the start and park  *)
(* of the sector (serialised by m_SectorStartMutex), the game master's     *)
(* /restartcomms, which takes no lock, and the end of the process.         *)
(*                                                                         *)
(* SectorLifecycle has the listener as one state of its manager.  Here the *)
(* receive thread is a process of its own: it is created before it sets    *)
(* m_ThreadRunning, it may be blocked in recvfrom or be inside a packet    *)
(* handler when the sector is parked, and it goes on whatever happens to   *)
(* the object it runs on.                                                  *)
(***************************************************************************)
EXTENDS Integers, FiniteSets

CONSTANTS
    MaxConns,      \* UDP_Connection objects made in a behaviour
    MaxRestarts,   \* uses of /restartcomms
    MaxLosses,     \* times recvfrom reports ENOTSOCK
    BindOutcomes,  \* {TRUE}, or BOOLEAN when bind() may fail
    Orderly        \* a park begins when the receive thread has begun and no
                   \* /restartcomms is under way, and the other way round

BoundsAssumption ==
    /\ MaxConns \in Nat \ {0}
    /\ MaxRestarts \in Nat /\ MaxLosses \in Nat
    /\ BindOutcomes \subseteq BOOLEAN /\ Orderly \in BOOLEAN

VARIABLES
    mgr,       \* where the start, the park or the destruction of the sector is
    stopping,  \* the connection inside StopReceiver
    gm,        \* the connection /restartcomms is destroying, 0 for none
    conn,      \* m_SectorConnection, 0 for NULL
    parked,    \* m_ParkedDtls, 0 for NULL
    made,      \* connection objects made so far; the next one is made + 1
    frees,     \* how often each object was deleted
    bound,     \* its socket holds the port
    running,   \* m_ThreadRunning
    dtls,      \* m_Dtls, 0 for NULL
    thread,    \* where its receive thread is
    minted,    \* DTLS transports made for this port
    resident,  \* the deferred objects of the sector are loaded
    shutdown,  \* g_ServerShutdown
    restarts, losses

objVars == <<frees, bound, running, dtls, thread>>
vars == <<mgr, stopping, gm, conn, parked, made, objVars, minted, resident, shutdown,
          restarts, losses>>

Conns == 1..MaxConns

Crashed == -1   \* gm, after a call through a null pointer

Init ==
    /\ mgr = "offline" /\ stopping = 0 /\ gm = 0
    /\ conn = 0 /\ parked = 0 /\ made = 0
    /\ frees = [c \in Conns |-> 0]
    /\ bound = [c \in Conns |-> FALSE]
    /\ running = [c \in Conns |-> FALSE]
    /\ dtls = [c \in Conns |-> 0]
    /\ thread = [c \in Conns |-> "none"]
    /\ minted = 0 /\ resident = FALSE /\ shutdown = FALSE
    /\ restarts = 0 /\ losses = 0

InFlight(c) == thread[c] \notin {"none", "gone"}

---------------------------------------------------------------------------
(***************************************************************************)
(* Starting.                                                               *)
(***************************************************************************)

\* bind fails when another socket has the port, and when the system says so.
Binds(c, ok) == ok /\ \A d \in Conns \ {c} : ~bound[d]

\* The constructor, the test of GetError, AdoptDtls and StartReceiver.  The
\* thread is created and has not run yet.  A failed bind deletes the object and
\* leaves m_SectorConnection pointing to it.
StartListener(ok, transports) ==
    LET c == made + 1 IN
    /\ made' = c
    /\ conn' = c
    /\ IF Binds(c, ok)
       THEN /\ bound' = [bound EXCEPT ![c] = TRUE]
            /\ minted' = IF parked = 0 THEN minted + 1 ELSE minted
            /\ dtls' = [transports EXCEPT ![c] = IF parked = 0 THEN minted' ELSE parked]
            /\ parked' = 0
            /\ thread' = [thread EXCEPT ![c] = "created"]
            /\ UNCHANGED frees
       ELSE /\ frees' = [frees EXCEPT ![c] = 1]
            /\ dtls' = transports
            /\ UNCHANGED <<bound, minted, parked, thread>>
    /\ UNCHANGED running

\* EnsureSectorStarted: load the content, start the listener, go online if it is
\* bound.  (The event thread is SectorLifecycle's.)
Start(ok) ==
    /\ mgr = "offline" /\ ~shutdown /\ gm # Crashed
    /\ made < MaxConns
    /\ StartListener(ok, dtls)
    /\ resident' = TRUE
    /\ mgr' = IF Binds(made + 1, ok) THEN "online" ELSE "offline"
    /\ UNCHANGED <<stopping, gm, shutdown, restarts, losses>>

---------------------------------------------------------------------------
(***************************************************************************)
(* Parking: StopReceiver, DetachDtls, delete, and then the purge.          *)
(***************************************************************************)

\* ~UDP_Connection, first part: close the socket.
CloseSocket(c) == bound' = [bound EXCEPT ![c] = FALSE]

\* StopReceiver up to the join: nothing to do when m_ThreadRunning is not set.
StopReceiver ==
    /\ mgr = "online" /\ ~shutdown /\ gm # Crashed
    /\ conn # 0
    /\ Orderly => thread[conn] # "created" /\ gm = 0
    /\ IF running[conn]
       THEN /\ running' = [running EXCEPT ![conn] = FALSE]
            /\ CloseSocket(conn)
            /\ mgr' = "join"
            /\ stopping' = conn
       ELSE mgr' = "drop" /\ UNCHANGED <<running, bound, stopping>>
    /\ UNCHANGED <<gm, conn, parked, made, frees, dtls, thread, minted, resident,
                   shutdown, restarts, losses>>

\* Mutant: the join gives up after a while, as the destructor does.
JoinTimed ==
    /\ mgr = "join"
    /\ mgr' = "drop"
    /\ UNCHANGED <<stopping, gm, conn, parked, made, objVars, minted, resident, shutdown,
                   restarts, losses>>

\* pthread_join.
Join ==
    /\ mgr = "join"
    /\ thread[stopping] = "gone"
    /\ mgr' = "drop"
    /\ UNCHANGED <<stopping, gm, conn, parked, made, objVars, minted, resident, shutdown,
                   restarts, losses>>

\* Mutant: the pointer is kept after the delete.
DropListenerDangling ==
    /\ mgr = "drop"
    /\ parked' = dtls[conn]
    /\ dtls' = [dtls EXCEPT ![conn] = 0]
    /\ CloseSocket(conn)
    /\ frees' = [frees EXCEPT ![conn] = @ + 1]
    /\ mgr' = "purge"
    /\ UNCHANGED <<stopping, gm, conn, made, running, thread, minted, resident,
                   shutdown, restarts, losses>>

\* DetachDtls and delete.  The destructor closes the socket, waits at most 100 ms
\* for m_ThreadRunning to fall, and goes on.
DropListener ==
    /\ mgr = "drop"
    /\ parked' = dtls[conn]
    /\ dtls' = [dtls EXCEPT ![conn] = 0]
    /\ CloseSocket(conn)
    /\ frees' = [frees EXCEPT ![conn] = @ + 1]
    /\ conn' = 0
    /\ mgr' = "purge"
    /\ UNCHANGED <<stopping, gm, made, running, thread, minted, resident, shutdown,
                   restarts, losses>>

\* PurgeDeferredObjects.
Purge ==
    /\ mgr = "purge"
    /\ resident' = FALSE
    /\ mgr' = "offline"
    /\ UNCHANGED <<stopping, gm, conn, parked, made, objVars, minted, shutdown, restarts,
                   losses>>

---------------------------------------------------------------------------
(***************************************************************************)
(* The receive thread of connection c.                                     *)
(***************************************************************************)

Goto(c, p) == thread' = [thread EXCEPT ![c] = p]

\* RunRecvThread up to its loop.
Begin(c) ==
    /\ thread[c] = "created"
    /\ running' = [running EXCEPT ![c] = TRUE]
    /\ Goto(c, "test")
    /\ UNCHANGED <<mgr, stopping, gm, conn, parked, made, frees, bound, dtls, minted,
                   resident, shutdown, restarts, losses>>

\* Mutant: the loop only looks at g_ServerShutdown.
TestShutdownOnly(c) ==
    /\ thread[c] = "test"
    /\ Goto(c, IF ~shutdown THEN "recv" ELSE "exit")
    /\ UNCHANGED <<mgr, stopping, gm, conn, parked, made, frees, bound, running, dtls,
                   minted, resident, shutdown, restarts, losses>>

\* while (!g_ServerShutdown && m_ThreadRunning)
Test(c) ==
    /\ thread[c] = "test"
    /\ Goto(c, IF ~shutdown /\ running[c] THEN "recv" ELSE "exit")
    /\ UNCHANGED <<mgr, stopping, gm, conn, parked, made, frees, bound, running, dtls,
                   minted, resident, shutdown, restarts, losses>>

\* recvfrom returns a datagram, and it reaches its handler.
Receive(c) ==
    /\ thread[c] = "recv" /\ bound[c]
    /\ Goto(c, "handle")
    /\ UNCHANGED <<mgr, stopping, gm, conn, parked, made, frees, bound, running, dtls,
                   minted, resident, shutdown, restarts, losses>>

\* DispatchDatagram returns.
Handled(c) ==
    /\ thread[c] = "handle"
    /\ Goto(c, "test")
    /\ UNCHANGED <<mgr, stopping, gm, conn, parked, made, frees, bound, running, dtls,
                   minted, resident, shutdown, restarts, losses>>

\* recvfrom fails because the socket was closed.
ReceiveFails(c) ==
    /\ thread[c] = "recv" /\ ~bound[c]
    /\ Goto(c, "test")
    /\ UNCHANGED <<mgr, stopping, gm, conn, parked, made, frees, bound, running, dtls,
                   minted, resident, shutdown, restarts, losses>>

\* recvfrom reports ENOTSOCK: m_Socket_Reset_Required.
Lose(c) ==
    /\ thread[c] = "recv" /\ losses < MaxLosses /\ ~shutdown
    /\ losses' = losses + 1
    /\ Goto(c, "reset")
    /\ UNCHANGED <<mgr, stopping, gm, conn, parked, made, frees, bound, running, dtls,
                   minted, resident, shutdown, restarts>>

\* Reset_Socket: a new socket on the same port.
ResetSocket(c, ok) ==
    /\ thread[c] = "reset"
    /\ bound' = [bound EXCEPT ![c] = Binds(c, ok)]
    /\ Goto(c, "test")
    /\ UNCHANGED <<mgr, stopping, gm, conn, parked, made, frees, running, dtls, minted,
                   resident, shutdown, restarts, losses>>

\* The end of RunRecvThread.
Exit(c) ==
    /\ thread[c] = "exit"
    /\ CloseSocket(c)
    /\ running' = [running EXCEPT ![c] = FALSE]
    /\ Goto(c, "gone")
    /\ UNCHANGED <<mgr, stopping, gm, conn, parked, made, frees, dtls, minted, resident,
                   shutdown, restarts, losses>>

ThreadStep(c) ==
    \/ Begin(c) \/ Test(c) \/ Handled(c) \/ ReceiveFails(c) \/ Exit(c)
    \/ \E ok \in BindOutcomes : ResetSocket(c, ok)

---------------------------------------------------------------------------
(***************************************************************************)
(* /restartcomms, and the end of the process.                              *)
(***************************************************************************)

\* Mutant: the comms are restarted before the old socket is closed.
CommsShutdownOpen ==
    /\ gm = 0 /\ mgr # "destroyed" /\ ~shutdown
    /\ Orderly => mgr \in {"online", "offline"}
    /\ made \in 1..(MaxConns - 1)
    /\ restarts < MaxRestarts
    /\ restarts' = restarts + 1
    /\ gm' = IF conn = 0 THEN Crashed ELSE conn
    /\ UNCHANGED <<mgr, stopping, conn, parked, made, objVars, minted, resident,
                   shutdown, losses>>

\* HandleRestartSectorComms, ShutdownListener: the destructor is called in place.
\* It closes the socket; nobody clears m_ThreadRunning.  A parked sector has no
\* connection, and the call is made through a null pointer.
CommsShutdown ==
    /\ gm = 0 /\ mgr # "destroyed" /\ ~shutdown
    /\ Orderly => mgr \in {"online", "offline"}
    /\ made \in 1..(MaxConns - 1)
    /\ restarts < MaxRestarts
    /\ restarts' = restarts + 1
    /\ IF conn = 0
       THEN gm' = Crashed /\ UNCHANGED bound
       ELSE gm' = conn /\ CloseSocket(conn)
    /\ UNCHANGED <<mgr, stopping, conn, parked, made, frees, running, dtls, thread,
                   minted, resident, shutdown, losses>>

\* The rest of the destructor, after its 100 ms: it deletes the transport and not
\* the object.  Then ReStartListener, whatever became of the sector meanwhile.
CommsRestart(ok) ==
    /\ gm \in Conns /\ made < MaxConns /\ ~shutdown
    /\ StartListener(ok, [dtls EXCEPT ![gm] = 0])
    /\ gm' = 0
    /\ UNCHANGED <<mgr, stopping, resident, shutdown, restarts, losses>>

\* MainLoop returns on g_ServerShutdown, with no park under way ...
Shutdown ==
    /\ ~shutdown /\ mgr \in {"offline", "online"} /\ gm = 0
    /\ shutdown' = TRUE
    /\ UNCHANGED <<mgr, stopping, gm, conn, parked, made, objVars, minted, resident,
                   restarts, losses>>

\* ... and every manager is deleted: its connection, and the parked transport.
DestroyManager ==
    /\ shutdown /\ mgr # "destroyed"
    /\ mgr' = "destroyed"
    /\ parked' = 0
    /\ IF conn = 0
       THEN UNCHANGED <<frees, bound, dtls>>
       ELSE /\ CloseSocket(conn)
            /\ dtls' = [dtls EXCEPT ![conn] = 0]
            /\ frees' = [frees EXCEPT ![conn] = @ + 1]
    /\ UNCHANGED <<stopping, gm, conn, made, running, thread, minted, resident, shutdown,
                   restarts, losses>>

---------------------------------------------------------------------------
Next ==
    \/ \E ok \in BindOutcomes : Start(ok) \/ CommsRestart(ok)
    \/ StopReceiver \/ Join \/ DropListener \/ Purge
    \/ \E c \in Conns : ThreadStep(c) \/ Receive(c) \/ Lose(c)
    \/ CommsShutdown \/ Shutdown \/ DestroyManager

Spec == Init /\ [][Next]_vars

\* The threads of the process are scheduled: a park under way goes on, and so does
\* a receive thread that is not waiting for a datagram.
Fairness ==
    /\ WF_vars(Join) /\ WF_vars(DropListener) /\ WF_vars(Purge)
    /\ \A c \in Conns : WF_vars(ThreadStep(c))

FairSpec == Spec /\ Fairness

---------------------------------------------------------------------------
(***************************************************************************)
(* Properties.                                                             *)
(***************************************************************************)

\* The type of the variables; a receive thread that has ended has left neither its
\* flag set nor its socket open.
TypeOK ==
    /\ mgr \in {"offline", "online", "join", "drop", "purge", "destroyed"}
    /\ stopping \in 0..MaxConns /\ gm \in -1..MaxConns
    /\ conn \in 0..MaxConns /\ made \in 0..MaxConns
    /\ parked \in 0..MaxConns /\ minted \in 0..MaxConns
    /\ frees \in [Conns -> 0..2]
    /\ bound \in [Conns -> BOOLEAN] /\ running \in [Conns -> BOOLEAN]
    /\ dtls \in [Conns -> 0..MaxConns]
    /\ thread \in [Conns -> {"none", "created", "test", "recv", "handle",
                             "reset", "exit", "gone"}]
    /\ resident \in BOOLEAN /\ shutdown \in BOOLEAN
    /\ restarts \in 0..MaxRestarts /\ losses \in 0..MaxLosses
    /\ \A c \in Conns : thread[c] = "gone" => ~running[c] /\ ~bound[c]

\* Once the listener is dropped, and until the sector is started again, no receive
\* thread is left and the port is free, whatever the thread was doing: none is inside
\* a packet handler while the objects are purged, none on a connection that was
\* deleted, none has reopened its socket.  (SectorManager.cpp DropListener, "on return
\* no recv-thread handler is in flight and the obj_manager it reads can be purged
\* safely", "Port rebinds on restart."; UDPConnection.cpp StopReceiver.)
Quiesced ==
    mgr \in {"purge", "offline"} => \A c \in Conns : ~InFlight(c) /\ ~bound[c]

\* StopReceiver's join returns: closing the socket gets the receive thread out of
\* recvfrom and the flag gets it out of its loop.
Parks == mgr = "join" ~> mgr = "offline"

\* No connection is deleted twice: by a park, by a failed bind, by the destructor
\* of the manager.  (SectorManager.cpp ~SectorManager, "this never double-frees".)
FreedOnce == \A c \in Conns : frees[c] <= 1

\* A sector that is online, with nobody restarting its comms, has the port it was
\* announced with, until the server shuts down: the players sent there reach it.  (BeginSectorThread sets
\* m_SectorOnline only after a successful bind.)
OnlineListens ==
    mgr = "online" /\ gm = 0 /\ ~shutdown => conn # 0 /\ bound[conn]

\* /restartcomms restarts the comms of a sector, and at worst costs "a small amount
\* of lag in the GM's sector": it does not take the server down.
CommsAlive == gm # Crashed

\* One DTLS transport serves the port for the life of the process: the proxies
\* have their associations with it, and "a fresh server transport would leave the
\* proxy sending under keys the server no longer has" (UDPConnection.h).
OneTransport == minted <= 1
=============================================================================
