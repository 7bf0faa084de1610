-------------------------- MODULE MCServerIO_proofs --------------------------
(***************************************************************************)
(* First the UDP listener of a sector, for any number of connections,      *)
(* restarts of the comms, lost sockets and failing binds.  Then a player's *)
(* send queue, for any messages, packets and rings: what SendPacketCache   *)
(* makes of it is what was queued.  It is brought down to the theorems of  *)
(* MessageQueue_proofs about one thread that adds to queues and reads      *)
(* them, and to lemmas about the flattening of a sequence of sequences.    *)
(***************************************************************************)
EXTENDS MCServerIO, FiniteSetTheorems, SequenceTheorems, WellFoundedInduction, TLAPS

\* A listener whose binds may fail, whose sockets may be lost and whose comms may be
\* restarted: what it does includes what the listeners of both parts do.
Net == INSTANCE Listener WITH BindOutcomes <- BOOLEAN, Orderly <- TRUE

LEMMA Bounded == Net!BoundsAssumption
BY ListenerAssumption DEF Park!BoundsAssumption, Comms!BoundsAssumption,
   Net!BoundsAssumption

\* The objects made so far bound everything that refers to one.
MadeInv ==
    /\ minted <= made /\ conn <= made /\ gm <= made /\ stopping <= made
    /\ parked <= minted /\ \A c \in Net!Conns : dtls[c] <= minted
    /\ \A c \in Net!Conns : c > made => /\ thread[c] = "none" /\ ~bound[c] /\ ~running[c]
                                    /\ frees[c] = 0

\* A park works on a connection, and only the last owner frees one a second time.
OwnerInv ==
    /\ mgr \in {"online", "join", "drop"} => conn # 0
    /\ \A c \in Net!Conns : frees[c] = 2 => conn # c \/ mgr = "destroyed"

BaseInv == Net!TypeOK /\ MadeInv /\ OwnerInv

\* Nothing exists before the sector is started.
LEMMA InitBase == ASSUME Net!Init PROVE BaseInv
<1>1. Net!TypeOK
  <2>1. /\ frees \in [Net!Conns -> 0..2] /\ dtls \in [Net!Conns -> 0..MaxConns]
        /\ bound \in [Net!Conns -> BOOLEAN] /\ running \in [Net!Conns -> BOOLEAN]
    BY Bounded DEF Net!BoundsAssumption, Net!Init
  <2>2. \A c \in Net!Conns : thread[c] = "none"
    BY DEF Net!Init
  <2>3. thread \in [Net!Conns -> {"none", "created", "test", "recv", "handle", "reset", "exit", "gone"}]
    BY DEF Net!Init
  <2>4. /\ mgr = "offline" /\ resident \in BOOLEAN /\ shutdown \in BOOLEAN
        /\ restarts = 0 /\ losses = 0 /\ stopping = 0 /\ gm = 0 /\ conn = 0 /\ made = 0
        /\ parked = 0 /\ minted = 0
    BY DEF Net!Init
  <2>5. 0 \in 0..MaxConns /\ 0 \in -1..MaxConns /\ 0 \in 0..MaxRestarts /\ 0 \in 0..MaxLosses
    BY Bounded DEF Net!BoundsAssumption
  <2> QED
    BY <2>1, <2>2, <2>3, <2>4, <2>5 DEF Net!TypeOK
<1>2. MadeInv /\ OwnerInv
  BY Bounded DEF Net!BoundsAssumption, Net!Init, MadeInv, OwnerInv, Net!Conns
<1> QED
  BY <1>1, <1>2 DEF BaseInv

\* A new listener, bound or not, is an object nobody used before.
LEMMA StartBase ==
    ASSUME BaseInv, NEW ok \in BOOLEAN, made < MaxConns,
           NEW transports \in [Net!Conns -> 0..MaxConns], \A c \in Net!Conns : transports[c] <= minted,
           Net!StartListener(ok, transports)
    PROVE  /\ made' = made + 1 /\ conn' = made + 1 /\ made + 1 \in Net!Conns
           /\ parked' \in 0..MaxConns /\ minted' \in 0..MaxConns
           /\ minted' <= made' /\ parked' <= minted'
           /\ dtls' \in [Net!Conns -> 0..MaxConns] /\ \A c \in Net!Conns : dtls'[c] <= minted'
           /\ frees' \in [Net!Conns -> 0..2] /\ \A c \in Net!Conns : c # made + 1 => frees'[c] = frees[c]
           /\ frees'[made + 1] <= 1
           /\ bound' \in [Net!Conns -> BOOLEAN] /\ \A c \in Net!Conns : c # made + 1 => bound'[c] = bound[c]
           /\ \A c \in Net!Conns : c # made + 1 => thread'[c] = thread[c]
           /\ thread' \in [Net!Conns -> {"none", "created", "test", "recv", "handle",
                                     "reset", "exit", "gone"}]
           /\ thread'[made + 1] = IF Net!Binds(made + 1, ok) THEN "created" ELSE "none"
           /\ bound'[made + 1] <=> Net!Binds(made + 1, ok)
           /\ Net!Binds(made + 1, ok) => frees' = frees
           /\ running' = running
<1>1. made \in Nat /\ made + 1 \in Net!Conns /\ minted \in Nat /\ MaxConns \in Nat
  BY Bounded DEF Net!BoundsAssumption, BaseInv, Net!TypeOK, Net!Conns
<1>2. /\ thread[made + 1] = "none" /\ ~bound[made + 1] /\ frees[made + 1] = 0
      /\ minted <= made /\ parked <= minted
  BY <1>1 DEF BaseInv, MadeInv
<1>3. made' = made + 1 /\ conn' = made + 1 /\ running' = running
  BY DEF Net!StartListener
<1>4. CASE Net!Binds(made + 1, ok)
  <2>1. /\ bound' = [bound EXCEPT ![made + 1] = TRUE]
        /\ minted' = IF parked = 0 THEN minted + 1 ELSE minted
        /\ dtls' = [transports EXCEPT ![made + 1] = IF parked = 0 THEN minted' ELSE parked]
        /\ parked' = 0
        /\ thread' = [thread EXCEPT ![made + 1] = "created"]
        /\ frees' = frees
    BY <1>4 DEF Net!StartListener
  <2>2. minted' \in 0..MaxConns /\ minted' <= made' /\ parked' <= minted' /\ minted <= minted'
    <3>1. minted' \in {minted, minted + 1} /\ made + 1 <= MaxConns
      BY <1>1, <2>1 DEF Net!Conns
    <3> QED
      BY <1>1, <1>2, <1>3, <2>1, <3>1
  <2>3. dtls' \in [Net!Conns -> 0..MaxConns] /\ \A c \in Net!Conns : dtls'[c] <= minted'
    BY <1>1, <1>2, <2>1, <2>2 DEF BaseInv, Net!TypeOK
  <2>4. /\ bound' \in [Net!Conns -> BOOLEAN] /\ bound'[made + 1]
        /\ \A c \in Net!Conns : c # made + 1 => bound'[c] = bound[c] /\ thread'[c] = thread[c]
        /\ thread' \in [Net!Conns -> {"none", "created", "test", "recv", "handle",
                                  "reset", "exit", "gone"}]
        /\ thread'[made + 1] = "created"
    BY <1>1, <2>1 DEF BaseInv, Net!TypeOK
  <2>5. parked' \in 0..MaxConns /\ frees' \in [Net!Conns -> 0..2] /\ frees'[made + 1] <= 1
    BY <1>1, <1>2, <2>1 DEF BaseInv, Net!TypeOK
  <2> QED
    BY <1>1, <1>2, <1>3, <1>4, <2>1, <2>2, <2>3, <2>4, <2>5
<1>5. CASE ~Net!Binds(made + 1, ok)
  <2>1. /\ frees' = [frees EXCEPT ![made + 1] = 1] /\ dtls' = transports
        /\ bound' = bound /\ minted' = minted /\ parked' = parked /\ thread' = thread
    BY <1>5 DEF Net!StartListener
  <2>2. /\ frees' \in [Net!Conns -> 0..2] /\ frees'[made + 1] <= 1
        /\ \A c \in Net!Conns : c # made + 1 => frees'[c] = frees[c]
    BY <1>1, <1>2, <2>1 DEF BaseInv, Net!TypeOK
  <2>3. minted' \in 0..MaxConns /\ minted' <= made' /\ parked' <= minted' /\ parked' \in 0..MaxConns
    BY <1>1, <1>2, <1>3, <2>1 DEF BaseInv, Net!TypeOK
  <2>4. /\ bound' \in [Net!Conns -> BOOLEAN]
        /\ thread' \in [Net!Conns -> {"none", "created", "test", "recv", "handle",
                                  "reset", "exit", "gone"}]
    BY <2>1 DEF BaseInv, Net!TypeOK
  <2> QED
    BY <1>1, <1>2, <1>3, <1>5, <2>1, <2>2, <2>3, <2>4
<1> QED
  BY <1>4, <1>5

\* The operations that start a listener keep the invariant.
LEMMA BaseStart ==
    ASSUME BaseInv, NEW ok \in BOOLEAN, Net!Start(ok) \/ Net!CommsRestart(ok)
    PROVE  BaseInv'
<1>1. ok \in BOOLEAN /\ made \in Nat /\ MaxConns \in Nat /\ minted \in Nat
  BY Bounded DEF Net!BoundsAssumption, BaseInv, Net!TypeOK
<1>2. PICK transports \in [Net!Conns -> 0..MaxConns] :
          /\ \A c \in Net!Conns : transports[c] <= minted
          /\ Net!StartListener(ok, transports) /\ made < MaxConns
  <2>1. CASE Net!Start(ok)
    BY <2>1 DEF Net!Start, BaseInv, Net!TypeOK, MadeInv
  <2>2. CASE Net!CommsRestart(ok)
    <3>1. dtls \in [Net!Conns -> 0..MaxConns] /\ \A c \in Net!Conns : dtls[c] <= minted
      BY DEF BaseInv, Net!TypeOK, MadeInv
    <3> DEFINE kept == [dtls EXCEPT ![gm] = 0]
    <3>2. kept \in [Net!Conns -> 0..MaxConns] /\ \A c \in Net!Conns : kept[c] = 0 \/ kept[c] = dtls[c]
      <4>1. gm \in Net!Conns /\ 0 \in 0..MaxConns
        BY <1>1, <2>2 DEF Net!CommsRestart
      <4> QED
        BY <3>1, <4>1
    <3>3. \A c \in Net!Conns : kept[c] <= minted
      <4> HIDE DEF kept
      <4> QED
        BY <1>1, <3>1, <3>2
    <3>4. Net!StartListener(ok, kept) /\ made < MaxConns
      BY <2>2 DEF Net!CommsRestart
    <3> HIDE DEF kept
    <3> QED
      BY <3>2, <3>3, <3>4
  <2> QED
    BY <2>1, <2>2
<1> DEFINE c1 == made + 1
<1>3. /\ made' = c1 /\ conn' = c1 /\ c1 \in Net!Conns
      /\ parked' \in 0..MaxConns /\ minted' \in 0..MaxConns
      /\ minted' <= made' /\ parked' <= minted'
      /\ dtls' \in [Net!Conns -> 0..MaxConns] /\ \A c \in Net!Conns : dtls'[c] <= minted'
      /\ frees' \in [Net!Conns -> 0..2] /\ \A c \in Net!Conns : c # c1 => frees'[c] = frees[c]
      /\ frees'[c1] <= 1
      /\ bound' \in [Net!Conns -> BOOLEAN] /\ \A c \in Net!Conns : c # c1 => bound'[c] = bound[c]
      /\ \A c \in Net!Conns : c # c1 => thread'[c] = thread[c]
      /\ thread' \in [Net!Conns -> {"none", "created", "test", "recv", "handle",
                                "reset", "exit", "gone"}]
      /\ thread'[c1] \in {"created", "none"}
      /\ bound'[c1] <=> Net!Binds(c1, ok)
      /\ running' = running
  BY <1>1, <1>2, StartBase
<1> HIDE DEF c1
<1>4. /\ mgr' \in {"offline", "online", mgr} /\ gm' \in {0, gm}
      /\ mgr' \in {"join", "drop"} => mgr \in {"join", "drop"}
      /\ UNCHANGED <<stopping, shutdown, restarts, losses>> /\ resident' \in {TRUE, resident}
  BY DEF Net!Start, Net!CommsRestart
<1>5. c1 \in Nat /\ made < c1 /\ c1 # 0
  BY <1>1 DEF c1
<1>6. Net!TypeOK'
  <2>1. \A c \in Net!Conns : thread'[c] = "gone" => ~running'[c] /\ ~bound'[c]
    BY <1>3 DEF BaseInv, Net!TypeOK
  <2>2. made' \in 0..MaxConns /\ conn' \in 0..MaxConns /\ gm' \in -1..MaxConns
    BY <1>1, <1>3, <1>4 DEF Net!Conns, BaseInv, Net!TypeOK
  <2> QED
    BY <1>3, <1>4, <2>1, <2>2 DEF BaseInv, Net!TypeOK
<1>7. MadeInv'
  <2>1. \A c \in Net!Conns : c > made' => c # c1 /\ c > made
    BY <1>3, <1>5, <1>1 DEF Net!Conns
  <2>2. \A c \in Net!Conns : c > made' => /\ thread'[c] = "none" /\ ~bound'[c] /\ ~running'[c]
                                      /\ frees'[c] = 0
    BY <1>3, <2>1 DEF BaseInv, MadeInv
  <2>3. conn' <= made' /\ gm' <= made' /\ stopping' <= made'
    BY <1>1, <1>3, <1>4, <1>5 DEF BaseInv, MadeInv, Net!TypeOK
  <2> QED
    BY <1>3, <2>2, <2>3 DEF MadeInv
<1>8. OwnerInv'
  BY <1>3, <1>5 DEF OwnerInv
<1> QED
  BY <1>6, <1>7, <1>8 DEF BaseInv

\* The steps of a receive thread keep the invariant.
LEMMA BaseThread ==
    ASSUME BaseInv, NEW c \in Net!Conns, Net!ThreadStep(c) \/ Net!Receive(c) \/ Net!Lose(c)
    PROVE  BaseInv'
<1> USE DEF BaseInv
<1>1. /\ thread' \in [Net!Conns -> {"none", "created", "test", "recv", "handle",
                                "reset", "exit", "gone"}]
      /\ \A d \in Net!Conns : d # c => thread'[d] = thread[d]
  BY DEF Net!ThreadStep, Net!Begin, Net!Test, Net!Handled, Net!ReceiveFails, Net!Exit,
     Net!ResetSocket, Net!Receive, Net!Lose, Net!Goto,
     Net!TypeOK
<1>2. bound' \in [Net!Conns -> BOOLEAN] /\ \A d \in Net!Conns : d # c => bound'[d] = bound[d]
  <2>1. \A ok : Net!Binds(c, ok) \in BOOLEAN
    BY DEF Net!Binds
  <2> QED
    BY <2>1 DEF Net!ThreadStep, Net!Begin, Net!Test, Net!Handled, Net!ReceiveFails,
       Net!Exit, Net!ResetSocket, Net!Receive, Net!Lose,
       Net!CloseSocket, Net!TypeOK
<1>3. running' \in [Net!Conns -> BOOLEAN] /\ \A d \in Net!Conns : d # c => running'[d] = running[d]
  BY DEF Net!ThreadStep, Net!Begin, Net!Test, Net!Handled, Net!ReceiveFails, Net!Exit,
     Net!ResetSocket, Net!Receive, Net!Lose, Net!TypeOK
<1>4. thread'[c] = "gone" => ~bound'[c] /\ ~running'[c]
  BY DEF Net!ThreadStep, Net!Begin, Net!Test, Net!Handled, Net!ReceiveFails, Net!Exit,
     Net!ResetSocket, Net!Receive, Net!Lose, Net!Goto,
     Net!CloseSocket, Net!TypeOK
<1>5. thread[c] # "none"
  BY DEF Net!ThreadStep, Net!Begin, Net!Test, Net!Handled, Net!ReceiveFails, Net!Exit,
     Net!ResetSocket, Net!Receive, Net!Lose
<1>6. /\ UNCHANGED <<mgr, stopping, gm, conn, parked, made, frees, dtls, minted, resident, shutdown,
                     restarts>>
      /\ losses' \in 0..MaxLosses
  BY Bounded DEF Net!ThreadStep, Net!Begin, Net!Test, Net!Handled, Net!ReceiveFails,
     Net!Exit, Net!ResetSocket, Net!Receive, Net!Lose, Net!TypeOK, Net!BoundsAssumption
<1>7. Net!TypeOK'
  BY <1>1, <1>2, <1>3, <1>4, <1>6 DEF Net!TypeOK
<1>8. MadeInv'
  BY <1>1, <1>2, <1>3, <1>5, <1>6 DEF Net!TypeOK, MadeInv
<1>9. OwnerInv'
  BY <1>6 DEF OwnerInv
<1> QED
  BY <1>7, <1>8, <1>9

\* The steps of the park, of /restartcomms' first half and of the end of the
\* process keep the invariant.
LEMMA BaseOther ==
    ASSUME BaseInv,
           Net!StopReceiver \/ Net!Join \/ Net!DropListener \/ Net!Purge \/ Net!CommsShutdown \/ Net!Shutdown
               \/ Net!DestroyManager
    PROVE  BaseInv'
<1> USE DEF BaseInv
<1>0. conn \in 0..MaxConns /\ made \in 0..MaxConns /\ MaxConns \in Nat
  BY Bounded DEF Net!TypeOK, Net!BoundsAssumption
<1>1. CASE Net!StopReceiver
  <2>1. Net!TypeOK'
    BY <1>1 DEF Net!StopReceiver, Net!CloseSocket, Net!TypeOK
  <2>2. MadeInv' /\ OwnerInv'
    BY <1>0, <1>1, SMTT(30) DEF Net!StopReceiver, Net!CloseSocket, Net!TypeOK, MadeInv,
       OwnerInv, Net!Conns
  <2> QED
    BY <2>1, <2>2
<1>2. CASE Net!Join \/ Net!Purge \/ Net!Shutdown
  <2>1. Net!TypeOK'
    BY <1>2 DEF Net!Join, Net!Purge, Net!Shutdown, Net!TypeOK, Net!objVars
  <2>2. MadeInv' /\ OwnerInv'
    BY <1>2 DEF Net!Join, Net!Purge, Net!Shutdown, MadeInv, OwnerInv, Net!objVars
  <2> QED
    BY <2>1, <2>2
<1>3. CASE Net!DropListener
  <2>1. conn \in Net!Conns /\ frees[conn] \in 0..1
    BY <1>0, <1>3 DEF Net!DropListener, OwnerInv, Net!Conns, Net!TypeOK
  <2>2. frees' \in [Net!Conns -> 0..2] /\ dtls' \in [Net!Conns -> 0..MaxConns] /\ parked' \in 0..MaxConns
    BY <1>0, <1>3, <2>1 DEF Net!DropListener, Net!TypeOK
  <2>3. Net!TypeOK'
    BY <1>0, <1>3, <2>1, <2>2 DEF Net!DropListener, Net!CloseSocket, Net!TypeOK
  <2>4. MadeInv'
    BY <1>0, <1>3, <2>1 DEF Net!DropListener, Net!CloseSocket, Net!TypeOK, MadeInv
  <2>5. OwnerInv'
    BY <1>3, <2>1 DEF Net!DropListener, OwnerInv, Net!Conns
  <2> QED
    BY <2>3, <2>4, <2>5
<1>4. CASE Net!CommsShutdown
  <2>1. Net!TypeOK'
    <3>1. gm' \in -1..MaxConns /\ restarts' \in 0..MaxRestarts
      BY <1>0, <1>4, Bounded DEF Net!CommsShutdown, Net!Crashed, Net!TypeOK,
         Net!BoundsAssumption
    <3>2. bound' \in [Net!Conns -> BOOLEAN] /\ \A c \in Net!Conns : bound'[c] => bound[c]
      BY <1>4 DEF Net!CommsShutdown, Net!CloseSocket, Net!TypeOK
    <3> QED
      BY <1>4, <3>1, <3>2 DEF Net!CommsShutdown, Net!TypeOK
  <2>2. MadeInv' /\ OwnerInv'
    BY <1>0, <1>4, SMTT(30) DEF Net!CommsShutdown, Net!CloseSocket, Net!Crashed, Net!TypeOK,
       MadeInv, OwnerInv, Net!Conns
  <2> QED
    BY <2>1, <2>2
<1>5. CASE Net!DestroyManager
  <2>1. CASE conn = 0
    BY <1>0, <1>5, <2>1 DEF Net!DestroyManager, Net!TypeOK, MadeInv, OwnerInv
  <2>2. CASE conn # 0
    <3>1. conn \in Net!Conns /\ frees[conn] \in 0..1
      BY <1>0, <1>5, <2>2 DEF Net!DestroyManager, OwnerInv, Net!Conns, Net!TypeOK
    <3>2. frees' \in [Net!Conns -> 0..2] /\ dtls' \in [Net!Conns -> 0..MaxConns] /\ parked' \in 0..MaxConns
      BY <1>0, <1>5, <2>2, <3>1 DEF Net!DestroyManager, Net!TypeOK
    <3>3. Net!TypeOK'
      BY <1>0, <1>5, <2>2, <3>1, <3>2 DEF Net!DestroyManager, Net!CloseSocket, Net!TypeOK
    <3>4. MadeInv'
      BY <1>0, <1>5, <2>2, <3>1 DEF Net!DestroyManager, Net!CloseSocket, Net!TypeOK, MadeInv
    <3>5. OwnerInv'
      BY <1>5 DEF Net!DestroyManager, OwnerInv
    <3> QED
      BY <3>3, <3>4, <3>5
  <2> QED
    BY <2>1, <2>2
<1> QED
  BY <1>1, <1>2, <1>3, <1>4, <1>5

\* Every step of the listener keeps the invariant.
LEMMA BaseStep == ASSUME BaseInv, [Net!Next]_(Net!vars) PROVE BaseInv'
<1>1. CASE UNCHANGED Net!vars
  BY <1>1 DEF Net!vars, Net!objVars, BaseInv, Net!TypeOK, MadeInv, OwnerInv
<1> QED
  BY <1>1, BaseStart, BaseThread, BaseOther DEF Net!Next

-----------------------------------------------------------------------------
(* The park, when nobody restarts the comms.  Quiesced holds because the join  *)
(* waits for the one thread that can still be in flight: no connection other   *)
(* than the sector's own has a thread or the port, and its flag is set from    *)
(* the moment its thread has begun until the park clears it.                   *)

Quiet(c) == ~Net!InFlight(c) /\ ~bound[c]

QuietInv ==
    /\ gm = 0
    /\ mgr \in {"purge", "offline"} => \A c \in Net!Conns : Quiet(c)
    /\ mgr \in {"online", "join", "drop"} => \A c \in Net!Conns : c # conn => Quiet(c)
    /\ mgr = "online" /\ ~running[conn] => thread[conn] \notin {"test", "recv", "handle", "reset", "exit"}
    /\ mgr = "join" => stopping = conn
    /\ mgr = "drop" => ~Net!InFlight(conn)

\* What a thread step changes, and where it leads.
LEMMA ThreadEffect ==
    ASSUME BaseInv, NEW c \in Net!Conns, Net!ThreadStep(c) \/ Net!Receive(c) \/ Net!Lose(c)
    PROVE  /\ UNCHANGED <<mgr, stopping, gm, conn, made, frees, shutdown>>
           /\ Net!InFlight(c)
           /\ \A d \in Net!Conns : d # c => /\ thread'[d] = thread[d] /\ bound'[d] = bound[d]
                                        /\ running'[d] = running[d]
           /\ thread'[c] \in {"test", "recv", "handle", "reset", "exit", "gone"}
           /\ thread'[c] = "gone" \/ running'[c] = running[c] \/ running'[c]
<1> USE DEF BaseInv, Net!ThreadStep, Net!Begin, Net!Test, Net!Handled, Net!ReceiveFails, Net!Exit, Net!ResetSocket, Net!Receive, Net!Lose
<1>1. UNCHANGED <<mgr, stopping, gm, conn, made, frees, shutdown>> /\ Net!InFlight(c)
  BY DEF Net!InFlight
<1>2. \A d \in Net!Conns : d # c => /\ thread'[d] = thread[d] /\ bound'[d] = bound[d]
                                /\ running'[d] = running[d]
  BY DEF Net!Goto, Net!CloseSocket, Net!TypeOK
<1>3. /\ thread'[c] \in {"test", "recv", "handle", "reset", "exit", "gone"}
      /\ thread'[c] = "gone" \/ running'[c] = running[c] \/ running'[c]
  BY DEF Net!Goto, Net!TypeOK
<1> QED
  BY <1>1, <1>2, <1>3

\* Every step keeps the park's invariant.
LEMMA QuietStep ==
    ASSUME BaseInv, QuietInv, [Net!Next]_(Net!vars), restarts' = restarts
    PROVE  QuietInv'
<1> USE DEF BaseInv
<1>1. CASE UNCHANGED Net!vars
  BY <1>1 DEF Net!vars, Net!objVars, QuietInv, Quiet, Net!InFlight
<1>2. ASSUME NEW ok \in BOOLEAN, Net!Start(ok) PROVE QuietInv'
  <2>1. \A c \in Net!Conns : Quiet(c)
    BY <1>2 DEF Net!Start, QuietInv
  <2>2. /\ made' = made + 1 /\ conn' = made + 1 /\ made + 1 \in Net!Conns
        /\ \A c \in Net!Conns : c # made + 1 => bound'[c] = bound[c] /\ thread'[c] = thread[c]
        /\ thread'[made + 1] = IF Net!Binds(made + 1, ok) THEN "created" ELSE "none"
        /\ bound'[made + 1] <=> Net!Binds(made + 1, ok)
    <3>1. ok \in BOOLEAN /\ made < MaxConns /\ Net!StartListener(ok, dtls)
      BY <1>2, Bounded DEF Net!Start, Net!BoundsAssumption
    <3>2. dtls \in [Net!Conns -> 0..MaxConns] /\ \A c \in Net!Conns : dtls[c] <= minted
      BY DEF Net!TypeOK, MadeInv
    <3> QED
      BY <3>1, <3>2, StartBase
  <2>3. gm' = 0 /\ mgr' = IF Net!Binds(made + 1, ok) THEN "online" ELSE "offline"
    BY <1>2 DEF Net!Start, QuietInv
  <2>4. \A c \in Net!Conns : c # conn' \/ ~Net!Binds(made + 1, ok) => Quiet(c)'
    BY <2>1, <2>2 DEF Quiet, Net!InFlight
  <2>5. Net!Binds(made + 1, ok) => thread'[conn'] = "created"
    BY <2>2
  <2> QED
    BY <2>3, <2>4, <2>5 DEF QuietInv
<1>3. CASE Net!StopReceiver
  <2>1. conn \in Net!Conns
    BY <1>3 DEF Net!StopReceiver, Net!TypeOK, Net!Conns
  <2>2. /\ UNCHANGED <<gm, conn, thread>> /\ \A c \in Net!Conns : bound'[c] => bound[c]
        /\ mgr' = IF running[conn] THEN "join" ELSE "drop"
        /\ running[conn] => stopping' = conn
    BY <1>3 DEF Net!StopReceiver, Net!CloseSocket, Net!TypeOK
  <2>3. ~running[conn] => ~Net!InFlight(conn)
    BY <1>3, <2>1 DEF Net!StopReceiver, QuietInv, Net!InFlight, Net!TypeOK
  <2>4. \A c \in Net!Conns : c # conn => Quiet(c)'
    BY <1>3, <2>2 DEF Net!StopReceiver, QuietInv, Quiet, Net!InFlight
  <2>5. ~running[conn] => ~Net!InFlight(conn)'
    BY <2>2, <2>3 DEF Net!InFlight
  <2> QED
    BY <2>2, <2>4, <2>5 DEF QuietInv
<1>4. CASE Net!Join
  <2>1. conn \in Net!Conns /\ ~Net!InFlight(conn)
    BY <1>4 DEF Net!Join, QuietInv, Net!InFlight, OwnerInv, Net!TypeOK, Net!Conns
  <2> QED
    BY <1>4, <2>1 DEF Net!Join, Net!objVars, QuietInv, Quiet, Net!InFlight
<1>5. CASE Net!DropListener
  <2>1. conn \in Net!Conns /\ ~Net!InFlight(conn)
    BY <1>5 DEF Net!DropListener, QuietInv, OwnerInv, Net!TypeOK, Net!Conns
  <2>2. UNCHANGED thread /\ ~bound'[conn] /\ \A c \in Net!Conns : bound'[c] => bound[c]
    BY <1>5, <2>1 DEF Net!DropListener, Net!CloseSocket, Net!TypeOK
  <2>3. \A c \in Net!Conns : Quiet(c)'
    BY <1>5, <2>1, <2>2 DEF Net!DropListener, QuietInv, Quiet, Net!InFlight
  <2> QED
    BY <1>5, <2>3 DEF Net!DropListener, QuietInv
<1>6. CASE Net!Purge \/ Net!Shutdown
  BY <1>6 DEF Net!Purge, Net!Shutdown, Net!objVars, QuietInv, Quiet, Net!InFlight
<1>7. ASSUME NEW c \in Net!Conns, Net!ThreadStep(c) \/ Net!Receive(c) \/ Net!Lose(c) PROVE QuietInv'
  <2>1. /\ UNCHANGED <<mgr, stopping, gm, conn>> /\ Net!InFlight(c)
        /\ \A d \in Net!Conns : d # c => /\ thread'[d] = thread[d] /\ bound'[d] = bound[d]
                                     /\ running'[d] = running[d]
        /\ thread'[c] \in {"test", "recv", "handle", "reset", "exit", "gone"}
    BY <1>7, ThreadEffect
  <2>2. mgr \notin {"purge", "offline", "drop"} /\ (mgr \in {"online", "join"} => c = conn)
    BY <2>1 DEF QuietInv, Quiet, OwnerInv
  <2>3. \A d \in Net!Conns : d # c => Quiet(d)' = Quiet(d)
    BY <2>1 DEF Quiet, Net!InFlight
  <2>4. mgr = "online" => thread'[c] = "gone" \/ running'[c]
    <3>1. mgr = "online" => thread[c] = "created" \/ running[c]
      BY <1>7, <2>2 DEF QuietInv, Net!ThreadStep, Net!Begin, Net!Test, Net!Handled,
         Net!ReceiveFails, Net!Exit, Net!ResetSocket,
         Net!Receive, Net!Lose
    <3> QED
      BY <1>7, <3>1 DEF Net!TypeOK, Net!ThreadStep, Net!Begin, Net!Test, Net!Handled,
         Net!ReceiveFails, Net!Exit, Net!ResetSocket,
         Net!Receive, Net!Lose, Net!Goto
  <2> QED
    BY <2>1, <2>2, <2>3, <2>4 DEF QuietInv
<1>8. CASE Net!DestroyManager
  BY <1>8 DEF Net!DestroyManager, QuietInv
<1>9. ~Net!CommsShutdown /\ \A ok : ~Net!CommsRestart(ok)
  BY DEF Net!CommsShutdown, Net!CommsRestart, QuietInv, Net!TypeOK, Net!Conns
<1> QED
  BY <1>1, <1>2, <1>3, <1>4, <1>5, <1>6, <1>7, <1>8, <1>9 DEF Net!Next

\* The park's invariant holds at the start and gives what the purge relies on.
LEMMA QuietMeans ==
    /\ Net!Init => QuietInv
    /\ QuietInv => Net!Quiesced
BY DEF Net!Init, QuietInv, Quiet, Net!Quiesced, Net!InFlight

-----------------------------------------------------------------------------
(* /restartcomms, when it does not overlap a park, binds do not fail and no     *)
(* socket is lost.  The old receive thread may run on for ever, but it never    *)
(* has the port again; the connection it belonged to is leaked, never deleted.  *)

Alive == {"created", "test", "recv", "handle"}

CommsInv ==
    /\ \A c \in Net!Conns : thread[c] # "reset"
    /\ \A c \in Net!Conns : bound[c] => c = conn
    /\ \A c \in Net!Conns : frees[c] <= 1
    /\ conn # 0 /\ mgr # "destroyed" => frees[conn] = 0
    /\ mgr \in {"offline", "purge"} => conn = 0
    /\ gm \in Net!Conns => mgr = "online" /\ gm = conn /\ ~bound[conn] /\ ~shutdown
    /\ gm = Net!Crashed => mgr = "offline" /\ ~shutdown
    /\ mgr = "online" /\ gm = 0 /\ ~shutdown =>
           /\ bound[conn] /\ thread[conn] \in Alive
           /\ thread[conn] # "created" => running[conn]

\* The steps, where binds do not fail and no socket is lost.
SureNext ==
    \/ Net!Start(TRUE) \/ Net!CommsRestart(TRUE)
    \/ Net!StopReceiver \/ Net!Join \/ Net!DropListener \/ Net!Purge
    \/ \E c \in Net!Conns : Net!ThreadStep(c) \/ Net!Receive(c)
    \/ Net!CommsShutdown \/ Net!Shutdown \/ Net!DestroyManager

\* Every step keeps the invariant of the restarts.
LEMMA CommsStep ==
    ASSUME BaseInv, CommsInv, [SureNext]_(Net!vars)
    PROVE  CommsInv'
<1> USE DEF BaseInv
<1>0. conn \in 0..MaxConns /\ made \in Nat /\ MaxConns \in Nat /\ gm \in -1..MaxConns
  BY Bounded DEF Net!TypeOK, Net!BoundsAssumption
<1>1. CASE UNCHANGED Net!vars
  BY <1>1 DEF Net!vars, Net!objVars, CommsInv
<1>2. ASSUME NEW transports \in [Net!Conns -> 0..MaxConns],
             \A c \in Net!Conns : transports[c] <= minted,
             made < MaxConns, Net!StartListener(TRUE, transports), \A c \in Net!Conns : ~bound[c]
      PROVE  /\ conn' = made + 1 /\ conn' \in Net!Conns /\ frees' = frees /\ frees[conn'] = 0
             /\ bound'[conn'] /\ thread'[conn'] = "created" /\ Net!Binds(made + 1, TRUE)
             /\ \A c \in Net!Conns : bound'[c] => c = conn'
             /\ \A c \in Net!Conns : thread'[c] # "reset"
  <2>1. Net!Binds(made + 1, TRUE)
    BY <1>2 DEF Net!Binds
  <2>2. /\ conn' = made + 1 /\ made + 1 \in Net!Conns /\ frees' = frees
        /\ \A c \in Net!Conns : c # made + 1 => bound'[c] = bound[c] /\ thread'[c] = thread[c]
        /\ thread'[made + 1] = "created" /\ bound'[made + 1]
    BY <1>2, <2>1, StartBase
  <2>3. frees[made + 1] = 0
    BY <1>0, <2>2 DEF MadeInv
  <2> QED
    BY <1>2, <2>1, <2>2, <2>3 DEF CommsInv
<1>3. ASSUME Net!Start(TRUE) PROVE CommsInv'
  <2>1. \A c \in Net!Conns : ~bound[c]
    BY <1>3 DEF Net!Start, CommsInv, Net!Conns
  <2>2. dtls \in [Net!Conns -> 0..MaxConns] /\ \A c \in Net!Conns : dtls[c] <= minted
    BY DEF Net!TypeOK, MadeInv
  <2>3. /\ conn' = made + 1 /\ conn' \in Net!Conns /\ frees' = frees /\ frees[conn'] = 0
        /\ bound'[conn'] /\ thread'[conn'] = "created" /\ Net!Binds(made + 1, TRUE)
        /\ \A c \in Net!Conns : bound'[c] => c = conn'
        /\ \A c \in Net!Conns : thread'[c] # "reset"
    BY <1>2, <1>3, <2>1, <2>2 DEF Net!Start
  <2>4. mgr' = "online" /\ gm' = gm /\ gm # Net!Crashed /\ gm \notin Net!Conns
    BY <1>3, <2>3 DEF Net!Start, CommsInv
  <2> QED
    BY <2>3, <2>4 DEF CommsInv, Alive
<1>4. ASSUME Net!CommsRestart(TRUE) PROVE CommsInv'
  <2>1. mgr = "online" /\ ~shutdown /\ \A c \in Net!Conns : ~bound[c]
    BY <1>4 DEF Net!CommsRestart, CommsInv
  <2> DEFINE kept == [dtls EXCEPT ![gm] = 0]
  <2>2. kept \in [Net!Conns -> 0..MaxConns] /\ \A c \in Net!Conns : kept[c] <= minted
    <3>1. dtls \in [Net!Conns -> 0..MaxConns] /\ \A c \in Net!Conns : dtls[c] <= minted
      BY DEF Net!TypeOK, MadeInv
    <3>2. gm \in Net!Conns /\ 0 \in 0..MaxConns /\ minted \in Nat
      BY <1>0, <1>4 DEF Net!CommsRestart, Net!TypeOK
    <3>3. kept \in [Net!Conns -> 0..MaxConns] /\ \A c \in Net!Conns : kept[c] = 0 \/ kept[c] = dtls[c]
      BY <3>1, <3>2
    <3> HIDE DEF kept
    <3> QED
      BY <3>1, <3>2, <3>3
  <2>3. Net!StartListener(TRUE, kept) /\ made < MaxConns
    BY <1>4 DEF Net!CommsRestart
  <2> HIDE DEF kept
  <2>4. /\ conn' = made + 1 /\ conn' \in Net!Conns /\ frees' = frees /\ frees[conn'] = 0
        /\ bound'[conn'] /\ thread'[conn'] = "created" /\ Net!Binds(made + 1, TRUE)
        /\ \A c \in Net!Conns : bound'[c] => c = conn'
        /\ \A c \in Net!Conns : thread'[c] # "reset"
    BY <1>2, <2>1, <2>2, <2>3
  <2>5. mgr' = mgr /\ gm' = 0
    BY <1>4 DEF Net!CommsRestart
  <2> QED
    BY <2>1, <2>4, <2>5 DEF CommsInv, Alive, Net!Crashed, Net!Conns
<1>5. CASE Net!StopReceiver
  <2>1. /\ UNCHANGED <<gm, conn, thread, frees, shutdown>> /\ \A c \in Net!Conns : bound'[c] => bound[c]
        /\ mgr' \in {"join", "drop"} /\ gm = 0 /\ conn # 0 /\ mgr = "online"
    BY <1>5 DEF Net!StopReceiver, Net!CloseSocket, Net!TypeOK
  <2> QED
    BY <2>1 DEF CommsInv, Net!Crashed, Net!Conns
<1>6. CASE Net!Join \/ Net!Purge
  BY <1>6 DEF Net!Join, Net!Purge, Net!objVars, CommsInv
<1>7. CASE Net!Shutdown
  BY <1>7 DEF Net!Shutdown, Net!objVars, CommsInv, Net!Crashed, Net!Conns
<1>8. CASE Net!DropListener
  <2>1. conn \in Net!Conns /\ frees[conn] = 0
    BY <1>0, <1>8 DEF Net!DropListener, OwnerInv, CommsInv, Net!Conns
  <2>2. UNCHANGED <<gm, thread>> /\ conn' = 0 /\ mgr' = "purge" /\ mgr = "drop"
    BY <1>8 DEF Net!DropListener
  <2>3. \A c \in Net!Conns : frees'[c] = (IF c = conn THEN 1 ELSE frees[c]) /\ (bound'[c] => bound[c] /\ c # conn)
    BY <1>8, <2>1 DEF Net!DropListener, Net!CloseSocket, Net!TypeOK
  <2> QED
    BY <2>1, <2>2, <2>3 DEF CommsInv
<1>9. ASSUME NEW c \in Net!Conns, Net!ThreadStep(c) \/ Net!Receive(c) PROVE CommsInv'
  <2>1. /\ UNCHANGED <<mgr, gm, conn, frees, shutdown>>
        /\ \A d \in Net!Conns : d # c => /\ thread'[d] = thread[d] /\ bound'[d] = bound[d]
                                     /\ running'[d] = running[d]
    BY <1>9, ThreadEffect
  <2>2. \A ok : ~Net!ResetSocket(c, ok)
    BY DEF Net!ResetSocket, CommsInv
  <2>3. /\ thread'[c] # "reset" /\ (bound'[c] => bound[c])
        /\ thread[c] # "exit" => bound'[c] = bound[c]
    BY <1>9, <2>2 DEF Net!ThreadStep, Net!Begin, Net!Test, Net!Handled, Net!ReceiveFails,
       Net!Exit, Net!Receive, Net!Goto,
       Net!CloseSocket, Net!TypeOK
  <2>4. mgr = "online" /\ gm = 0 /\ ~shutdown /\ c = conn =>
            thread[c] # "exit" /\ thread'[c] \in Alive \ {"created"} /\ running'[c]
    <3> SUFFICES ASSUME mgr = "online", gm = 0, ~shutdown, c = conn
                 PROVE  thread[c] # "exit" /\ thread'[c] \in Alive \ {"created"} /\ running'[c]
      OBVIOUS
    <3>1. thread[c] \in Alive /\ (thread[c] # "created" => running[c])
      BY DEF CommsInv
    <3> QED
      BY <1>9, <2>2, <3>1 DEF Net!ThreadStep, Net!Begin, Net!Test, Net!Handled,
         Net!ReceiveFails, Net!Exit, Net!Receive, Net!Goto,
         Net!TypeOK, Alive
  <2>5. \A d \in Net!Conns : thread'[d] # "reset" /\ (bound'[d] => bound[d])
    BY <2>1, <2>3 DEF CommsInv
  <2>6. mgr = "online" => conn \in Net!Conns
    BY <1>0 DEF OwnerInv, Net!Conns
  <2>7. mgr = "online" /\ gm = 0 /\ ~shutdown =>
            /\ bound'[conn] /\ thread'[conn] \in Alive
            /\ thread'[conn] # "created" => running'[conn]
    BY <2>1, <2>3, <2>4, <2>6 DEF CommsInv
  <2>8. gm \in Net!Conns => ~bound'[conn]
    BY <2>5, <2>6 DEF CommsInv
  <2> QED
    BY <2>1, <2>5, <2>7, <2>8 DEF CommsInv
<1>10. CASE Net!CommsShutdown
  <2>1. CASE conn = 0
    BY <1>0, <1>10, <2>1 DEF Net!CommsShutdown, CommsInv, Net!Crashed, Net!Conns, OwnerInv
  <2>2. CASE conn # 0
    <3>1. conn \in Net!Conns /\ mgr = "online"
      BY <1>0, <1>10, <2>2 DEF Net!CommsShutdown, CommsInv, Net!Conns
    <3>2. /\ UNCHANGED <<mgr, conn, frees, thread, shutdown>> /\ gm' = conn /\ ~bound'[conn] /\ ~shutdown
          /\ \A c \in Net!Conns : bound'[c] => bound[c]
      BY <1>10, <2>2, <3>1 DEF Net!CommsShutdown, Net!CloseSocket, Net!TypeOK
    <3> QED
      BY <2>2, <3>1, <3>2 DEF CommsInv, Net!Crashed, Net!Conns
  <2> QED
    BY <2>1, <2>2
<1>11. CASE Net!DestroyManager
  <2>1. UNCHANGED <<conn, gm, thread, shutdown>> /\ mgr' = "destroyed" /\ shutdown
    BY <1>11 DEF Net!DestroyManager
  <2>2. gm \notin Net!Conns /\ gm # Net!Crashed
    BY <2>1 DEF CommsInv
  <2>3. \A c \in Net!Conns : frees'[c] <= 1 /\ (bound'[c] => bound[c])
    <3>1. CASE conn = 0
      BY <1>11, <3>1 DEF Net!DestroyManager, CommsInv
    <3>2. CASE conn # 0
      <4>1. conn \in Net!Conns /\ frees[conn] = 0
        BY <1>0, <1>11, <3>2 DEF Net!DestroyManager, CommsInv, Net!Conns
      <4> QED
        BY <1>11, <3>2, <4>1 DEF Net!DestroyManager, Net!CloseSocket, CommsInv, Net!TypeOK
    <3> QED
      BY <3>1, <3>2
  <2> QED
    BY <2>1, <2>2, <2>3 DEF CommsInv
<1> QED
  BY <1>1, <1>3, <1>4, <1>5, <1>6, <1>7, <1>8, <1>9, <1>10, <1>11 DEF SureNext

\* It holds at the start, and gives what the restarts promise.
LEMMA CommsMeans ==
    /\ Net!Init => CommsInv
    /\ BaseInv /\ CommsInv => Net!FreedOnce /\ Net!OnlineListens
<1>1. Net!Init => CommsInv
  BY DEF Net!Init, CommsInv, Net!Crashed, Net!Conns
<1>2. BaseInv /\ CommsInv => Net!FreedOnce /\ Net!OnlineListens
  BY DEF BaseInv, OwnerInv, CommsInv, Net!FreedOnce, Net!OnlineListens
<1> QED
  BY <1>1, <1>2

-----------------------------------------------------------------------------
(***************************************************************************)
(* The two parts.                                                          *)
(***************************************************************************)

\* They start alike, and keep still alike.
LEMMA PartsAlike ==
    /\ Park!Init => Net!Init /\ restarts = 0
    /\ Comms!Init => Net!Init /\ losses = 0
    /\ UNCHANGED Park!vars => UNCHANGED Net!vars /\ restarts' = restarts
    /\ UNCHANGED Comms!vars => UNCHANGED Net!vars /\ losses' = losses
BY DEF Park!Init, Comms!Init, Net!Init, Park!Conns, Comms!Conns, Net!Conns,
   Park!vars, Comms!vars, Net!vars, Park!objVars, Comms!objVars, Net!objVars

\* What the park does, without a restart.
LEMMA ParkMoves == ASSUME Park!Next, restarts = 0 PROVE Net!Next /\ restarts' = restarts
<1>1. Park!Conns = Net!Conns /\ Park!Crashed = Net!Crashed
  BY DEF Park!Conns, Net!Conns, Park!Crashed, Net!Crashed
<1>2. ASSUME NEW ok \in BOOLEAN, Park!Start(ok) \/ Park!CommsRestart(ok) PROVE Net!Next /\ restarts' = restarts
  <2>1. Net!Start(ok) \/ Net!CommsRestart(ok)
    BY <1>1, <1>2 DEF Park!Start, Park!CommsRestart, Park!StartListener, Park!Binds,
       Net!Start, Net!CommsRestart, Net!StartListener, Net!Binds
  <2> QED
    BY <2>1 DEF Net!Next, Net!Start, Net!CommsRestart
<1>3. ASSUME Park!StopReceiver \/ Park!Join \/ Park!DropListener \/ Park!Purge \/ Park!Shutdown \/ Park!DestroyManager
      PROVE  Net!Next /\ restarts' = restarts
  <2>1. /\ Net!StopReceiver \/ Net!Join \/ Net!DropListener \/ Net!Purge \/ Net!Shutdown \/ Net!DestroyManager
        /\ restarts' = restarts
    BY <1>1, <1>3 DEF Park!StopReceiver, Park!Join, Park!DropListener, Park!Purge,
       Park!Shutdown, Park!DestroyManager, Park!CommsShutdown, Park!CloseSocket,
       Park!objVars, Net!StopReceiver, Net!Join, Net!DropListener, Net!Purge, Net!Shutdown,
       Net!DestroyManager, Net!CommsShutdown, Net!CloseSocket, Net!objVars
  <2> QED
    BY <2>1 DEF Net!Next
<1>4. ASSUME NEW c \in Net!Conns, Park!ThreadStep(c) \/ Park!Receive(c) \/ Park!Lose(c)
      PROVE  Net!Next /\ restarts' = restarts
  <2>1. (Net!ThreadStep(c) \/ Net!Receive(c) \/ Net!Lose(c)) /\ restarts' = restarts
    BY <1>1, <1>4 DEF Park!ThreadStep, Park!Begin, Park!Test, Park!Handled,
       Park!ReceiveFails, Park!Exit, Park!ResetSocket, Park!Receive, Park!Lose, Park!Goto,
       Park!CloseSocket, Park!Binds, Net!ThreadStep, Net!Begin, Net!Test, Net!Handled,
       Net!ReceiveFails, Net!Exit, Net!ResetSocket, Net!Receive, Net!Lose, Net!Goto,
       Net!CloseSocket, Net!Binds
  <2> QED
    BY <1>4, <2>1 DEF Net!Next
<1>5. ~Park!CommsShutdown
  BY DEF Park!CommsShutdown
<1> QED
  BY <1>1, <1>2, <1>3, <1>4, <1>5 DEF Park!Next

\* What the restarts do, with binds that do not fail and no socket lost.
LEMMA CommsMoves == ASSUME Comms!Next, losses = 0 PROVE SureNext /\ losses' = losses
<1>1. Comms!Conns = Net!Conns /\ Comms!Crashed = Net!Crashed
  BY DEF Comms!Conns, Net!Conns, Comms!Crashed, Net!Crashed
<1>2. ASSUME Comms!Start(TRUE) \/ Comms!CommsRestart(TRUE) PROVE SureNext /\ losses' = losses
  BY <1>1, <1>2 DEF SureNext, Comms!Start, Comms!CommsRestart, Comms!StartListener,
     Comms!Binds, Net!Start, Net!CommsRestart, Net!StartListener, Net!Binds
<1>3. ASSUME Comms!StopReceiver \/ Comms!Join \/ Comms!DropListener \/ Comms!Purge \/ Comms!Shutdown \/ Comms!DestroyManager
             \/ Comms!CommsShutdown
      PROVE  SureNext /\ losses' = losses
  BY <1>1, <1>3 DEF SureNext, Comms!StopReceiver, Comms!Join, Comms!DropListener,
     Comms!Purge, Comms!Shutdown, Comms!DestroyManager, Comms!CommsShutdown,
     Comms!CloseSocket, Comms!objVars, Net!StopReceiver, Net!Join, Net!DropListener,
     Net!Purge, Net!Shutdown, Net!DestroyManager, Net!CommsShutdown, Net!CloseSocket,
     Net!objVars
<1>4. ASSUME NEW c \in Net!Conns, Comms!ThreadStep(c) \/ Comms!Receive(c)
      PROVE  SureNext /\ losses' = losses
  <2>1. (Net!ThreadStep(c) \/ Net!Receive(c)) /\ losses' = losses
    BY <1>1, <1>4 DEF Comms!ThreadStep, Comms!Begin, Comms!Test, Comms!Handled,
       Comms!ReceiveFails, Comms!Exit, Comms!ResetSocket, Comms!Receive, Comms!Lose,
       Comms!Goto, Comms!CloseSocket, Comms!Binds, Net!ThreadStep, Net!Begin, Net!Test,
       Net!Handled, Net!ReceiveFails, Net!Exit, Net!ResetSocket, Net!Receive, Net!Lose,
       Net!Goto, Net!CloseSocket, Net!Binds
  <2> QED
    BY <1>4, <2>1 DEF SureNext
<1>5. \A c : ~Comms!Lose(c)
  BY DEF Comms!Lose
<1> QED
  BY <1>1, <1>2, <1>3, <1>4, <1>5 DEF Comms!Next

ParkInv == BaseInv /\ QuietInv /\ restarts = 0
RestartInv == BaseInv /\ CommsInv /\ losses = 0

\* The park keeps its invariant, which says that it is quiet.
LEMMA ParkKeeps ==
    /\ Park!Init => ParkInv
    /\ ParkInv /\ [Park!Next]_(Park!vars) => ParkInv'
    /\ ParkInv => Park!TypeOK /\ Park!Quiesced
<1>1. Park!Init => ParkInv
  BY PartsAlike, InitBase, QuietMeans DEF ParkInv
<1>2. ParkInv /\ [Park!Next]_(Park!vars) => ParkInv'
  <2> SUFFICES ASSUME ParkInv, [Park!Next]_(Park!vars) PROVE ParkInv'
    OBVIOUS
  <2>1. [Net!Next]_(Net!vars) /\ restarts' = restarts
    BY ParkMoves, PartsAlike DEF ParkInv
  <2> QED
    BY <2>1, BaseStep, QuietStep DEF ParkInv
<1>3. ParkInv => Park!TypeOK /\ Park!Quiesced
  <2>1. ParkInv => Net!TypeOK /\ Net!Quiesced /\ restarts \in 0..0
    BY QuietMeans DEF ParkInv, BaseInv
  <2> QED
    BY <2>1 DEF Net!TypeOK, Park!TypeOK, Net!Quiesced, Park!Quiesced, Net!InFlight,
       Park!InFlight, Net!Conns, Park!Conns
<1> QED
  BY <1>1, <1>2, <1>3

\* The restarts keep theirs.
LEMMA CommsKeep ==
    /\ Comms!Init => RestartInv
    /\ RestartInv /\ [Comms!Next]_(Comms!vars) => RestartInv'
    /\ RestartInv => Comms!TypeOK /\ Comms!FreedOnce /\ Comms!OnlineListens
<1>1. Comms!Init => RestartInv
  BY PartsAlike, InitBase, CommsMeans DEF RestartInv
<1>2. RestartInv /\ [Comms!Next]_(Comms!vars) => RestartInv'
  <2> SUFFICES ASSUME RestartInv, [Comms!Next]_(Comms!vars) PROVE RestartInv'
    OBVIOUS
  <2>1. [SureNext]_(Net!vars) /\ losses' = losses
    BY CommsMoves, PartsAlike DEF RestartInv
  <2>2. [Net!Next]_(Net!vars)
    BY <2>1 DEF SureNext, Net!Next
  <2> QED
    BY <2>1, <2>2, BaseStep, CommsStep DEF RestartInv
<1>3. RestartInv => Comms!TypeOK /\ Comms!FreedOnce /\ Comms!OnlineListens
  <2>1. RestartInv => Net!TypeOK /\ Net!FreedOnce /\ Net!OnlineListens /\ losses \in 0..0
    BY CommsMeans DEF RestartInv, BaseInv
  <2> QED
    BY <2>1 DEF Net!TypeOK, Comms!TypeOK, Net!FreedOnce, Comms!FreedOnce, Net!OnlineListens,
       Comms!OnlineListens, Net!Conns, Comms!Conns
<1> QED
  BY <1>1, <1>2, <1>3

\* While nobody restarts the comms, a dropped listener has left no receive thread
\* and no socket behind when the objects are purged, whatever the thread was doing
\* and however often binds fail and sockets are lost (StopReceiver, DropListener).
THEOREM ParkIsQuiet == Park!Spec => []Park!Quiesced
BY ParkKeeps, PTL DEF Park!Spec

\* However often the comms are restarted between parks, no connection is deleted
\* twice, and a sector that is online has its port (ShutdownListener, ReStartListener).
THEOREM CommsAreSound == Comms!Spec => [](Comms!FreedOnce /\ Comms!OnlineListens)
<1>1. RestartInv => Comms!FreedOnce /\ Comms!OnlineListens
  BY CommsKeep
<1> QED
  BY <1>1, CommsKeep, PTL DEF Comms!Spec

ListenerInv == (part = "park" => ParkInv) /\ (part = "comms" => RestartInv)

\* Both parts start from the same state.
LEMMA ListenerInit == IOInit => ListenerInv
<1>1. Park!Init => Comms!Init
  BY DEF Park!Init, Comms!Init, Park!Conns, Comms!Conns
<1> QED
  BY <1>1, ParkKeeps, CommsKeep DEF IOInit, ListenerInv

\* A step of another part leaves the listener alone; a step of its own keeps its
\* invariant.
LEMMA ListenerStep == ListenerInv /\ [IONext]_ioVars => ListenerInv'
<1> SUFFICES ASSUME ListenerInv, [IONext]_ioVars PROVE ListenerInv'
  OBVIOUS
<1>1. part' = part
  BY DEF IONext, InQueue, InReset, InSend, InPark, InComms, ioVars
<1>2. ASSUME UNCHANGED listenerVars
      PROVE  UNCHANGED Park!vars /\ UNCHANGED Comms!vars
  BY <1>2 DEF listenerVars, Park!vars, Comms!vars, Park!objVars, Comms!objVars
<1>3. part = "park" => [Park!Next]_(Park!vars)
  BY <1>2 DEF IONext, InQueue, InReset, InSend, InPark, InComms, ioVars
<1>4. part = "comms" => [Comms!Next]_(Comms!vars)
  BY <1>2 DEF IONext, InQueue, InReset, InSend, InPark, InComms, ioVars
<1> QED
  BY <1>1, <1>3, <1>4, ParkKeeps, CommsKeep DEF ListenerInv

\* For any number of connections, restarts and lost sockets: a parked listener has
\* left no thread and no socket behind, no connection is deleted twice, and an
\* online sector has its port (StopReceiver, DropListener, HandleRestartSectorComms).
THEOREM ListenerIsSound == IOSpec => []ListenerSound
<1>1. ListenerInv => ListenerSound
  BY ParkKeeps, CommsKeep DEF ListenerInv, ListenerSound
<1> QED
  BY <1>1, ListenerInit, ListenerStep, PTL DEF IOSpec

-----------------------------------------------------------------------------
(***************************************************************************)
(* Flattening a sequence of sequences.                                     *)
(***************************************************************************)

\* Every set of numbers has a least one, so that what holds of 0 and goes over from
\* each number to the next holds of all.
LEMMA Least ==
    ASSUME NEW T \in SUBSET Nat, T # {}
    PROVE  \E n \in T : \A m \in T : n <= m
<1> DEFINE R == OpToRel(<, Nat)
<1>1. IsWellFoundedOn(R, Nat)
  BY NatLessThanWellFounded
<1>2. \A x, y \in Nat : <<y, x>> \in R <=> y < x
  BY DEF OpToRel
<1> HIDE DEF R
<1>3. PICK n \in T : \A m \in T : <<m, n>> \notin R
  BY <1>1, WFMin
<1>4. \A m \in T : ~(m < n)
  BY <1>2, <1>3
<1>5. \A m \in T : n <= m
  BY <1>4
<1> QED
  BY <1>5

LEMMA Reaches ==
    ASSUME NEW T \in SUBSET Nat, 0 \in T, \A n \in T : n + 1 \in T
    PROVE  T = Nat
<1> SUFFICES ASSUME Nat \ T # {} PROVE FALSE
  OBVIOUS
<1>1. PICK n \in Nat \ T : \A m \in Nat \ T : n <= m
  BY Least
<1>2. n # 0 /\ n - 1 \in Nat
  BY <1>1
<1>3. n - 1 \in T
  BY <1>1, <1>2
<1> QED
  BY <1>1, <1>2, <1>3

\* What a sequence of sequences has been flattened to, after each of them.
Flattens(f, ss) == f = [i \in 1 .. Len(ss) |-> IF i = 1 THEN ss[i] ELSE f[i - 1] \o ss[i]]

LEMMA FlattenIs ==
    ASSUME NEW S, NEW ss \in Seq(Seq(S)), ss # <<>>
    PROVE  \E f \in [1 .. Len(ss) -> Seq(S)] : Flattens(f, ss) /\ FlattenSeq(ss) = f[Len(ss)]
<1> DEFINE To(n, f) == \A i \in 1 .. n : f[i] = IF i = 1 THEN ss[i] ELSE f[i - 1] \o ss[i]
           T == {n \in Nat : n <= Len(ss) => \E f \in [1 .. n -> Seq(S)] : To(n, f)}
<1>0. Len(ss) \in Nat /\ Len(ss) > 0 /\ \A i \in 1 .. Len(ss) : ss[i] \in Seq(S)
  OBVIOUS
<1>1. 0 \in T
  <2> DEFINE f == [i \in 1 .. 0 |-> <<>>]
  <2>1. f \in [1 .. 0 -> Seq(S)] /\ To(0, f)
    OBVIOUS
  <2> HIDE DEF f, To
  <2> QED
    BY <2>1
<1>2. ASSUME NEW n \in T PROVE n + 1 \in T
  <2>1. ASSUME n + 1 <= Len(ss) PROVE \E g \in [1 .. n + 1 -> Seq(S)] : To(n + 1, g)
    <3>1. PICK f \in [1 .. n -> Seq(S)] : To(n, f)
      <4> HIDE DEF To
      <4> QED
        BY <1>0, <2>1
    <3> DEFINE last == IF n = 0 THEN ss[1] ELSE f[n] \o ss[n + 1]
               g == [i \in 1 .. n + 1 |-> IF i = n + 1 THEN last ELSE f[i]]
    <3>2. n \in Nat /\ ss[n + 1] \in Seq(S)
      BY <1>0, <2>1
    <3>3. last \in Seq(S)
      <4>1. CASE n = 0
        BY <3>2, <4>1
      <4>2. CASE n # 0
        <5>1. f[n] \in Seq(S)
          BY <3>2, <4>2
        <5> QED
          BY <3>2, <4>2, <5>1
      <4> QED
        BY <4>1, <4>2
    <3>4. g \in [1 .. n + 1 -> Seq(S)]
      <4> HIDE DEF last
      <4> QED
        BY <3>2, <3>3
    <3>5. To(n + 1, g)
      <4> SUFFICES ASSUME NEW i \in 1 .. n + 1
                   PROVE  g[i] = IF i = 1 THEN ss[i] ELSE g[i - 1] \o ss[i]
        OBVIOUS
      <4>1. CASE i = n + 1
        BY <3>2, <4>1
      <4>2. CASE i # n + 1
        <5>1. i \in 1 .. n /\ (i # 1 => i - 1 \in 1 .. n /\ i - 1 # n + 1)
          BY <3>2, <4>2
        <5>2. g[i] = f[i] /\ f[i] = IF i = 1 THEN ss[i] ELSE f[i - 1] \o ss[i]
          BY <3>1, <4>2, <5>1
        <5>3. i # 1 => g[i - 1] = f[i - 1]
          <6> HIDE DEF last
          <6> QED
            BY <3>2, <5>1
        <5> HIDE DEF g
        <5> QED
          BY <5>2, <5>3
      <4> QED
        BY <4>1, <4>2
    <3> HIDE DEF g, To
    <3> QED
      BY <3>4, <3>5
  <2> HIDE DEF To
  <2> QED
    BY <2>1
<1>3. Len(ss) \in T
  <2> HIDE DEF T
  <2>1. T \in SUBSET Nat
    BY DEF T
  <2> QED
    BY <1>0, <1>1, <1>2, <2>1, Reaches
<1>4. PICK f \in [1 .. Len(ss) -> Seq(S)] : To(Len(ss), f)
  BY <1>0, <1>3
<1>5. Flattens(f, ss)
  BY <1>4 DEF Flattens
<1>6. FlattenSeq(ss) = (CHOOSE g : Flattens(g, ss))[Len(ss)]
  BY <1>0 DEF FlattenSeq, Flattens
<1> DEFINE h == CHOOSE g : Flattens(g, ss)
<1>7. Flattens(h, ss)
  BY <1>5
<1> HIDE DEF h
<1>8. h \in [1 .. Len(ss) -> Seq(S)]
  <2> DEFINE U == {n \in Nat : \A i \in 1 .. n : i <= Len(ss) => h[i] \in Seq(S)}
  <2>1. \A i \in 1 .. Len(ss) : h[i] = IF i = 1 THEN ss[i] ELSE h[i - 1] \o ss[i]
    BY <1>7 DEF Flattens
  <2>2. 0 \in U
    OBVIOUS
  <2>3. ASSUME NEW n \in U PROVE n + 1 \in U
    <3> SUFFICES ASSUME NEW i \in 1 .. n + 1, i <= Len(ss) PROVE h[i] \in Seq(S)
      OBVIOUS
    <3>1. n \in Nat /\ \A j \in 1 .. n : j <= Len(ss) => h[j] \in Seq(S)
      OBVIOUS
    <3> HIDE DEF U
    <3>2. CASE i = 1
      BY <1>0, <2>1, <3>1, <3>2
    <3>3. CASE i # 1
      <4>1. i \in 1 .. Len(ss) /\ i - 1 \in 1 .. n /\ i - 1 <= Len(ss)
        BY <1>0, <3>1, <3>3
      <4>2. h[i] = h[i - 1] \o ss[i] /\ h[i - 1] \in Seq(S) /\ ss[i] \in Seq(S)
        BY <1>0, <2>1, <3>1, <3>3, <4>1
      <4> QED
        BY <4>2
    <3> QED
      BY <3>2, <3>3
  <2>4. Len(ss) \in U
    <3> HIDE DEF U
    <3>1. U \in SUBSET Nat
      BY DEF U
    <3> QED
      BY <1>0, <2>2, <2>3, <3>1, Reaches
  <2>5. \A i \in 1 .. Len(ss) : h[i] \in Seq(S)
    BY <1>0, <2>4
  <2>6. h = [i \in 1 .. Len(ss) |-> h[i]]
    BY <1>7 DEF Flattens
  <2> QED
    BY <2>5, <2>6
<1> QED
  BY <1>6, <1>7, <1>8 DEF h

\* There is only one way to flatten, as far as two sequences agree.
Alike(s, t, m) == \A i \in 1 .. m : s[i] = t[i]

LEMMA FlattensOnce ==
    ASSUME NEW ss, NEW tt, NEW f, NEW g, Flattens(f, ss), Flattens(g, tt),
           Len(ss) \in Nat, Len(tt) \in Nat,
           NEW m \in Nat, m <= Len(ss), m <= Len(tt), Alike(ss, tt, m)
    PROVE  Alike(f, g, m)
<1> DEFINE T == {n \in Nat : n <= m => \A i \in 1 .. n : f[i] = g[i]}
<1>1. /\ \A i \in 1 .. Len(ss) : f[i] = IF i = 1 THEN ss[i] ELSE f[i - 1] \o ss[i]
      /\ \A i \in 1 .. Len(tt) : g[i] = IF i = 1 THEN tt[i] ELSE g[i - 1] \o tt[i]
      /\ \A i \in 1 .. m : ss[i] = tt[i]
  BY DEF Flattens, Alike
<1>2. 0 \in T
  OBVIOUS
<1>3. ASSUME NEW n \in T PROVE n + 1 \in T
  <2> SUFFICES ASSUME n + 1 <= m, NEW i \in 1 .. n + 1 PROVE f[i] = g[i]
    OBVIOUS
  <2>1. n \in Nat /\ \A j \in 1 .. n : f[j] = g[j]
    OBVIOUS
  <2> HIDE DEF T
  <2>2. i \in 1 .. Len(ss) /\ i \in 1 .. Len(tt) /\ i \in 1 .. m /\ Len(ss) \in Nat /\ Len(tt) \in Nat
    BY <2>1
  <2>3. CASE i = 1
    BY <1>1, <2>2, <2>3
  <2>4. CASE i # 1
    <3>1. i - 1 \in 1 .. n
      BY <2>1, <2>4
    <3>2. f[i] = f[i - 1] \o ss[i] /\ g[i] = g[i - 1] \o tt[i] /\ ss[i] = tt[i]
      BY <1>1, <2>2, <2>4
    <3> QED
      BY <2>1, <3>1, <3>2
  <2> QED
    BY <2>3, <2>4
<1>4. m \in T
  <2> HIDE DEF T
  <2>1. T \in SUBSET Nat
    BY DEF T
  <2> QED
    BY <1>2, <1>3, <2>1, Reaches
<1> QED
  BY <1>4 DEF Alike

LEMMA FlattenEmpty == FlattenSeq(<<>>) = <<>>
BY DEF FlattenSeq

LEMMA FlattenType ==
    ASSUME NEW S, NEW ss \in Seq(Seq(S))
    PROVE  FlattenSeq(ss) \in Seq(S)
<1>1. CASE ss = <<>>
  <2>1. <<>> \in Seq(S)
    OBVIOUS
  <2> QED
    BY <1>1, <2>1, FlattenEmpty
<1>2. CASE ss # <<>>
  <2>1. PICK f \in [1 .. Len(ss) -> Seq(S)] : FlattenSeq(ss) = f[Len(ss)]
    BY <1>2, FlattenIs
  <2>2. Len(ss) \in 1 .. Len(ss)
    BY <1>2
  <2> QED
    BY <2>1, <2>2
<1> QED
  BY <1>1, <1>2

LEMMA FlattenAppend ==
    ASSUME NEW S, NEW ss \in Seq(Seq(S)), NEW e \in Seq(S)
    PROVE  FlattenSeq(Append(ss, e)) = FlattenSeq(ss) \o e
<1> DEFINE tt == Append(ss, e)
<1>1. /\ tt \in Seq(Seq(S)) /\ tt # <<>> /\ Len(tt) = Len(ss) + 1 /\ tt[Len(tt)] = e
      /\ \A i \in 1 .. Len(ss) : tt[i] = ss[i]
  <2> DEFINE A == Seq(S)
  <2>1. ss \in Seq(A) /\ e \in A
    OBVIOUS
  <2> HIDE DEF A
  <2> QED
    BY <2>1, AppendProperties DEF A
<1> HIDE DEF tt
<1>2. PICK g \in [1 .. Len(tt) -> Seq(S)] : Flattens(g, tt) /\ FlattenSeq(tt) = g[Len(tt)]
  BY <1>1, FlattenIs
<1>3. g[Len(tt)] = IF Len(tt) = 1 THEN e ELSE g[Len(tt) - 1] \o e
  <2>1. \A i \in 1 .. Len(tt) : g[i] = IF i = 1 THEN tt[i] ELSE g[i - 1] \o tt[i]
    BY <1>2 DEF Flattens
  <2>2. Len(tt) \in 1 .. Len(tt)
    BY <1>1
  <2> QED
    BY <1>1, <2>1, <2>2
<1>4. CASE ss = <<>>
  BY <1>1, <1>2, <1>3, <1>4, FlattenEmpty DEF tt
<1>5. CASE ss # <<>>
  <2>1. PICK f \in [1 .. Len(ss) -> Seq(S)] : Flattens(f, ss) /\ FlattenSeq(ss) = f[Len(ss)]
    BY <1>5, FlattenIs
  <2>2. Len(ss) \in Nat /\ Len(ss) # 0 /\ Len(ss) <= Len(tt)
    BY <1>1, <1>5
  <2>3. \A i \in 1 .. Len(ss) : f[i] = g[i]
    <3>1. Len(ss) <= Len(ss) /\ \A i \in 1 .. Len(ss) : ss[i] = tt[i]
      BY <1>1, <2>2
    <3>2. Flattens(f, ss) /\ Flattens(g, tt) /\ Len(ss) \in Nat /\ Len(ss) <= Len(tt) /\ Len(tt) \in Nat
      BY <1>1, <1>2, <2>1, <2>2
    <3>3. PICK m \in Nat : m = Len(ss)
      BY <3>2
    <3>4. m <= Len(ss) /\ m <= Len(tt) /\ Alike(ss, tt, m)
      BY <3>1, <3>2, <3>3 DEF Alike
    <3>5. Alike(f, g, m)
      BY <3>2, <3>4, FlattensOnce
    <3> QED
      BY <3>3, <3>5 DEF Alike
  <2>4. f[Len(ss)] = g[Len(ss)]
    BY <2>2, <2>3
  <2> QED
    BY <1>1, <1>2, <1>3, <2>1, <2>2, <2>4 DEF tt
<1> QED
  BY <1>4, <1>5

LEMMA FlattenConcat ==
    ASSUME NEW S, NEW ss \in Seq(Seq(S)), NEW tt \in Seq(Seq(S))
    PROVE  FlattenSeq(ss \o tt) = FlattenSeq(ss) \o FlattenSeq(tt)
<1> DEFINE P(n) == \A t \in Seq(Seq(S)) :
                      Len(t) = n => FlattenSeq(ss \o t) = FlattenSeq(ss) \o FlattenSeq(t)
           T == {n \in Nat : P(n)}
<1>1. 0 \in T
  <2>1. ASSUME NEW t \in Seq(Seq(S)), Len(t) = 0
        PROVE  FlattenSeq(ss \o t) = FlattenSeq(ss) \o FlattenSeq(t)
    <3>1. t = <<>> /\ ss \o t = ss
      BY <2>1
    <3> QED
      BY <3>1, FlattenEmpty, FlattenType
  <2> QED
    BY <2>1
<1>2. ASSUME NEW n \in T PROVE n + 1 \in T
  <2>1. ASSUME NEW t \in Seq(Seq(S)), Len(t) = n + 1
        PROVE  FlattenSeq(ss \o t) = FlattenSeq(ss) \o FlattenSeq(t)
    <3> DEFINE u == SubSeq(t, 1, n)
               e == t[n + 1]
    <3>1. u \in Seq(Seq(S)) /\ Len(u) = n /\ e \in Seq(S) /\ t = Append(u, e)
      BY <2>1
    <3> HIDE DEF u, e
    <3>2. ss \o u \in Seq(Seq(S)) /\ ss \o t = Append(ss \o u, e)
      BY <3>1
    <3>3. FlattenSeq(ss \o u) = FlattenSeq(ss) \o FlattenSeq(u)
      BY <3>1
    <3>4. FlattenSeq(ss \o t) = FlattenSeq(ss \o u) \o e
      BY <3>1, <3>2, FlattenAppend
    <3>5. FlattenSeq(t) = FlattenSeq(u) \o e
      BY <3>1, FlattenAppend
    <3>6. FlattenSeq(ss) \in Seq(S) /\ FlattenSeq(u) \in Seq(S)
      BY <3>1, FlattenType
    <3> HIDE DEF P
    <3>7. (FlattenSeq(ss) \o FlattenSeq(u)) \o e = FlattenSeq(ss) \o (FlattenSeq(u) \o e)
      BY <3>1, <3>6
    <3> QED
      BY <3>3, <3>4, <3>5, <3>7
  <2> QED
    BY <2>1
<1>3. Len(tt) \in T
  <2> HIDE DEF T
  <2>1. T \in SUBSET Nat /\ Len(tt) \in Nat
    BY DEF T
  <2>2. T = Nat
    BY <1>1, <1>2, <2>1, Reaches
  <2> QED
    BY <2>1, <2>2
<1> QED
  BY <1>3

-----------------------------------------------------------------------------
(***************************************************************************)
(* A player's send queue, while no two threads are at work for one player  *)
(* at once (apart).  To the queue the thread that packs is idle while it   *)
(* packs, and nobody resets the queue.                                     *)
(***************************************************************************)
PackPcs == {"split", "pack", "more", "send"}
CallPcs == {"idle", "entry", "write", "publish"}
Packs == th[Sender].pc \in PackPcs
Calmed == [t \in Threads |-> IF t = Sender /\ Packs THEN Idle ELSE th[t]]

Calm == INSTANCE MessageQueue_proofs WITH Resettable <- {}, th <- Calmed

\* The rings have room, as long as the send queue moves and its threads keep apart.
SendRoom == part = "send" /\ apart => Calm!Roomy

Byte == (0..Total) \X Nat
Packings == [pc : PackPcs, q : Queues, cumulative : 0..Cache]

SendShape ==
    /\ th \in [Threads -> Calls \cup Packings]
    /\ \A t \in Threads : th[t].pc \in CallPcs \/ (t = Sender /\ th[t].pc \in PackPcs)
    /\ form \in [Queues -> Seq(Byte)] /\ split \in [Queues -> Seq(Byte)]
    /\ out \in [Queues -> Seq(Seq(Byte))] /\ taken \in [Queues -> Seq(Seq(Byte))]
    /\ order \in [Queues -> Seq(1..Total)]

\* What a thread is about to copy into a queue is in the forming buffer.
FormedBy(t) ==
    th[t].pc \in {"entry", "write"} =>
        LET k == th[t].q  m == th[t].msg
        IN  Length[m] <= Len(form[k]) /\ SubSeq(form[k], 1, Length[m]) = Bytes(m)
Formed == \A t \in Threads : FormedBy(t)

\* What is queued was either read or waits.
Queued(k) == [i \in 1..Len(order[k]) |-> Bytes(order[k][i])]
Accounted == \A k \in Queues : Queued(k) = taken[k] \o Calm!Pending[k]

\* What was read is in the packets sent, in the one being formed, or still to be split.
InHand(k) == IF Packs /\ th[Sender].q = k THEN SubSeq(form[k], 1, Cumulative) ELSE <<>>
Passed == \A k \in Queues : FlattenSeq(taken[k]) = (FlattenSeq(out[k]) \o InHand(k)) \o split[k]

\* How far the packet has come: what is read next fits into the rest of it, unless it
\* is split.
InPacket ==
    Packs => LET k == th[Sender].q  first == Head(Calm!Pending[k])  waits == Calm!Pending[k] # <<>>
             IN  /\ Cumulative <= Len(form[k])
                 /\ th[Sender].pc # "send" => split[k] = <<>>
                 /\ th[Sender].pc = "split" => Cumulative = 0 /\ waits /\ Len(first) > Cache
                 /\ th[Sender].pc = "pack" /\ waits => Len(first) <= Cache - Cumulative

SendInv ==
    /\ Calm!QueueInv /\ SendShape /\ OneWorks
    /\ Formed /\ Accounted /\ Passed /\ InPacket
StreamInv ==
    IF part = "send" THEN apart => SendInv
    ELSE \A k \in Queues : out[k] = <<>> /\ order[k] = <<>>

\* The choke leaves room for the messages of the threads that have passed it, and no
\* message is larger than the readers' buffer or the ring of bytes.
SendFits ==
    /\ IsFiniteSet(Threads) /\ Choke + Cardinality(Threads) < Slots /\ Slots <= Word
    /\ \A m \in 1..Total : Length[m] <= Room /\ Length[m] <= Size

\* The queue in Calm is the send queue, but for the calls its sender is in.
LEMMA CalmIs ==
    ASSUME SendFits
    PROVE  /\ Calm!SizesAssumption /\ Calm!Choked
           /\ Calm!Idle = Idle /\ Calm!Null = Null /\ Calm!EntryIds = EntryIds
           /\ \A m \in 1..Total : Calm!Bytes(m) = Bytes(m)
           /\ \A e \in EntryIds : Calm!Read(e) = Read(e)
           /\ \A k \in Queues : Calm!NextSize(k) = NextSize(k)
<1>1. Calm!SizesAssumption
  BY SizesAssumption DEF SizesAssumption, Calm!SizesAssumption
<1>2. Calm!Choked
  <2>1. Calm!IsFiniteSet(Threads) = IsFiniteSet(Threads)
    BY DEF Calm!IsFiniteSet, IsFiniteSet
  <2>2. Calm!Cardinality(Threads) = Cardinality(Threads)
    BY DEF Calm!Cardinality, Cardinality, Calm!IsFiniteSet, IsFiniteSet
  <2> QED
    BY <2>1, <2>2 DEF Calm!Choked, SendFits
<1>3. Calm!Idle = Idle /\ Calm!Null = Null /\ Calm!EntryIds = EntryIds
  BY DEF Calm!Idle, Idle, Calm!Null, Null, Calm!EntryIds, EntryIds
<1>4. \A m \in 1..Total : Calm!Bytes(m) = Bytes(m)
  BY DEF Calm!Bytes, Bytes
<1>5. \A e \in EntryIds : Calm!Read(e) = Read(e)
  BY DEF Calm!Read, Read
<1>6. \A k \in Queues : Calm!NextSize(k) = NextSize(k)
  BY DEF Calm!NextSize, NextSize, Calm!Null, Null
<1> QED
  BY <1>1, <1>2, <1>3, <1>4, <1>5, <1>6

\* Where a thread goes, and what Calm sees of it.
LEMMA CalmMoves ==
    ASSUME NEW t \in Threads, NEW v, DOMAIN th = Threads, th' = [th EXCEPT ![t] = v]
    PROVE  /\ th'[t] = v /\ \A u \in Threads \ {t} : th'[u] = th[u]
           /\ Packs' <=> IF t = Sender THEN v.pc \in PackPcs ELSE Packs
           /\ Calmed' = [Calmed EXCEPT ![t] = IF t = Sender /\ v.pc \in PackPcs THEN Idle ELSE v]
<1>1. th'[t] = v /\ DOMAIN th' = Threads /\ \A u \in Threads \ {t} : th'[u] = th[u]
  OBVIOUS
<1>2. Packs' <=> IF t = Sender THEN v.pc \in PackPcs ELSE Packs
  BY <1>1, SenderAssumption DEF SenderAssumption, Packs
<1>3. Calmed' = [Calmed EXCEPT ![t] = IF t = Sender /\ v.pc \in PackPcs THEN Idle ELSE v]
  <2>1. Calmed' = [u \in Threads |-> IF u = Sender /\ Packs' THEN Idle ELSE th'[u]]
    BY DEF Calmed, Idle
  <2>2. ASSUME NEW u \in Threads
        PROVE  (IF u = Sender /\ Packs' THEN Idle ELSE th'[u])
                 = (IF u = t THEN IF t = Sender /\ v.pc \in PackPcs THEN Idle ELSE v
                    ELSE IF u = Sender /\ Packs THEN Idle ELSE th[u])
    BY <1>1, <1>2
  <2>3. [Calmed EXCEPT ![t] = IF t = Sender /\ v.pc \in PackPcs THEN Idle ELSE v]
          = [u \in Threads |-> IF u = t THEN IF t = Sender /\ v.pc \in PackPcs THEN Idle ELSE v
                               ELSE IF u = Sender /\ Packs THEN Idle ELSE th[u]]
    BY DEF Calmed
  <2> QED
    BY <2>1, <2>2, <2>3
<1> QED
  BY <1>1, <1>2, <1>3

\* The sender packs on, or ends a packet.
LEMMA CalmAfter ==
    ASSUME NEW v, DOMAIN th = Threads, th' = [th EXCEPT ![Sender] = v]
    PROVE  /\ th'[Sender] = v /\ \A u \in Threads \ {Sender} : th'[u] = th[u]
           /\ Packs' <=> v.pc \in PackPcs
BY CalmMoves, SenderAssumption DEF SenderAssumption

\* Calm sees a thread in SendOpcode as it is.
LEMMA CallSeen ==
    ASSUME NEW t \in Threads, NEW v, DOMAIN th = Threads, th' = [th EXCEPT ![t] = v],
           v.pc \in CallPcs, th[t].pc \in CallPcs
    PROVE  /\ Calmed[t] = th[t] /\ Calmed' = [Calmed EXCEPT ![t] = v]
           /\ th'[t] = v /\ \A u \in Threads \ {t} : th'[u] = th[u]
           /\ (Packs' <=> Packs) /\ (Packs => t # Sender)
<1>1. v.pc \notin PackPcs /\ (t = Sender => ~Packs)
  BY DEF CallPcs, PackPcs, Packs
<1>2. Calmed[t] = th[t]
  BY <1>1 DEF Calmed
<1> QED
  BY <1>1, <1>2, CalmMoves

\* What is copied into a buffer is found there, behind what was in front of it.
LEMMA PutThere ==
    ASSUME NEW buffer \in Seq(Byte), NEW offset \in 0..Len(buffer), NEW bytes \in Seq(Byte)
    PROVE  /\ Put(buffer, offset, bytes) \in Seq(Byte)
           /\ offset + Len(bytes) <= Len(Put(buffer, offset, bytes))
           /\ SubSeq(Put(buffer, offset, bytes), 1, offset + Len(bytes))
                  = SubSeq(buffer, 1, offset) \o bytes
<1> DEFINE end == offset + Len(bytes)
           top == IF end > Len(buffer) THEN end ELSE Len(buffer)
           put == Put(buffer, offset, bytes)
<1>1. /\ Len(buffer) \in Nat /\ Len(bytes) \in Nat /\ end \in Nat /\ top \in Nat
      /\ end <= top /\ Len(buffer) <= top /\ offset <= Len(buffer) /\ offset \in Nat
  OBVIOUS
<1>2. \A i \in 1..top : put[i] = IF i \in offset + 1..end THEN bytes[i - offset]
                                ELSE IF i <= Len(buffer) THEN buffer[i] ELSE NoByte
  BY DEF Put
<1>3. DOMAIN put = 1..top /\ put = [i \in 1..top |-> put[i]]
  BY DEF Put
<1>4. NoByte \in Byte
  BY SizesAssumption DEF NoByte, Byte, SizesAssumption
<1> HIDE DEF put, end, top
<1>5. \A i \in 1..top : put[i] \in Byte
  <2> TAKE i \in 1..top
  <2>1. CASE i \in offset + 1..end
    <3>1. i - offset \in 1..Len(bytes)
      BY <1>1, <2>1 DEF end
    <3>2. bytes[i - offset] \in Byte
      BY <3>1
    <3> QED
      BY <1>2, <2>1, <3>2
  <2>2. CASE i \notin offset + 1..end
    BY <1>1, <1>2, <1>4, <2>2
  <2> QED
    BY <2>1, <2>2
<1>6. put \in Seq(Byte) /\ Len(put) = top
  <2>1. put \in [1..top -> Byte]
    BY <1>3, <1>5
  <2> HIDE DEF Byte
  <2> QED
    BY <1>1, <2>1, Calm!SeqOfLength
<1>7. SubSeq(put, 1, end) = SubSeq(buffer, 1, offset) \o bytes
  <2> DEFINE a == SubSeq(put, 1, end)
             b == SubSeq(buffer, 1, offset)
             c == b \o bytes
  <2>1. /\ a \in Seq(Byte) /\ Len(a) = end
        /\ \A i \in 1..end : a[i] = put[i]
    BY <1>1, <1>6
  <2>2. b \in Seq(Byte) /\ Len(b) = offset /\ \A i \in 1..offset : b[i] = buffer[i]
    BY <1>1
  <2> HIDE DEF a, b
  <2>3. /\ c \in Seq(Byte) /\ Len(c) = end
        /\ \A i \in 1..end : c[i] = IF i <= offset THEN b[i] ELSE bytes[i - offset]
    BY <1>1, <2>2 DEF end
  <2> HIDE DEF c
  <2>4. \A i \in 1..end : a[i] = c[i]
    <3> TAKE i \in 1..end
    <3>1. i \in 1..top
      BY <1>1
    <3>2. CASE i <= offset
      BY <1>1, <1>2, <2>1, <2>2, <2>3, <3>1, <3>2
    <3>3. CASE ~(i <= offset)
      BY <1>1, <1>2, <2>1, <2>3, <3>1, <3>3
    <3> QED
      BY <3>2, <3>3
  <2>5. a = c
    BY <1>1, <2>1, <2>3, <2>4, SeqEqual
  <2> QED
    BY <2>5 DEF a, b, c
<1> QED
  BY <1>1, <1>6, <1>7 DEF end, put

-----------------------------------------------------------------------------
(* The steps of the send queue, as Calm sees them                          *)

CalmStands ==
    /\ slot' = slot /\ rd' = rd /\ wr' = wr /\ count' = count /\ entry' = entry
    /\ entryIdx' = entryIdx /\ cell' = cell /\ writePtr' = writePtr
    /\ sent' = sent /\ taken' = taken

LEMMA SendOpcodeCalm ==
    ASSUME DOMAIN th = Threads, NEW t \in Threads, NEW k \in Queues, SendOpcode(t, k)
    PROVE  Calm!Admit(t, k)
<1> DEFINE v == [pc |-> "entry", q |-> k, msg |-> sent + 1]
<1>1. Admit(t, k)
  BY DEF SendOpcode
<1>2. th[t] = Idle /\ th' = [th EXCEPT ![t] = v] /\ v.pc \in CallPcs /\ th[t].pc \in CallPcs
  BY <1>1 DEF Admit, Idle, CallPcs
<1> HIDE DEF v
<1>3. Calmed[t] = Idle /\ Calmed' = [Calmed EXCEPT ![t] = v]
  BY <1>2, CallSeen
<1> QED
  BY <1>1, <1>3 DEF Admit, Calm!Admit, Calm!Idle, Idle, v, Calm!queueVars, Calm!bufferVars,
                    queueVars, bufferVars

LEMMA AddEntryCalm ==
    ASSUME DOMAIN th = Threads, NEW t \in Threads, AddEntry(t)
    PROVE  Calm!GetNextEntry(t)
<1> DEFINE v == [pc |-> "write", q |-> th[t].q, msg |-> th[t].msg, e |-> entryIdx]
<1>1. GetNextEntry(t)
  BY DEF AddEntry
<1>2. th[t].pc = "entry" /\ th' = [th EXCEPT ![t] = v] /\ v.pc \in CallPcs /\ th[t].pc \in CallPcs
  BY <1>1 DEF GetNextEntry, CallPcs
<1> HIDE DEF v
<1>3. Calmed[t] = th[t] /\ Calmed' = [Calmed EXCEPT ![t] = v]
  BY <1>2, CallSeen
<1> QED
  BY <1>1, <1>2, <1>3 DEF GetNextEntry, Calm!GetNextEntry, v, Calm!queueVars, queueVars,
                    Calm!Step, Step

LEMMA AddBytesCalm ==
    ASSUME SendFits, DOMAIN th = Threads, NEW t \in Threads, AddBytes(t), th[t].msg \in 1..Total,
           SubSeq(form[th[t].q], 1, Length[th[t].msg]) = Bytes(th[t].msg)
    PROVE  Calm!Write(t)
<1> DEFINE v == [th[t] EXCEPT !.pc = "publish"]
<1>1. WriteBytes(t, Bytes(th[t].msg))
  BY DEF AddBytes
<1>2. th[t].pc = "write" /\ th' = [th EXCEPT ![t] = v]
  BY <1>1 DEF WriteBytes
<1>3. v.pc \in CallPcs /\ th[t].pc \in CallPcs
  BY <1>2 DEF CallPcs
<1> HIDE DEF v
<1>4. Calmed[t] = th[t] /\ Calmed' = [Calmed EXCEPT ![t] = v]
  BY <1>2, <1>3, CallSeen
<1>5. Calm!Bytes(Calmed[t].msg) = Bytes(th[t].msg)
  BY <1>4, CalmIs
<1>6. Calm!WriteBytes(t, Bytes(th[t].msg))
  BY <1>1, <1>2, <1>4 DEF WriteBytes, Calm!WriteBytes, v, Calm!queueVars, queueVars,
                    Calm!Advance, Advance, Calm!Entry, Entry
<1> QED
  BY <1>5, <1>6 DEF Calm!Write

LEMMA AddSlotCalm ==
    ASSUME DOMAIN th = Threads, NEW t \in Threads, AddSlot(t)
    PROVE  Calm!Publish(t) /\ Calmed[t] = th[t]
<1>1. Publish(t)
  BY DEF AddSlot
<1>2. th[t].pc = "publish" /\ th' = [th EXCEPT ![t] = Idle]
  BY <1>1 DEF Publish
<1>3. Calmed[t] = th[t] /\ Calmed' = [Calmed EXCEPT ![t] = Idle]
  BY <1>2, CallSeen DEF Idle, CallPcs
<1> QED
  BY <1>1, <1>2, <1>3 DEF Publish, Calm!Publish, Calm!bufferVars, bufferVars,
                    Calm!Step, Step, Calm!Idle, Idle

\* Calm sees nothing of a step that packs, but what it takes from the queue.
LEMMA PackingStands ==
    ASSUME DOMAIN th = Threads, NEW v, th' = [th EXCEPT ![Sender] = v],
           v = Idle \/ v.pc \in PackPcs, th[Sender] = Idle \/ Packs
    PROVE  Calmed' = Calmed /\ Calmed[Sender] = Idle
<1>1. Sender \in Threads
  BY SenderAssumption DEF SenderAssumption
<1>2. Calmed[Sender] = Idle
  BY <1>1 DEF Calmed
<1>3. Calmed' = [Calmed EXCEPT ![Sender] = Idle]
  BY <1>1, CalmMoves
<1>4. [Calmed EXCEPT ![Sender] = Idle] = Calmed
  BY <1>1, <1>2 DEF Calmed
<1> QED
  BY <1>2, <1>3, <1>4

LEMMA StandsCalm ==
    ASSUME CalmStands, Calmed' = Calmed
    PROVE  Calm!Stands
BY DEF CalmStands, Calm!Stands, Calm!vars, Calm!queueVars, Calm!bufferVars

LEMMA TakeCalm ==
    ASSUME NEW k \in Queues, CheckQueue(k, Room), sent' = sent,
           Calmed' = Calmed, Calmed[Sender] = Idle
    PROVE  Sender \in Threads /\ Calm!Take(Sender, k)
<1>1. Calm!Null = Null /\ \A e : Calm!Read(e) = Read(e)
  BY DEF Calm!Null, Null, Calm!Read, Read
<1>2. Calm!CheckQueue(k, Room)
  BY <1>1 DEF CheckQueue, Calm!CheckQueue, Calm!Entry, Entry, Calm!Step, Step, Calm!Null, Null
<1> QED
  BY <1>2, SenderAssumption DEF Calm!Take, Calm!Idle, Idle, SenderAssumption

-----------------------------------------------------------------------------
(* The steps of the send queue keep SendInv                                *)

LEMMA BytesAre ==
    ASSUME NEW m \in 1..Total
    PROVE  Bytes(m) \in Seq(Byte) /\ Len(Bytes(m)) = Length[m] /\ Length[m] \in Nat \ {0}
<1>1. Length[m] \in Nat \ {0} /\ Total \in Nat
  BY SizesAssumption DEF SizesAssumption
<1>2. \A i \in 1..Length[m] : <<m, i>> \in Byte
  BY <1>1 DEF Byte
<1> HIDE DEF Byte
<1>3. Bytes(m) \in [1..Length[m] -> Byte]
  BY <1>2 DEF Bytes
<1> QED
  BY <1>1, <1>3, Calm!SeqOfLength

LEMMA Shapes ==
    ASSUME SendShape, NEW t \in Threads
    PROVE  /\ th[t].pc = "idle" <=> th[t] = Idle
           /\ th[t].pc \in CallPcs => th[t] \in Calls
           /\ th[t].pc \in {"entry", "write", "publish"} =>
                 th[t].q \in Queues /\ th[t].msg \in 1..Total
           /\ th[t].pc \in {"write", "publish"} => th[t].e \in EntryIds
           /\ th[t].pc \in PackPcs => th[t].q \in Queues /\ th[t].cumulative \in 0..Cache
<1> DEFINE c == th[t]
           Shape == /\ c.pc = "idle" <=> c = Idle
                    /\ c.pc \in {"entry", "write", "publish"} =>
                          c.q \in Queues /\ c.msg \in 1..Total
                    /\ c.pc \in {"write", "publish"} => c.e \in EntryIds
                    /\ c.pc \in PackPcs => c.q \in Queues /\ c.cumulative \in 0..Cache
<1>1. c \in Calls \cup Packings /\ c.pc \in CallPcs \cup PackPcs
  BY DEF SendShape
<1> HIDE DEF c
<1>2. ASSUME c = Idle PROVE Shape
  BY <1>1, <1>2 DEF Idle, PackPcs
<1>3. ASSUME c \in [pc : {"entry"}, q : Queues, msg : 1..Total] PROVE Shape
  BY <1>1, <1>3 DEF Idle, PackPcs
<1>4. ASSUME c \in [pc : {"write", "publish"}, q : Queues, msg : 1..Total, e : EntryIds]
      PROVE  Shape
  BY <1>1, <1>4 DEF Idle, PackPcs
<1>5. c \notin [pc : {"reset rd", "reset wr"}, q : Queues]
  BY <1>1 DEF CallPcs, PackPcs
<1>6. ASSUME c \in Packings PROVE Shape
  <2>1. c.pc \in PackPcs /\ c.q \in Queues /\ c.cumulative \in 0..Cache
    BY <1>6 DEF Packings
  <2>2. c.pc \notin {"idle", "entry", "write", "publish"} /\ c # Idle
    BY <2>1 DEF PackPcs, Idle
  <2> QED
    BY <2>1, <2>2
<1>7. c.pc \in CallPcs => c \in Calls
  BY <1>1 DEF Packings, CallPcs, PackPcs
<1>8. Shape
  BY <1>1, <1>2, <1>3, <1>4, <1>5, <1>6 DEF Calls
<1> QED
  BY <1>7, <1>8 DEF c

LEMMA SenderShapes ==
    ASSUME SendShape
    PROVE  /\ DOMAIN th = Threads /\ Sender \in Threads
           /\ th[Sender].pc = "idle" <=> th[Sender] = Idle
           /\ Packs => th[Sender].q \in Queues /\ Cumulative \in 0..Cache /\ Cache \in Nat \ {0}
<1>1. DOMAIN th = Threads /\ Sender \in Threads /\ Cache \in Nat \ {0}
  BY SenderAssumption DEF SendShape, SenderAssumption
<1> QED
  BY <1>1, Shapes DEF Packs, Cumulative

PassedAt(k) == FlattenSeq(taken[k]) = (FlattenSeq(out[k]) \o InHand(k)) \o split[k]

\* A call that only prepares its message.
LEMMA CallKeeps ==
    ASSUME SendInv, OneWorks', Calm!QueueInv', NEW t \in Threads, th[t].pc \in CallPcs,
           NEW k \in Queues, NEW v \in Calls, v.pc \in CallPcs, v # Idle, v.q = k,
           th' = [th EXCEPT ![t] = v],
           Calm!Pending' = Calm!Pending, taken' = taken, order' = order, out' = out,
           split' = split, form' \in [Queues -> Seq(Byte)],
           \A l \in Queues \ {k} : form'[l] = form[l], FormedBy(t)'
    PROVE  SendInv'
<1>1. SendShape /\ Formed /\ Accounted /\ Passed /\ InPacket /\ DOMAIN th = Threads
  BY SenderShapes DEF SendInv
<1>2. /\ th'[t] = v /\ \A u \in Threads \ {t} : th'[u] = th[u]
      /\ (Packs' <=> Packs) /\ (Packs => t # Sender)
  BY <1>1, CallSeen
<1>3. SendShape'
  <2>1. \A u \in Threads : th'[u].pc \in CallPcs \/ (u = Sender /\ th'[u].pc \in PackPcs)
    BY <1>1, <1>2 DEF SendShape
  <2> QED
    BY <1>1, <2>1 DEF SendShape
<1>4. ASSUME NEW u \in Threads, u # t, th[u].pc # "idle", th[u].q \in Queues
      PROVE  th'[u] = th[u] /\ form'[th[u].q] = form[th[u].q]
  <2>1. th'[u] = th[u] /\ th'[u] # Idle /\ th'[t] # Idle /\ th'[t].q = k
    BY <1>2, <1>4 DEF Idle
  <2>2. th[u].q # k
    BY <1>4, <2>1 DEF OneWorks, WorksFor, Idle
  <2> QED
    BY <1>4, <2>1, <2>2
<1>5. Packs => /\ th'[Sender] = th[Sender] /\ form'[th[Sender].q] = form[th[Sender].q]
               /\ th[Sender].q \in Queues
  <2>1. Packs => th[Sender].pc # "idle" /\ th[Sender].q \in Queues /\ Sender # t /\ Sender \in Threads
    BY <1>1, <1>2, SenderShapes DEF Packs, PackPcs
  <2> QED
    BY <1>4, <2>1
<1>6. Formed'
  <2>1. ASSUME NEW u \in Threads, u # t PROVE FormedBy(u)'
    <3>1. th'[u] = th[u] /\ FormedBy(u)
      BY <1>1, <1>2, <2>1 DEF Formed
    <3>2. CASE th[u].pc \in {"entry", "write"}
      <4>1. th[u].q \in Queues /\ th[u].pc # "idle"
        BY <1>1, <3>2, Shapes
      <4>2. form'[th[u].q] = form[th[u].q]
        BY <1>4, <2>1, <4>1
      <4> QED
        BY <3>1, <4>2 DEF FormedBy, Bytes
    <3>3. CASE th[u].pc \notin {"entry", "write"}
      BY <3>1, <3>3 DEF FormedBy
    <3> QED
      BY <3>2, <3>3
  <2> QED
    BY <2>1 DEF Formed
<1>7. Accounted'
  BY <1>1 DEF Accounted, Queued, Bytes
<1>8. Passed'
  <2>1. ASSUME NEW l \in Queues PROVE InHand(l)' = InHand(l)
    <3>1. CASE Packs
      BY <1>2, <1>5, <3>1 DEF InHand, Cumulative
    <3>2. CASE ~Packs
      BY <1>2, <3>2 DEF InHand
    <3> QED
      BY <3>1, <3>2
  <2> QED
    BY <1>1, <2>1 DEF Passed
<1>9. InPacket'
  <2>1. CASE Packs
    BY <1>1, <1>2, <1>5, <2>1 DEF InPacket, Cumulative
  <2>2. CASE ~Packs
    BY <1>2, <2>2 DEF InPacket
  <2> QED
    BY <2>1, <2>2
<1> QED
  BY <1>3, <1>6, <1>7, <1>8, <1>9 DEF SendInv

LEMMA SendOpcodeKeeps ==
    ASSUME SendFits, SendInv, OneWorks', NEW t \in Threads, NEW k \in Queues, SendOpcode(t, k)
    PROVE  SendInv'
<1> DEFINE v == [pc |-> "entry", q |-> k, msg |-> sent + 1]
<1>1. SendShape /\ Calm!QueueInv /\ DOMAIN th = Threads
  BY SenderShapes DEF SendInv
<1>2. Calm!QueueInv' /\ Calm!Pending' = Calm!Pending /\ taken' = taken
  BY <1>1, SendOpcodeCalm, CalmIs, Calm!AdmitKeeps
<1>3. /\ th[t] = Idle /\ th' = [th EXCEPT ![t] = v] /\ sent < Total
      /\ form' = [form EXCEPT ![k] = Put(@, 0, Bytes(sent + 1))]
      /\ split' = split /\ out' = out /\ order' = order
  BY DEF SendOpcode, Admit
<1>4. sent + 1 \in 1..Total
  <2>1. sent \in 0..Total /\ Total \in Nat
    BY <1>1, SizesAssumption DEF Calm!QueueInv, Calm!ShapeInv, SizesAssumption
  <2> QED
    BY <1>3, <2>1
<1>5. v \in Calls /\ v.pc \in CallPcs /\ v # Idle /\ v.q = k /\ th[t].pc \in CallPcs
  <2>1. v \in [pc : {"entry"}, q : Queues, msg : 1..Total] /\ v.pc = "entry" /\ v.q = k
    BY <1>4
  <2> HIDE DEF v
  <2>2. v \in Calls
    BY <2>1 DEF Calls
  <2>3. th[t].pc \in CallPcs
    BY <1>3 DEF CallPcs, Idle
  <2> QED
    BY <2>1, <2>2, <2>3 DEF CallPcs, Idle
<1>6. PICK m \in 1..Total : m = sent + 1
  BY <1>4
<1>7. /\ Put(form[k], 0, Bytes(m)) \in Seq(Byte)
      /\ Length[m] <= Len(Put(form[k], 0, Bytes(m)))
      /\ SubSeq(Put(form[k], 0, Bytes(m)), 1, Length[m]) = Bytes(m)
  <2> DEFINE f == form[k]
             b == Bytes(m)
             p == Put(f, 0, b)
  <2>1. f \in Seq(Byte) /\ b \in Seq(Byte) /\ Len(b) = Length[m]
    BY <1>1, <1>6, BytesAre DEF SendShape
  <2> HIDE DEF f, b, p
  <2>2. 0 \in 0..Len(f) /\ 0 + Len(b) = Len(b) /\ SubSeq(f, 1, 0) \o b = b
    BY <2>1
  <2>3. p \in Seq(Byte) /\ 0 + Len(b) <= Len(p) /\ SubSeq(p, 1, 0 + Len(b)) = SubSeq(f, 1, 0) \o b
    BY <2>1, <2>2, PutThere DEF p
  <2> QED
    BY <2>1, <2>2, <2>3 DEF f, b, p
<1>8. form' \in [Queues -> Seq(Byte)] /\ form'[k] = Put(form[k], 0, Bytes(m))
  BY <1>1, <1>3, <1>6, <1>7 DEF SendShape
<1>9. th'[t] = v /\ \A l \in Queues \ {k} : form'[l] = form[l]
  BY <1>1, <1>3 DEF SendShape
<1>10. FormedBy(t)'
  <2>1. th'[t].q = k /\ th'[t].msg = m
    BY <1>6, <1>9
  <2>2. Length[m] <= Len(form'[k]) /\ SubSeq(form'[k], 1, Length[m]) = Bytes(m)
    BY <1>7, <1>8
  <2> QED
    BY <2>1, <2>2 DEF FormedBy, Bytes
<1> HIDE DEF v
<1> QED
  BY <1>2, <1>3, <1>5, <1>8, <1>9, <1>10, CallKeeps

LEMMA AddEntryKeeps ==
    ASSUME SendFits, SendInv, OneWorks', NEW t \in Threads, AddEntry(t)
    PROVE  SendInv'
<1> DEFINE v == [pc |-> "write", q |-> th[t].q, msg |-> th[t].msg, e |-> entryIdx]
<1>1. SendShape /\ Formed /\ Calm!QueueInv /\ DOMAIN th = Threads /\ SizesAssumption
  BY SenderShapes, SizesAssumption DEF SendInv
<1>2. Calm!QueueInv' /\ Calm!Pending' = Calm!Pending /\ taken' = taken
  BY <1>1, AddEntryCalm, CalmIs, Calm!GetNextEntryKeeps
<1>3. /\ th[t].pc = "entry" /\ th' = [th EXCEPT ![t] = v]
      /\ form' = form /\ split' = split /\ out' = out /\ order' = order
  BY DEF AddEntry, GetNextEntry, packetVars
<1>4. entryIdx \in EntryIds
  BY <1>1, CalmIs DEF Calm!QueueInv, Calm!ShapeInv, Calm!EntryIds, EntryIds
<1>5. /\ v \in Calls /\ v.pc \in CallPcs /\ v # Idle /\ v.q = th[t].q /\ v.q \in Queues
      /\ th[t].pc \in CallPcs
  BY <1>1, <1>3, <1>4, Shapes DEF Calls, CallPcs, Idle
<1>6. th'[t] = v
  BY <1>1, <1>3
<1>7. FormedBy(t)'
  <2> DEFINE k == th[t].q
             m == th[t].msg
  <2>1. Length[m] <= Len(form[k]) /\ SubSeq(form[k], 1, Length[m]) = Bytes(m)
    BY <1>1, <1>3 DEF Formed, FormedBy
  <2>2. th'[t].q = k /\ th'[t].msg = m
    BY <1>6
  <2> HIDE DEF k, m
  <2> QED
    BY <1>3, <2>1, <2>2 DEF FormedBy, Bytes
<1>8. form' \in [Queues -> Seq(Byte)]
  BY <1>1, <1>3 DEF SendShape
<1> HIDE DEF v
<1> QED
  BY <1>2, <1>3, <1>5, <1>7, <1>8, CallKeeps

LEMMA AddBytesKeeps ==
    ASSUME SendFits, SendInv, OneWorks', Calm!Roomy, Calm!Roomy', NEW t \in Threads, AddBytes(t)
    PROVE  SendInv'
<1> DEFINE v == [th[t] EXCEPT !.pc = "publish"]
<1>1. SendShape /\ Formed /\ Calm!QueueInv /\ DOMAIN th = Threads
  BY SenderShapes DEF SendInv
<1>2. /\ th[t].pc = "write" /\ th' = [th EXCEPT ![t] = v]
      /\ form' = form /\ split' = split /\ out' = out /\ order' = order
  BY DEF AddBytes, WriteBytes, packetVars
<1>3. th[t].q \in Queues /\ th[t].msg \in 1..Total
  BY <1>1, <1>2, Shapes
<1>4. Calm!Write(t)
  BY <1>1, <1>2, <1>3, AddBytesCalm DEF Formed, FormedBy
<1>5. Calm!QueueInv' /\ Calm!Pending' = Calm!Pending /\ taken' = taken
  BY <1>1, <1>4, CalmIs, Calm!WriteKeeps
<1>6. v \in Calls /\ v.pc = "publish" /\ v.q = th[t].q /\ th[t].pc \in CallPcs
  <2>1. th[t] \in Calls /\ th[t].pc \in CallPcs
    BY <1>1, <1>2, Shapes DEF CallPcs
  <2>2. PICK c \in Calls : c = th[t]
    BY <2>1
  <2>3. c.pc = "write"
    BY <1>2, <2>2
  <2>4. c \in [pc : {"write", "publish"}, q : Queues, msg : 1..Total, e : EntryIds]
    <3>1. c # Idle
      BY <2>3 DEF Idle
    <3>2. c \notin [pc : {"entry"}, q : Queues, msg : 1..Total]
      BY <2>3
    <3>3. c \notin [pc : {"reset rd", "reset wr"}, q : Queues]
      BY <2>3
    <3> QED
      BY <2>2, <3>1, <3>2, <3>3, Zenon DEF Calls
  <2>5. v = [c EXCEPT !.pc = "publish"]
    BY <2>2
  <2> HIDE DEF v
  <2>6. v \in [pc : {"write", "publish"}, q : Queues, msg : 1..Total, e : EntryIds] /\ v.pc = "publish" /\ v.q = c.q
    BY <2>4, <2>5
  <2> QED
    BY <2>1, <2>2, <2>6 DEF Calls
<1>7. th'[t] = v /\ v.pc \in CallPcs /\ v # Idle
  BY <1>1, <1>2, <1>6 DEF CallPcs, Idle
<1>8. FormedBy(t)'
  BY <1>6, <1>7 DEF FormedBy
<1>9. form' \in [Queues -> Seq(Byte)]
  BY <1>1, <1>2 DEF SendShape
<1> HIDE DEF v
<1> QED
  BY <1>2, <1>3, <1>5, <1>6, <1>7, <1>8, <1>9, CallKeeps

\* What waits in the queue, as the sender finds it.
LEMMA CalmPending ==
    ASSUME SendFits, SendInv, NEW k \in Queues
    PROVE  /\ DOMAIN Calm!Pending = Queues /\ Calm!Pending[k] \in Seq(Seq(Byte))
           /\ Calm!Pending[k] = <<>> => rd[k] = wr[k] /\ NextSize(k) = 0
           /\ Calm!Pending[k] # <<>> =>
                 /\ rd[k] # wr[k] /\ slot[k][rd[k]] \in EntryIds /\ slot[k][rd[k]] # Null
                 /\ Read(slot[k][rd[k]]) = Head(Calm!Pending[k])
                 /\ NextSize(k) = Len(Head(Calm!Pending[k]))
                 /\ NextSize(k) = entry[slot[k][rd[k]]].length
                 /\ Head(Calm!Pending[k]) \in Seq(Byte)
                 /\ Len(Head(Calm!Pending[k])) \in Nat \ {0}
                 /\ Len(Head(Calm!Pending[k])) <= Room
<1>1. Calm!SizesAssumption /\ Calm!QueueInv /\ SendShape
  BY CalmIs DEF SendInv
<1>2. ~Calm!Resetting(k)
  <2>1. \A t \in Threads : th[t].pc \in CallPcs \/ (t = Sender /\ th[t].pc \in PackPcs)
    BY <1>1 DEF SendShape
  <2>2. \A t \in Threads : Calmed[t].pc \notin {"reset rd", "reset wr"}
    BY <2>1 DEF Calmed, Packs, PackPcs, CallPcs, Idle
  <2> QED
    BY <2>2 DEF Calm!Resetting
<1>3. /\ Calm!Pending[k] \in Seq({Calm!Bytes(m) : m \in 1..Total})
      /\ {Calm!Bytes(m) : m \in 1..Total} \subseteq Seq(Byte)
  <2>1. \A m \in 1..Total : Calm!Bytes(m) \in Seq(Byte)
    BY CalmIs, BytesAre
  <2> QED
    BY <1>1, <1>2, <2>1, Calm!PendingIsWaiting
<1>4. Calm!Pending[k] \in Seq(Seq(Byte)) /\ DOMAIN Calm!Pending = Queues
  <2> DEFINE A == {Calm!Bytes(m) : m \in 1..Total}
             B == Seq(Byte)
             p == Calm!Pending[k]
  <2>1. p \in Seq(A) /\ A \subseteq B
    BY <1>3
  <2>2. DOMAIN Calm!Pending = Queues
    BY DEF Calm!Pending
  <2> HIDE DEF A, B, p
  <2>3. p \in Seq(B)
    BY <2>1, SeqMonotonic
  <2> QED
    BY <2>2, <2>3 DEF B, p
<1>5. CASE Calm!Pending[k] = <<>>
  BY <1>1, <1>2, <1>4, <1>5, CalmIs, Calm!OldestIs
<1>6. CASE Calm!Pending[k] # <<>>
  <2>1. /\ rd[k] # wr[k] /\ slot[k][rd[k]] \in Calm!EntryIds /\ slot[k][rd[k]] # Calm!Null
        /\ Calm!Read(slot[k][rd[k]]) = Head(Calm!Pending[k])
        /\ Calm!NextSize(k) = Len(Head(Calm!Pending[k]))
        /\ Calm!NextSize(k) = entry[slot[k][rd[k]]].length
        /\ \E m \in 1..Total : Head(Calm!Pending[k]) = Calm!Bytes(m)
    BY <1>1, <1>2, <1>6, Calm!OldestIs
  <2>2. PICK m \in 1..Total : Head(Calm!Pending[k]) = Bytes(m)
    BY <2>1, CalmIs
  <2>3. Bytes(m) \in Seq(Byte) /\ Len(Bytes(m)) \in Nat \ {0} /\ Len(Bytes(m)) <= Room
    BY BytesAre DEF SendFits
  <2> QED
    BY <1>4, <1>6, <2>1, <2>2, <2>3, CalmIs
<1> QED
  BY <1>5, <1>6

BytesOf(o) == [i \in 1..Len(o) |-> Bytes(o[i])]

\* A message joins those queued.
LEMMA QueuedAppend ==
    ASSUME NEW o \in Seq(1..Total), NEW m \in 1..Total
    PROVE  BytesOf(o) \in Seq(Seq(Byte)) /\ BytesOf(Append(o, m)) = Append(BytesOf(o), Bytes(m))
<1> DEFINE B == Seq(Byte)
           a == BytesOf(o)
           p == Append(o, m)
           c == BytesOf(p)
           x == Bytes(m)
<1>1. p \in Seq(1..Total) /\ Len(p) = Len(o) + 1 /\ p[Len(p)] = m /\ \A i \in 1..Len(o) : p[i] = o[i]
  BY AppendProperties
<1> HIDE DEF p
<1>2. \A j \in 1..Total : Bytes(j) \in B
  BY BytesAre
<1> HIDE DEF B
<1>3. a \in Seq(B) /\ Len(a) = Len(o) /\ x \in B
  <2>0. Len(o) \in Nat /\ \A i \in 1..Len(o) : o[i] \in 1..Total
    <3> DEFINE N == 1..Total
    <3>1. o \in Seq(N)
      OBVIOUS
    <3> HIDE DEF N
    <3>2. Len(o) \in Nat /\ \A i \in 1..Len(o) : o[i] \in N
      BY <3>1
    <3> QED
      BY <3>2 DEF N
  <2>1. a \in [1..Len(o) -> B] /\ Len(o) \in Nat
    BY <1>2, <2>0 DEF BytesOf
  <2> HIDE DEF a
  <2> QED
    BY <1>2, <2>1, Calm!SeqOfLength
<1>4. c \in Seq(B) /\ Len(c) = Len(p)
  <2>0. Len(p) \in Nat /\ \A i \in 1..Len(p) : p[i] \in 1..Total
    <3> DEFINE N == 1..Total
    <3>1. p \in Seq(N)
      BY <1>1
    <3> HIDE DEF N
    <3>2. Len(p) \in Nat /\ \A i \in 1..Len(p) : p[i] \in N
      BY <3>1
    <3> QED
      BY <3>2 DEF N
  <2>1. c \in [1..Len(p) -> B] /\ Len(p) \in Nat
    BY <1>2, <2>0 DEF BytesOf
  <2> HIDE DEF c
  <2> QED
    BY <2>1, Calm!SeqOfLength
<1>5. \A i \in 1..Len(a) : c[i] = a[i]
  BY <1>1, <1>3 DEF BytesOf
<1>6. c[Len(c)] = x
  BY <1>1, <1>4 DEF BytesOf
<1> HIDE DEF a, c, x
<1>7. c = Append(a, x)
  <2>1. Append(a, x) \in Seq(B) /\ Len(Append(a, x)) = Len(a) + 1 /\ Append(a, x)[Len(a) + 1] = x
        /\ \A i \in 1..Len(a) : Append(a, x)[i] = a[i]
    BY <1>3, AppendProperties
  <2>2. Len(c) = Len(a) + 1 /\ Len(a) \in Nat
    BY <1>1, <1>3, <1>4
  <2>3. \A i \in 1..Len(c) : c[i] = Append(a, x)[i]
    BY <1>5, <1>6, <2>1, <2>2
  <2> QED
    BY <1>4, <2>1, <2>2, <2>3, SeqEqual
<1> QED
  BY <1>3, <1>7 DEF a, B, c, p, x

LEMMA AddSlotKeeps ==
    ASSUME SendFits, SendInv, OneWorks', Calm!Roomy, NEW t \in Threads, AddSlot(t)
    PROVE  SendInv'
<1>0. PICK k, m : k = th[t].q /\ m = th[t].msg
  OBVIOUS
<1>1. /\ SendShape /\ Calm!QueueInv /\ DOMAIN th = Threads /\ Accounted /\ Passed
      /\ Formed /\ InPacket /\ OneWorks
  BY SenderShapes DEF SendInv
<1>2. /\ th[t].pc = "publish" /\ th' = [th EXCEPT ![t] = Idle]
      /\ order' = [order EXCEPT ![k] = Append(@, m)]
      /\ form' = form /\ split' = split /\ out' = out
  BY <1>0 DEF AddSlot, Publish, packetVars
<1>3. k \in Queues /\ m \in 1..Total
  BY <1>0, <1>1, <1>2, Shapes
<1>4. /\ Calm!QueueInv' /\ taken' = taken
      /\ Calm!Pending' = [Calm!Pending EXCEPT ![k] = Append(@, Bytes(m))]
  <2>1. Calm!Publish(t) /\ Calmed[t] = th[t]
    BY <1>1, AddSlotCalm
  <2>2. Calm!QueueInv' /\ Calm!Gains(k, Calm!Bytes(m))
    BY <1>0, <1>1, <2>1, CalmIs, Calm!PublishKeeps
  <2> QED
    BY <1>3, <2>2, CalmIs DEF Calm!Gains
<1>5. /\ th'[t] = Idle /\ \A u \in Threads \ {t} : th'[u] = th[u]
      /\ (Packs' <=> Packs) /\ (Packs => t # Sender)
  BY <1>1, <1>2, CallSeen DEF CallPcs, Idle
<1>6. SendShape'
  <2>1. order' \in [Queues -> Seq(1..Total)]
    BY <1>1, <1>2, <1>3 DEF SendShape
  <2>2. Idle \in Calls /\ th'[t].pc \in CallPcs
    BY <1>5 DEF Calls, Idle, CallPcs
  <2>3. \A u \in Threads : th'[u].pc \in CallPcs \/ (u = Sender /\ th'[u].pc \in PackPcs)
    BY <1>1, <1>5, <2>2 DEF SendShape
  <2> QED
    BY <1>1, <1>2, <1>4, <2>1, <2>2, <2>3 DEF SendShape
<1>7. Formed'
  <2>1. ASSUME NEW u \in Threads PROVE FormedBy(u)'
    <3>1. CASE u = t
      BY <1>5, <3>1 DEF FormedBy, Idle
    <3>2. CASE u # t
      BY <1>1, <1>2, <1>5, <3>2 DEF Formed, FormedBy, Bytes
    <3> QED
      BY <3>1, <3>2
  <2> QED
    BY <2>1 DEF Formed
<1>8. Passed' /\ InPacket'
  <2>1. CASE Packs
    <3>1. Sender \in Threads /\ th[Sender].q \in Queues /\ th'[Sender] = th[Sender]
      BY <1>1, <1>5, <2>1, SenderShapes
    <3>2. th[Sender].q # k
      <4>1. th[Sender] # Idle /\ th[t] # Idle
        BY <1>2, <2>1 DEF Packs, PackPcs, Idle
      <4> QED
        BY <1>0, <1>1, <1>3, <1>5, <2>1, <3>1, <4>1 DEF OneWorks, WorksFor
    <3>3. Calm!Pending'[th[Sender].q] = Calm!Pending[th[Sender].q]
      <4>1. DOMAIN Calm!Pending = Queues
        BY <1>3, CalmPending
      <4> QED
        BY <1>4, <3>1, <3>2, <4>1
    <3>4. InPacket'
      BY <1>1, <1>2, <1>5, <2>1, <3>1, <3>3 DEF InPacket, Cumulative
    <3>5. \A l \in Queues : InHand(l)' = InHand(l)
      BY <1>2, <1>5, <2>1, <3>1 DEF InHand, Cumulative
    <3> QED
      BY <1>1, <1>2, <1>4, <3>4, <3>5 DEF Passed
  <2>2. CASE ~Packs
    BY <1>1, <1>2, <1>4, <1>5, <2>2 DEF Passed, InHand, InPacket
  <2> QED
    BY <2>1, <2>2
<1>9. Accounted'
  <2>1. ASSUME NEW l \in Queues, l # k PROVE Queued(l)' = (taken[l] \o Calm!Pending[l])'
    <3>1. order'[l] = order[l] /\ Calm!Pending'[l] = Calm!Pending[l]
      BY <1>1, <1>2, <1>4, <2>1, CalmPending DEF SendShape
    <3> QED
      BY <1>1, <1>4, <3>1 DEF Accounted, Queued, Bytes
  <2>2. Queued(k)' = (taken[k] \o Calm!Pending[k])'
    <3>0. PICK o, x, p, a : o = order[k] /\ x = Bytes(m) /\ p = Calm!Pending[k] /\ a = taken[k]
      OBVIOUS
    <3>1. o \in Seq(1..Total) /\ order'[k] = Append(o, m) /\ Calm!Pending'[k] = Append(p, x)
          /\ p \in Seq(Seq(Byte)) /\ a \in Seq(Seq(Byte)) /\ x \in Seq(Byte)
      BY <1>1, <1>2, <1>3, <1>4, <3>0, CalmPending, BytesAre DEF SendShape
    <3>2. BytesOf(o) = a \o p
      BY <1>1, <1>3, <3>0 DEF Accounted, Queued, BytesOf
    <3>3. BytesOf(Append(o, m)) = Append(a \o p, x)
      BY <1>3, <3>0, <3>1, <3>2, QueuedAppend
    <3>4. Append(a \o p, x) = a \o Append(p, x)
      <4> DEFINE B == Seq(Byte)
      <4>1. a \in Seq(B) /\ p \in Seq(B) /\ x \in B
        BY <3>1
      <4> HIDE DEF B
      <4> QED
        BY <4>1
    <3>5. Queued(k)' = BytesOf(Append(o, m))
      BY <3>1 DEF Queued, BytesOf, Bytes
    <3> QED
      BY <1>4, <3>0, <3>1, <3>3, <3>4, <3>5
  <2> QED
    BY <2>1, <2>2 DEF Accounted
<1> QED
  BY <1>4, <1>6, <1>7, <1>8, <1>9 DEF SendInv

\* Nothing is formed, sent, read or split for another player.
Elsewhere(k) == \A l \in Queues \ {k} :
    form'[l] = form[l] /\ out'[l] = out[l] /\ split'[l] = split[l] /\ taken'[l] = taken[l]

\* A step of SendPacketCache for k.
LEMMA PackKeeps ==
    ASSUME SendInv, OneWorks', Calm!QueueInv', Accounted', NEW k \in Queues,
           NEW v \in {Idle} \cup Packings, v = Idle => form' = form,
           th' = [th EXCEPT ![Sender] = v], Packs => th[Sender].q = k, v # Idle => v.q = k,
           form' \in [Queues -> Seq(Byte)], split' \in [Queues -> Seq(Byte)],
           out' \in [Queues -> Seq(Seq(Byte))], taken' \in [Queues -> Seq(Seq(Byte))],
           order' = order, Elsewhere(k), PassedAt(k)', InPacket'
    PROVE  SendInv'
<1>1. SendShape /\ Passed /\ Formed /\ DOMAIN th = Threads
  BY SenderShapes DEF SendInv
<1>2. /\ th'[Sender] = v /\ \A u \in Threads \ {Sender} : th'[u] = th[u]
      /\ Packs' <=> v.pc \in PackPcs
  BY <1>1, CalmAfter
<1>3. v \in Calls \cup Packings /\ v.pc \in {"idle"} \cup PackPcs /\ (v = Idle \/ v.pc \in PackPcs)
  <2>1. CASE v = Idle
    BY <2>1 DEF Calls, Idle
  <2>2. CASE v \in Packings
    BY <2>2 DEF Packings
  <2> QED
    BY <2>1, <2>2
<1>4. SendShape'
  <2>1. \A u \in Threads : th'[u].pc \in CallPcs \/ (u = Sender /\ th'[u].pc \in PackPcs)
    BY <1>1, <1>2, <1>3 DEF SendShape, CallPcs
  <2> QED
    BY <1>1, <1>3, <2>1 DEF SendShape
<1>5. Formed'
  <2>1. ASSUME NEW u \in Threads, u # Sender, th[u].pc \in {"entry", "write"}
        PROVE  form'[th[u].q] = form[th[u].q]
    <3>1. th[u].q \in Queues /\ th'[u] = th[u] /\ th[u] # Idle /\ Sender \in Threads
      BY <1>1, <1>2, <2>1, Shapes, SenderShapes DEF Idle
    <3>2. v # Idle => th[u].q # k
      BY <1>2, <2>1, <3>1 DEF OneWorks, WorksFor
    <3>3. v # Idle => form'[th[u].q] = form[th[u].q]
      BY <3>1, <3>2 DEF Elsewhere
    <3> QED
      BY <3>3
  <2>2. ASSUME NEW u \in Threads PROVE FormedBy(u)'
    <3>1. CASE u = Sender
      BY <1>2, <1>3, <3>1 DEF FormedBy, PackPcs
    <3>2. CASE u # Sender
      BY <1>1, <1>2, <2>1, <3>2 DEF Formed, FormedBy, Bytes
    <3> QED
      BY <3>1, <3>2
  <2> QED
    BY <2>2 DEF Formed
<1>6. Passed'
  <2>1. ASSUME NEW l \in Queues, l # k PROVE PassedAt(l)'
    <3>1. InHand(l) = <<>> /\ InHand(l)' = <<>>
      BY <1>2, <2>1 DEF InHand, Idle, PackPcs
    <3>2. out'[l] = out[l] /\ split'[l] = split[l] /\ taken'[l] = taken[l]
      BY <2>1 DEF Elsewhere
    <3> QED
      BY <1>1, <3>1, <3>2 DEF Passed, PassedAt
  <2> QED
    BY <2>1 DEF Passed, PassedAt
<1> QED
  BY <1>4, <1>5, <1>6 DEF SendInv

\* A step that leaves the queues and what was read alone.
LEMMA StandsKeeps ==
    ASSUME SendFits, SendInv, CalmStands, Calmed' = Calmed, order' = order
    PROVE  /\ Calm!QueueInv' /\ Accounted' /\ Calm!Pending' = Calm!Pending
           /\ taken' = taken /\ taken' \in [Queues -> Seq(Seq(Byte))]
<1>1. Calm!QueueInv' /\ Calm!Pending' = Calm!Pending /\ taken' = taken
  <2>1. Calm!QueueInv /\ Calm!Stands
    BY StandsCalm DEF SendInv
  <2> QED
    BY <2>1, CalmIs, Calm!StutterKeeps
<1>2. Accounted'
  BY <1>1 DEF SendInv, Accounted, Queued, Bytes
<1> QED
  BY <1>1, <1>2 DEF SendInv, SendShape

\* A message is read from k.
LEMMA TakeAccounts ==
    ASSUME SendFits, SendInv, NEW k \in Queues, CheckQueue(k, Room), sent' = sent,
           Calmed' = Calmed, Calmed[Sender] = Idle, order' = order
    PROVE  /\ Calm!QueueInv' /\ Accounted' /\ Calm!Pending[k] # <<>>
           /\ taken' = [taken EXCEPT ![k] = Append(@, Head(Calm!Pending[k]))]
           /\ taken' \in [Queues -> Seq(Seq(Byte))]
           /\ FlattenSeq(taken'[k]) = FlattenSeq(taken[k]) \o Head(Calm!Pending[k])
<1>1. SendShape /\ Calm!QueueInv /\ Accounted
  BY DEF SendInv
<1>2. Calm!QueueInv' /\ Calm!Yields(k)
  BY <1>1, TakeCalm, CalmIs, Calm!TakeKeeps
<1>3. /\ Calm!Pending[k] # <<>>
      /\ Calm!Pending' = [Calm!Pending EXCEPT ![k] = Tail(@)]
      /\ taken' = [taken EXCEPT ![k] = Append(@, Head(Calm!Pending[k]))]
  BY <1>2 DEF Calm!Yields
<1>4. PICK p, a, x : p = Calm!Pending[k] /\ a = taken[k] /\ x = Head(p)
  OBVIOUS
<1>5. p \in Seq(Seq(Byte)) /\ p # <<>> /\ a \in Seq(Seq(Byte)) /\ x \in Seq(Byte)
  BY <1>1, <1>3, <1>4, CalmPending DEF SendShape
<1>6. taken'[k] = Append(a, x) /\ Append(a, x) \in Seq(Seq(Byte))
  BY <1>1, <1>3, <1>4, <1>5 DEF SendShape
<1>7. taken' \in [Queues -> Seq(Seq(Byte))]
  BY <1>1, <1>3, <1>4, <1>6 DEF SendShape
<1>8. FlattenSeq(taken'[k]) = FlattenSeq(taken[k]) \o Head(Calm!Pending[k])
  BY <1>4, <1>5, <1>6, FlattenAppend
<1>9. Accounted'
  <2>1. ASSUME NEW l \in Queues, l # k PROVE Queued(l)' = (taken[l] \o Calm!Pending[l])'
    <3>1. Calm!Pending'[l] = Calm!Pending[l] /\ taken'[l] = taken[l]
      BY <1>1, <1>3, <2>1, CalmPending DEF SendShape
    <3> QED
      BY <1>1, <3>1 DEF Accounted, Queued, Bytes
  <2>2. Queued(k)' = (taken[k] \o Calm!Pending[k])'
    <3>1. a \o p = Append(a, x) \o Tail(p)
      <4> DEFINE B == Seq(Byte)
      <4>1. a \in Seq(B) /\ p \in Seq(B) /\ p # <<>> /\ x \in B /\ x = Head(p)
        BY <1>4, <1>5
      <4> HIDE DEF B
      <4> QED
        BY <4>1
    <3>2. Calm!Pending'[k] = Tail(p)
      BY <1>3, <1>4, CalmPending
    <3>3. Queued(k) = a \o p
      BY <1>1, <1>4 DEF Accounted
    <3>4. Queued(k)' = Queued(k)
      BY DEF Queued, Bytes
    <3> QED
      BY <1>6, <3>1, <3>2, <3>3, <3>4
  <2> QED
    BY <2>1, <2>2 DEF Accounted
<1> QED
  BY <1>2, <1>3, <1>7, <1>8, <1>9

\* A chunk goes from what is left of a message to the packet.
LEMMA ChunkMoves ==
    ASSUME NEW S, NEW sentBytes \in Seq(S), NEW rest \in Seq(S), NEW n \in 0..Len(rest)
    PROVE  /\ SubSeq(rest, 1, n) \in Seq(S) /\ Len(SubSeq(rest, 1, n)) = n
           /\ SubSeq(rest, n + 1, Len(rest)) \in Seq(S)
           /\ (sentBytes \o SubSeq(rest, 1, n)) \o SubSeq(rest, n + 1, Len(rest))
                 = (sentBytes \o <<>>) \o rest
<1> DEFINE x == SubSeq(rest, 1, n)
           y == SubSeq(rest, n + 1, Len(rest))
<1>1. x \in Seq(S) /\ Len(x) = n /\ y \in Seq(S) /\ x \o y = rest
  <2>1. Len(rest) \in Nat /\ n \in Nat /\ n <= Len(rest)
    OBVIOUS
  <2>2. x \in Seq(S) /\ Len(x) = n
    BY <2>1
  <2>3. y \in Seq(S)
    BY <2>1
  <2>4. x \o y = SubSeq(rest, 1, Len(rest))
    <3>1. 1 \in 1..Len(rest) + 1 /\ n \in 1 - 1..Len(rest) /\ Len(rest) \in n..Len(rest)
      BY <2>1
    <3> QED
      BY <3>1, ConcatAdjacentSubSeq
  <2>5. SubSeq(rest, 1, Len(rest)) = rest
    BY SubSeqFull
  <2> QED
    BY <2>2, <2>3, <2>4, <2>5
<1> HIDE DEF x, y
<1>2. (sentBytes \o x) \o y = sentBytes \o (x \o y) /\ sentBytes \o <<>> = sentBytes
  <2>1. sentBytes \o <<>> = sentBytes
    OBVIOUS
  <2>2. (sentBytes \o x) \o y = sentBytes \o (x \o y)
    <3>1. x \in Seq(S) /\ y \in Seq(S)
      BY <1>1
    <3> QED
      BY <3>1
  <2> QED
    BY <2>1, <2>2
<1> QED
  BY <1>1, <1>2 DEF x, y

LEMMA NextChunkKeeps ==
    ASSUME SendFits, SendInv, OneWorks', NEW k \in Queues, NextChunk(k)
    PROVE  SendInv'
<1>1. PICK n : n = IF Len(split[k]) < Cache THEN Len(split[k]) ELSE Cache
  OBVIOUS
<1> DEFINE v == [pc |-> "send", q |-> k, cumulative |-> n]
           chunk == SubSeq(split[k], 1, n)
<1>2. /\ th[Sender] = Idle /\ th' = [th EXCEPT ![Sender] = v]
      /\ form' = [form EXCEPT ![k] = Put(@, 0, chunk)]
      /\ split' = [split EXCEPT ![k] = SubSeq(@, n + 1, Len(@))]
      /\ out' = out /\ order' = order /\ CalmStands
  BY <1>1 DEF NextChunk, Packing, CalmStands, queueVars, bufferVars
<1>3. SendShape /\ Passed /\ DOMAIN th = Threads /\ Cache \in Nat \ {0}
  BY SenderShapes, SenderAssumption DEF SendInv, SenderAssumption
<1>4. split[k] \in Seq(Byte) /\ form[k] \in Seq(Byte) /\ FlattenSeq(out[k]) \in Seq(Byte)
  BY <1>3, FlattenType DEF SendShape
<1>5. n \in 0..Len(split[k]) /\ n \in 0..Cache
  <2>1. Len(split[k]) \in Nat
    BY <1>4
  <2> QED
    BY <1>1, <1>3, <2>1
<1>6. /\ chunk \in Seq(Byte) /\ Len(chunk) = n /\ SubSeq(split[k], n + 1, Len(split[k])) \in Seq(Byte)
      /\ (FlattenSeq(out[k]) \o chunk) \o SubSeq(split[k], n + 1, Len(split[k]))
            = (FlattenSeq(out[k]) \o <<>>) \o split[k]
  BY <1>4, <1>5, ChunkMoves
<1>7. v \in Packings /\ v.pc = "send" /\ v.q = k /\ v.cumulative = n /\ v # Idle
  BY <1>5 DEF Packings, PackPcs, Idle
<1> HIDE DEF v, chunk
<1>8. /\ form'[k] \in Seq(Byte) /\ n <= Len(form'[k]) /\ SubSeq(form'[k], 1, n) = chunk
      /\ form' \in [Queues -> Seq(Byte)]
  <2> DEFINE f == form[k]
             b == chunk
             p == Put(f, 0, b)
  <2>1. f \in Seq(Byte) /\ b \in Seq(Byte) /\ Len(b) = n /\ n \in Nat
    BY <1>4, <1>5, <1>6
  <2> HIDE DEF f, b, p
  <2>2. 0 \in 0..Len(f) /\ 0 + Len(b) = Len(b) /\ SubSeq(f, 1, 0) \o b = b
    BY <2>1
  <2>3. p \in Seq(Byte) /\ 0 + Len(b) <= Len(p) /\ SubSeq(p, 1, 0 + Len(b)) = SubSeq(f, 1, 0) \o b
    BY <2>1, <2>2, PutThere DEF p
  <2>4. form'[k] = p /\ form' \in [Queues -> Seq(Byte)]
    BY <1>2, <1>3, <2>3 DEF f, b, p, SendShape
  <2> QED
    BY <2>1, <2>2, <2>3, <2>4 DEF b
<1>9. split' \in [Queues -> Seq(Byte)] /\ split'[k] = SubSeq(split[k], n + 1, Len(split[k]))
  BY <1>2, <1>3, <1>6 DEF SendShape
<1>10. th'[Sender] = v /\ Packs' /\ ~Packs /\ Calmed' = Calmed
  <2>1. v.pc \in PackPcs
    BY <1>7 DEF PackPcs
  <2> QED
    <3>1. th'[Sender] = v /\ Packs'
      BY <1>2, <1>3, <2>1, CalmAfter
    <3>2. ~Packs
      BY <1>2 DEF Packs, PackPcs, Idle
    <3>3. Calmed' = Calmed
      BY <1>2, <1>3, <2>1, PackingStands
    <3> QED
      BY <3>1, <3>2, <3>3
<1>11. /\ Calm!QueueInv' /\ Accounted' /\ taken' = taken
       /\ taken' \in [Queues -> Seq(Seq(Byte))]
  BY <1>2, <1>10, StandsKeeps
<1>12. PassedAt(k)'
  <2>1. InHand(k) = <<>> /\ InHand(k)' = chunk
    BY <1>7, <1>8, <1>10 DEF InHand, Cumulative
  <2>2. FlattenSeq(taken[k]) = (FlattenSeq(out[k]) \o <<>>) \o split[k]
    BY <1>3, <2>1 DEF Passed
  <2> QED
    BY <1>2, <1>6, <1>9, <1>11, <2>1, <2>2 DEF PassedAt
<1>13. InPacket'
  BY <1>7, <1>8, <1>10 DEF InPacket, Cumulative
<1>14. Elsewhere(k) /\ out' \in [Queues -> Seq(Seq(Byte))]
  BY <1>2, <1>3, <1>11 DEF Elsewhere, SendShape
<1> QED
  BY <1>2, <1>7, <1>8, <1>9, <1>10, <1>11, <1>12, <1>13, <1>14, PackKeeps

LEMMA PeekKeeps ==
    ASSUME SendFits, SendInv, OneWorks', NEW k \in Queues, Peek(k)
    PROVE  SendInv'
<1>1. PICK pc : pc = IF NextSize(k) > Cache THEN "split" ELSE "pack"
  OBVIOUS
<1> DEFINE v == [pc |-> pc, q |-> k, cumulative |-> 0]
<1>2. /\ th[Sender] = Idle /\ th' = [th EXCEPT ![Sender] = v] /\ split[k] = <<>>
      /\ form' = form /\ split' = split /\ out' = out /\ order' = order /\ CalmStands
  BY <1>1 DEF Peek, Packing, CalmStands, queueVars, bufferVars, packetVars
<1>3. SendShape /\ Passed /\ DOMAIN th = Threads /\ Cache \in Nat \ {0}
  BY SenderShapes, SenderAssumption DEF SendInv, SenderAssumption
<1>4. v \in Packings /\ v.pc = pc /\ v.q = k /\ v.cumulative = 0 /\ pc \in {"split", "pack"}
      /\ v # Idle
  BY <1>1, <1>3 DEF Packings, PackPcs, Idle
<1> HIDE DEF v
<1>5. th'[Sender] = v /\ Packs' /\ ~Packs /\ Calmed' = Calmed
  <2>1. v.pc \in PackPcs
    BY <1>4 DEF PackPcs
  <2> QED
    <3>1. th'[Sender] = v /\ Packs'
      BY <1>2, <1>3, <2>1, CalmAfter
    <3>2. ~Packs
      BY <1>2 DEF Packs, PackPcs, Idle
    <3>3. Calmed' = Calmed
      BY <1>2, <1>3, <2>1, PackingStands
    <3> QED
      BY <3>1, <3>2, <3>3
<1>6. /\ Calm!QueueInv' /\ Accounted' /\ taken' = taken /\ Calm!Pending' = Calm!Pending
      /\ taken' \in [Queues -> Seq(Seq(Byte))]
  BY <1>2, <1>5, StandsKeeps
<1>7. form[k] \in Seq(Byte) /\ SubSeq(form[k], 1, 0) = <<>> /\ Len(form[k]) \in Nat
  BY <1>3 DEF SendShape
<1>8. PassedAt(k)'
  <2>1. InHand(k) = <<>> /\ InHand(k)' = <<>>
    BY <1>2, <1>4, <1>5, <1>7 DEF InHand, Cumulative
  <2> QED
    BY <1>2, <1>3, <1>6, <2>1 DEF Passed, PassedAt
<1>9. InPacket'
  <2>1. PICK p : p = Calm!Pending[k]
    OBVIOUS
  <2>2. CASE p = <<>>
    <3>1. NextSize(k) = 0
      BY <2>1, <2>2, CalmPending
    <3>2. pc = "pack"
      BY <1>1, <1>3, <3>1
    <3>3. th'[Sender].pc = "pack" /\ th'[Sender].q = k /\ th'[Sender].cumulative = 0
      BY <1>4, <1>5, <3>2
    <3>4. form' = form /\ split'[k] = <<>> /\ Calm!Pending'[k] = <<>>
      BY <1>2, <1>6, <2>1, <2>2
    <3> QED
      BY <1>7, <3>3, <3>4 DEF InPacket, Cumulative
  <2>3. CASE p # <<>>
    <3>1. NextSize(k) = Len(Head(p)) /\ Len(Head(p)) \in Nat
      BY <2>1, <2>3, CalmPending
    <3>2. /\ pc = "split" => Len(Head(p)) > Cache
          /\ pc = "pack" => Len(Head(p)) <= Cache - 0
      BY <1>1, <1>3, <3>1
    <3> QED
      BY <1>2, <1>4, <1>5, <1>6, <1>7, <2>1, <2>3, <3>2 DEF InPacket, Cumulative
  <2> QED
    BY <2>2, <2>3
<1>10. Elsewhere(k) /\ out' \in [Queues -> Seq(Seq(Byte))] /\ form' \in [Queues -> Seq(Byte)]
       /\ split' \in [Queues -> Seq(Byte)]
  BY <1>2, <1>3, <1>6 DEF Elsewhere, SendShape
<1> QED
  BY <1>2, <1>4, <1>5, <1>6, <1>8, <1>9, <1>10, PackKeeps

LEMMA TakeSplitKeeps ==
    ASSUME SendFits, SendInv, OneWorks', TakeSplit
    PROVE  SendInv'
<1>0. PICK k, bytes : k = th[Sender].q /\ bytes = Read(slot[k][rd[k]])
  OBVIOUS
<1> DEFINE v == [pc |-> "send", q |-> k, cumulative |-> Cache]
           chunk == SubSeq(bytes, 1, Cache)
<1>1. /\ th[Sender].pc = "split" /\ th' = [th EXCEPT ![Sender] = v]
      /\ CheckQueue(k, Room) /\ sent' = sent /\ out' = out /\ order' = order
      /\ form' = [form EXCEPT ![k] = Put(@, 0, chunk)]
      /\ split' = [split EXCEPT ![k] = SubSeq(bytes, Cache + 1, Len(bytes))]
  BY <1>0 DEF TakeSplit, Packing, At
<1>2. Packs
  BY <1>1 DEF Packs, PackPcs
<1>3. /\ SendShape /\ Passed /\ InPacket /\ DOMAIN th = Threads /\ k \in Queues
      /\ Cache \in Nat \ {0}
  BY <1>0, <1>2, SenderShapes DEF SendInv
<1>4. v \in Packings /\ v.pc = "send" /\ v.q = k /\ v.cumulative = Cache /\ v # Idle
  BY <1>3 DEF Packings, PackPcs, Idle
<1> HIDE DEF v
<1>5. th'[Sender] = v /\ Packs' /\ Calmed' = Calmed /\ Calmed[Sender] = Idle
  <2>1. v.pc \in PackPcs
    BY <1>4 DEF PackPcs
  <2>2. th'[Sender] = v /\ Packs'
    BY <1>1, <1>3, <2>1, CalmAfter
  <2> QED
    BY <1>1, <1>2, <1>3, <2>1, <2>2, PackingStands
<1>6. /\ Calm!QueueInv' /\ Accounted' /\ Calm!Pending[k] # <<>>
      /\ taken' = [taken EXCEPT ![k] = Append(@, Head(Calm!Pending[k]))]
      /\ taken' \in [Queues -> Seq(Seq(Byte))]
      /\ FlattenSeq(taken'[k]) = FlattenSeq(taken[k]) \o Head(Calm!Pending[k])
  BY <1>1, <1>3, <1>5, TakeAccounts
<1>7. /\ bytes = Head(Calm!Pending[k]) /\ bytes \in Seq(Byte) /\ Len(bytes) > Cache
      /\ split[k] = <<>> /\ th[Sender].cumulative = 0
  <2>1. bytes = Head(Calm!Pending[k]) /\ bytes \in Seq(Byte)
    BY <1>0, <1>3, <1>6, CalmPending
  <2>2. Len(Head(Calm!Pending[k])) > Cache /\ split[k] = <<>> /\ th[Sender].cumulative = 0
    BY <1>0, <1>1, <1>2, <1>3 DEF InPacket, Cumulative
  <2> QED
    BY <2>1, <2>2
<1>8. form[k] \in Seq(Byte) /\ FlattenSeq(out[k]) \in Seq(Byte)
  BY <1>3, FlattenType DEF SendShape
<1>9. /\ chunk \in Seq(Byte) /\ Len(chunk) = Cache
      /\ SubSeq(bytes, Cache + 1, Len(bytes)) \in Seq(Byte)
      /\ (FlattenSeq(out[k]) \o chunk) \o SubSeq(bytes, Cache + 1, Len(bytes))
            = (FlattenSeq(out[k]) \o <<>>) \o bytes
  <2>1. Cache \in 0..Len(bytes)
    BY <1>3, <1>7
  <2>2. PICK o, n : o = FlattenSeq(out[k]) /\ n = Cache
    OBVIOUS
  <2>3. o \in Seq(Byte) /\ bytes \in Seq(Byte) /\ n \in 0..Len(bytes)
    BY <1>7, <1>8, <2>1, <2>2
  <2>4. /\ SubSeq(bytes, 1, n) \in Seq(Byte) /\ Len(SubSeq(bytes, 1, n)) = n
        /\ SubSeq(bytes, n + 1, Len(bytes)) \in Seq(Byte)
        /\ (o \o SubSeq(bytes, 1, n)) \o SubSeq(bytes, n + 1, Len(bytes)) = (o \o <<>>) \o bytes
    BY <2>3, ChunkMoves
  <2> QED
    BY <2>2, <2>4
<1> HIDE DEF chunk
<1>10. /\ form'[k] \in Seq(Byte) /\ Cache <= Len(form'[k]) /\ SubSeq(form'[k], 1, Cache) = chunk
       /\ form' \in [Queues -> Seq(Byte)]
  <2> DEFINE f == form[k]
             b == chunk
             p == Put(f, 0, b)
  <2>1. f \in Seq(Byte) /\ b \in Seq(Byte) /\ Len(b) = Cache /\ Cache \in Nat
    BY <1>3, <1>8, <1>9
  <2> HIDE DEF f, b, p
  <2>2. 0 \in 0..Len(f) /\ 0 + Len(b) = Len(b) /\ SubSeq(f, 1, 0) \o b = b
    BY <2>1
  <2>3. p \in Seq(Byte) /\ 0 + Len(b) <= Len(p) /\ SubSeq(p, 1, 0 + Len(b)) = SubSeq(f, 1, 0) \o b
    BY <2>1, <2>2, PutThere DEF p
  <2>4. form'[k] = p /\ form' \in [Queues -> Seq(Byte)]
    BY <1>1, <1>3, <2>3 DEF f, b, p, SendShape
  <2> QED
    BY <2>1, <2>2, <2>3, <2>4 DEF b
<1>11. split' \in [Queues -> Seq(Byte)] /\ split'[k] = SubSeq(bytes, Cache + 1, Len(bytes))
  BY <1>1, <1>3, <1>9 DEF SendShape
<1>12. PassedAt(k)'
  <2>1. InHand(k) = <<>> /\ InHand(k)' = chunk
    <3>1. SubSeq(form[k], 1, 0) = <<>>
      BY <1>8
    <3> QED
      BY <1>0, <1>4, <1>5, <1>7, <1>10, <3>1 DEF InHand, Cumulative
  <2>2. FlattenSeq(taken[k]) = (FlattenSeq(out[k]) \o <<>>) \o <<>>
    BY <1>3, <1>7, <2>1 DEF Passed
  <2>3. FlattenSeq(taken[k]) = FlattenSeq(out[k]) /\ FlattenSeq(out[k]) \o <<>> = FlattenSeq(out[k])
    BY <1>8, <2>2
  <2> QED
    BY <1>1, <1>6, <1>7, <1>9, <1>11, <2>1, <2>3 DEF PassedAt
<1>13. InPacket'
  BY <1>4, <1>5, <1>10 DEF InPacket, Cumulative
<1>14. Elsewhere(k) /\ out' \in [Queues -> Seq(Seq(Byte))]
  BY <1>1, <1>3, <1>6 DEF Elsewhere, SendShape
<1> QED
  BY <1>0, <1>1, <1>3, <1>4, <1>5, <1>6, <1>10, <1>11, <1>12, <1>13, <1>14, PackKeeps

LEMMA PackOneKeeps ==
    ASSUME SendFits, SendInv, OneWorks', Pack
    PROVE  SendInv'
<1>0. PICK k, bytes, c : k = th[Sender].q /\ bytes = Read(slot[k][rd[k]]) /\ c = th[Sender].cumulative
  OBVIOUS
<1>1. /\ th[Sender].pc = "pack" /\ CheckQueue(k, Cache - c)
      /\ split' = split /\ sent' = sent /\ out' = out /\ order' = order
  BY <1>0 DEF Pack, At, Cumulative
<1>2. Packs
  BY <1>1 DEF Packs, PackPcs
<1>3. /\ SendShape /\ Passed /\ InPacket /\ DOMAIN th = Threads /\ k \in Queues
      /\ c \in 0..Cache /\ Cache \in Nat \ {0}
  BY <1>0, <1>2, SenderShapes DEF SendInv, Cumulative
<1>4. Calm!Pending[k] # <<>>
  <2>1. rd[k] # wr[k]
    BY <1>1 DEF CheckQueue
  <2> QED
    BY <1>3, <2>1, CalmPending
<1>5. /\ bytes = Head(Calm!Pending[k]) /\ bytes \in Seq(Byte) /\ Len(bytes) \in Nat
      /\ entry[slot[k][rd[k]]].length = Len(bytes) /\ Len(bytes) <= Room
  BY <1>0, <1>3, <1>4, CalmPending
<1>6. Len(bytes) <= Cache - c /\ c <= Len(form[k]) /\ split[k] = <<>>
  BY <1>0, <1>1, <1>2, <1>3, <1>4, <1>5 DEF InPacket, Cumulative
<1>7. CheckQueue(k, Room)
  BY <1>1, <1>5, <1>6 DEF CheckQueue
<1> DEFINE v == [pc |-> "more", q |-> k, cumulative |-> c + Len(bytes)]
<1>8. th' = [th EXCEPT ![Sender] = v] /\ form' = [form EXCEPT ![k] = Put(@, c, bytes)]
  BY <1>0, <1>6 DEF Pack, Packing, Cumulative
<1>9. v \in Packings /\ v.pc = "more" /\ v.q = k /\ v.cumulative = c + Len(bytes)
      /\ v # Idle
  <2>1. c + Len(bytes) \in 0..Cache
    BY <1>3, <1>5, <1>6
  <2> QED
    BY <1>3, <2>1 DEF Packings, PackPcs, Idle
<1> HIDE DEF v
<1>10. th'[Sender] = v /\ Packs' /\ Calmed' = Calmed /\ Calmed[Sender] = Idle
  <2>1. v.pc \in PackPcs
    BY <1>9 DEF PackPcs
  <2>2. th'[Sender] = v /\ Packs'
    BY <1>3, <1>8, <2>1, CalmAfter
  <2> QED
    BY <1>2, <1>3, <1>8, <2>1, <2>2, PackingStands
<1>11. /\ Calm!QueueInv' /\ Accounted'
       /\ taken' = [taken EXCEPT ![k] = Append(@, Head(Calm!Pending[k]))]
       /\ taken' \in [Queues -> Seq(Seq(Byte))]
       /\ FlattenSeq(taken'[k]) = FlattenSeq(taken[k]) \o bytes
  BY <1>1, <1>3, <1>5, <1>7, <1>10, TakeAccounts
<1>12. /\ form[k] \in Seq(Byte) /\ FlattenSeq(out[k]) \in Seq(Byte)
       /\ SubSeq(form[k], 1, c) \in Seq(Byte) /\ Len(form[k]) \in Nat
  <2>1. form[k] \in Seq(Byte) /\ FlattenSeq(out[k]) \in Seq(Byte)
    BY <1>3, FlattenType DEF SendShape
  <2>2. Len(form[k]) \in Nat /\ c \in Nat
    BY <1>3, <2>1
  <2>3. SubSeq(form[k], 1, c) \in Seq(Byte)
    BY <1>6, <2>1, <2>2
  <2> QED
    BY <2>1, <2>2, <2>3
<1>13. /\ form'[k] \in Seq(Byte) /\ c + Len(bytes) <= Len(form'[k])
       /\ SubSeq(form'[k], 1, c + Len(bytes)) = SubSeq(form[k], 1, c) \o bytes
       /\ form' \in [Queues -> Seq(Byte)]
  <2>1. c \in 0..Len(form[k])
    BY <1>3, <1>6, <1>12
  <2>2. PICK f, p : f = form[k] /\ p = Put(f, c, bytes)
    OBVIOUS
  <2>3. /\ p \in Seq(Byte) /\ c + Len(bytes) <= Len(p)
        /\ SubSeq(p, 1, c + Len(bytes)) = SubSeq(f, 1, c) \o bytes
    BY <1>5, <1>12, <2>1, <2>2, PutThere
  <2>4. form'[k] = p /\ form' \in [Queues -> Seq(Byte)]
    BY <1>3, <1>8, <2>2, <2>3 DEF SendShape
  <2> QED
    BY <2>2, <2>3, <2>4
<1>14. PassedAt(k)'
  <2>1. PICK h : h = SubSeq(form[k], 1, c)
    OBVIOUS
  <2>2. InHand(k) = h /\ InHand(k)' = h \o bytes
    BY <1>0, <1>2, <1>9, <1>10, <1>13, <2>1 DEF InHand, Cumulative
  <2>3. PICK o : o = FlattenSeq(out[k])
    OBVIOUS
  <2>4. FlattenSeq(taken[k]) = (o \o h) \o <<>>
    BY <1>3, <1>6, <2>2, <2>3 DEF Passed
  <2>5. ((o \o h) \o <<>>) \o bytes = (o \o (h \o bytes)) \o <<>>
    <3>1. o \in Seq(Byte) /\ h \in Seq(Byte) /\ bytes \in Seq(Byte)
      BY <1>5, <1>12, <2>1, <2>3
    <3>2. (o \o h) \o bytes = o \o (h \o bytes)
      BY <3>1
    <3>3. o \o h \in Seq(Byte) /\ h \o bytes \in Seq(Byte) /\ o \o (h \o bytes) \in Seq(Byte)
      BY <3>1
    <3>4. (o \o h) \o <<>> = o \o h /\ (o \o (h \o bytes)) \o <<>> = o \o (h \o bytes)
      BY <3>3
    <3> QED
      BY <3>2, <3>4
  <2> QED
    BY <1>1, <1>6, <1>11, <2>2, <2>3, <2>4, <2>5 DEF PassedAt
<1>15. InPacket'
  <2>1. split'[k] = <<>>
    BY <1>1, <1>6
  <2> QED
    BY <1>9, <1>10, <1>13, <2>1 DEF InPacket, Cumulative
<1>16. Elsewhere(k) /\ out' \in [Queues -> Seq(Seq(Byte))] /\ split' \in [Queues -> Seq(Byte)]
  BY <1>1, <1>3, <1>8, <1>11 DEF Elsewhere, SendShape
<1> QED
  BY <1>0, <1>1, <1>3, <1>8, <1>9, <1>10, <1>11, <1>13, <1>14, <1>15, <1>16, PackKeeps

\* The packet is done, or goes on with the next message: the queues stand.
LEMMA TurnKeeps ==
    ASSUME SendFits, SendInv, OneWorks', NEW k, k = th[Sender].q, NEW c, c = Cumulative, NEW pc \in PackPcs,
           Packs, th' = [th EXCEPT ![Sender] = [pc |-> pc, q |-> k, cumulative |-> c]],
           form' = form, split' = split, out' = out, order' = order, CalmStands,
           th[Sender].pc # "send", pc # "split",
           pc = "pack" /\ Calm!Pending[k] # <<>> => Len(Head(Calm!Pending[k])) <= Cache - c
    PROVE  SendInv'
<1> DEFINE v == [pc |-> pc, q |-> k, cumulative |-> c]
<1>1. SendShape /\ Passed /\ InPacket /\ DOMAIN th = Threads /\ k \in Queues /\ c \in 0..Cache
  BY SenderShapes DEF SendInv
<1>2. v \in Packings /\ v.pc = pc /\ v.q = k /\ v.cumulative = c /\ th' = [th EXCEPT ![Sender] = v]
      /\ v # Idle
  BY <1>1 DEF Packings, PackPcs, Idle
<1> HIDE DEF v
<1>3. th'[Sender] = v /\ Packs' /\ Calmed' = Calmed
  <2>1. th'[Sender] = v /\ Packs'
    BY <1>1, <1>2, CalmAfter
  <2> QED
    BY <1>1, <1>2, <2>1, PackingStands
<1>4. /\ Calm!QueueInv' /\ Accounted' /\ taken' = taken /\ Calm!Pending' = Calm!Pending
      /\ taken' \in [Queues -> Seq(Seq(Byte))]
  BY <1>3, StandsKeeps
<1>5. PassedAt(k)'
  <2>1. InHand(k)' = InHand(k)
    BY <1>2, <1>3 DEF InHand, Cumulative
  <2> QED
    BY <1>1, <1>4, <2>1 DEF Passed, PassedAt
<1>6. c <= Len(form[k]) /\ split[k] = <<>>
  BY <1>1 DEF InPacket
<1>7. InPacket'
  BY <1>2, <1>3, <1>4, <1>6 DEF InPacket, Cumulative
<1>8. /\ Elsewhere(k) /\ out' \in [Queues -> Seq(Seq(Byte))] /\ form' \in [Queues -> Seq(Byte)]
      /\ split' \in [Queues -> Seq(Byte)]
  BY <1>1, <1>4 DEF Elsewhere, SendShape
<1> QED
  BY <1>1, <1>2, <1>4, <1>5, <1>7, <1>8, PackKeeps

LEMMA PackEndKeeps ==
    ASSUME SendFits, SendInv, OneWorks', PackEnd
    PROVE  SendInv'
<1>1. PICK k, c : k = th[Sender].q /\ c = Cumulative
  OBVIOUS
<1>2. /\ th[Sender].pc = "pack" /\ Packs /\ "send" \in PackPcs
      /\ th' = [th EXCEPT ![Sender] = [pc |-> "send", q |-> k, cumulative |-> c]]
      /\ form' = form /\ split' = split /\ out' = out /\ order' = order /\ CalmStands
  BY <1>1 DEF PackEnd, Packing, At, Packs, PackPcs, CalmStands, queueVars, bufferVars, packetVars
<1> QED
  BY <1>1, <1>2, TurnKeeps

LEMMA PeekMoreKeeps ==
    ASSUME SendFits, SendInv, OneWorks', PeekMore
    PROVE  SendInv'
<1>1. PICK k, c : k = th[Sender].q /\ c = Cumulative
  OBVIOUS
<1>2. PICK pc : pc = IF NextSize(k) >= Cache - c THEN "send" ELSE "pack"
  OBVIOUS
<1>3. /\ th[Sender].pc = "more" /\ Packs /\ pc \in PackPcs /\ pc # "split"
      /\ th' = [th EXCEPT ![Sender] = [pc |-> pc, q |-> k, cumulative |-> c]]
      /\ form' = form /\ split' = split /\ out' = out /\ order' = order /\ CalmStands
  BY <1>1, <1>2 DEF PeekMore, Packing, At, Packs, PackPcs, CalmStands, queueVars, bufferVars, packetVars
<1>4. k \in Queues /\ c \in 0..Cache /\ Cache \in Nat \ {0}
  BY <1>1, <1>3, SenderShapes DEF SendInv
<1>5. ASSUME pc = "pack", Calm!Pending[k] # <<>> PROVE Len(Head(Calm!Pending[k])) <= Cache - c
  <2>1. NextSize(k) = Len(Head(Calm!Pending[k])) /\ Len(Head(Calm!Pending[k])) \in Nat
    BY <1>4, <1>5, CalmPending
  <2>2. ~(NextSize(k) >= Cache - c)
    BY <1>2, <1>5
  <2> QED
    BY <1>4, <2>1, <2>2
<1> QED
  BY <1>1, <1>3, <1>5, TurnKeeps

LEMMA SendPacketKeeps ==
    ASSUME SendFits, SendInv, OneWorks', SendPacket
    PROVE  SendInv'
<1>0. PICK k, c, packet : /\ k = th[Sender].q /\ c = th[Sender].cumulative
                          /\ packet = SubSeq(form[k], 1, c)
  OBVIOUS
<1>1. /\ th[Sender].pc = "send" /\ th' = [th EXCEPT ![Sender] = Idle]
      /\ out' = IF c > 0 THEN [out EXCEPT ![k] = Append(@, packet)] ELSE out
      /\ form' = form /\ split' = split /\ order' = order /\ CalmStands
  BY <1>0 DEF SendPacket, At, Cumulative, CalmStands, queueVars, bufferVars
<1>2. Packs
  BY <1>1 DEF Packs, PackPcs
<1>3. /\ SendShape /\ Passed /\ InPacket /\ DOMAIN th = Threads /\ k \in Queues /\ c \in 0..Cache
      /\ Cache \in Nat
  BY <1>0, <1>2, SenderShapes DEF SendInv, Cumulative
<1>4. th'[Sender] = Idle /\ ~Packs' /\ Calmed' = Calmed
  <2>1. th'[Sender] = Idle /\ ~Packs'
    <3>1. PICK v : v = Idle
      OBVIOUS
    <3>2. th'[Sender] = v /\ (Packs' <=> v.pc \in PackPcs)
      BY <1>1, <1>3, <3>1, CalmAfter
    <3>3. v.pc \notin PackPcs
      BY <3>1 DEF Idle, PackPcs
    <3> QED
      BY <3>1, <3>2, <3>3
  <2> QED
    BY <1>1, <1>2, <1>3, <2>1, PackingStands
<1>5. /\ Calm!QueueInv' /\ Accounted' /\ taken' = taken
      /\ taken' \in [Queues -> Seq(Seq(Byte))]
  BY <1>1, <1>4, StandsKeeps
<1>6. packet \in Seq(Byte) /\ out[k] \in Seq(Seq(Byte))
  <2>1. form[k] \in Seq(Byte) /\ c <= Len(form[k]) /\ out[k] \in Seq(Seq(Byte))
    BY <1>0, <1>2, <1>3 DEF InPacket, SendShape, Cumulative
  <2>2. Len(form[k]) \in Nat /\ c \in Nat
    BY <1>3, <2>1
  <2> QED
    BY <1>0, <2>1, <2>2
<1>7. out' \in [Queues -> Seq(Seq(Byte))] /\ FlattenSeq(out'[k]) = FlattenSeq(out[k]) \o packet
  <2>1. CASE c > 0
    <3>1. Append(out[k], packet) \in Seq(Seq(Byte)) /\ out'[k] = Append(out[k], packet)
      BY <1>1, <1>3, <1>6, <2>1 DEF SendShape
    <3>2. FlattenSeq(Append(out[k], packet)) = FlattenSeq(out[k]) \o packet
      BY <1>6, FlattenAppend
    <3> QED
      BY <1>1, <1>3, <2>1, <3>1, <3>2 DEF SendShape
  <2>2. CASE ~(c > 0)
    <3>1. c = 0 /\ out' = out
      BY <1>1, <1>3, <2>2
    <3>2. packet = <<>>
      BY <1>0, <1>6, <3>1
    <3>3. FlattenSeq(out[k]) \in Seq(Byte)
      BY <1>6, FlattenType
    <3>4. FlattenSeq(out[k]) \o <<>> = FlattenSeq(out[k])
      BY <3>3
    <3> QED
      BY <1>3, <3>1, <3>2, <3>4 DEF SendShape
  <2> QED
    BY <2>1, <2>2
<1>8. PassedAt(k)'
  <2>1. InHand(k) = packet /\ InHand(k)' = <<>>
    BY <1>0, <1>2, <1>4 DEF InHand, Cumulative
  <2>2. PICK o : o = FlattenSeq(out[k])
    OBVIOUS
  <2>3. (o \o packet) \o <<>> = o \o packet
    <3>1. o \in Seq(Byte) /\ o \o packet \in Seq(Byte)
      BY <1>6, <2>2, FlattenType
    <3> QED
      BY <3>1
  <2>4. FlattenSeq(taken[k]) = (o \o packet) \o split[k]
    BY <1>3, <2>1, <2>2 DEF Passed
  <2> QED
    BY <1>1, <1>5, <1>7, <2>1, <2>2, <2>3, <2>4 DEF PassedAt
<1>9. InPacket'
  BY <1>4 DEF InPacket
<1>10. Elsewhere(k) /\ form' \in [Queues -> Seq(Byte)] /\ split' \in [Queues -> Seq(Byte)]
  <2>1. \A l \in Queues \ {k} : out'[l] = out[l]
    BY <1>1, <1>3 DEF SendShape
  <2> QED
    BY <1>1, <1>3, <1>5, <2>1 DEF Elsewhere, SendShape
<1> QED
  BY <1>0, <1>1, <1>3, <1>4, <1>5, <1>7, <1>8, <1>9, <1>10, PackKeeps

LEMMA StillKeeps ==
    ASSUME SendFits, SendInv, UNCHANGED sendVars
    PROVE  SendInv'
<1>1. /\ CalmStands /\ order' = order /\ th' = th /\ form' = form /\ split' = split
      /\ out' = out /\ taken' = taken
  BY DEF sendVars, vars, queueVars, bufferVars, CalmStands
<1>2. Calmed' = Calmed /\ (Packs' <=> Packs)
  BY <1>1 DEF Calmed, Packs
<1>3. Calm!QueueInv' /\ Accounted' /\ Calm!Pending' = Calm!Pending
  BY <1>1, <1>2, StandsKeeps
<1>4. SendShape' /\ Formed'
  BY <1>1 DEF SendInv, SendShape, Formed, FormedBy, Bytes
<1>5. Passed'
  BY <1>1, <1>2 DEF SendInv, Passed, InHand, Cumulative
<1>6. InPacket'
  BY <1>1, <1>2, <1>3 DEF SendInv, InPacket, Cumulative
<1>7. OneWorks'
  BY <1>1 DEF SendInv, OneWorks, WorksFor, Idle
<1> QED
  BY <1>3, <1>4, <1>5, <1>6, <1>7 DEF SendInv

LEMMA StreamInit ==
    ASSUME SendFits, SendInit
    PROVE  SendInv /\ \A k \in Queues : out[k] = <<>> /\ order[k] = <<>>
<1>1. /\ th = [t \in Threads |-> Idle] /\ form = [k \in Queues |-> <<>>]
      /\ split = [k \in Queues |-> <<>>] /\ out = [k \in Queues |-> <<>>]
      /\ order = [k \in Queues |-> <<>>] /\ taken = [k \in Queues |-> <<>>] /\ Init
  BY DEF SendInit, Init
<1>2. th[Sender] = Idle /\ Idle.pc = "idle" /\ ~Packs
  BY <1>1, SenderAssumption DEF SenderAssumption, Idle, Packs, PackPcs
<1>3. Calmed = [t \in Threads |-> Calm!Idle]
  BY <1>1, <1>2, CalmIs DEF Calmed
<1>4. Calm!Init
  BY <1>1, <1>3 DEF Init, Calm!Init, Calm!Null, Null, Calm!EntryIds, EntryIds, Calm!Entry, Entry,
                    Calm!NoByte, NoByte
<1>5. Calm!QueueInv /\ Calm!Abstract!Init
  BY <1>4, CalmIs, Calm!QueueInit
<1>6. \A k \in Queues : Calm!Pending[k] = <<>>
  BY <1>5 DEF Calm!Abstract!Init
<1>7. SendShape
  <2>1. Idle \in Calls
    BY DEF Calls
  <2> QED
    BY <1>1, <1>2, <2>1 DEF SendShape, CallPcs
<1>8. Formed /\ InPacket /\ OneWorks
  BY <1>1, <1>2 DEF Formed, FormedBy, InPacket, OneWorks, WorksFor, Idle
<1>9. Accounted
  <2>1. ASSUME NEW k \in Queues PROVE Queued(k) = taken[k] \o Calm!Pending[k]
    <3>1. order[k] = <<>> /\ taken[k] = <<>> /\ Calm!Pending[k] = <<>>
      BY <1>1, <1>6
    <3>2. Queued(k) = <<>>
      BY <3>1 DEF Queued
    <3> QED
      BY <3>1, <3>2
  <2> QED
    BY <2>1 DEF Accounted
<1>10. Passed
  <2>1. ASSUME NEW k \in Queues
        PROVE  FlattenSeq(taken[k]) = (FlattenSeq(out[k]) \o InHand(k)) \o split[k]
    <3>1. taken[k] = <<>> /\ out[k] = <<>> /\ split[k] = <<>> /\ InHand(k) = <<>>
      BY <1>1, <1>2 DEF InHand
    <3> QED
      BY <3>1, FlattenEmpty
  <2> QED
    BY <2>1 DEF Passed
<1> QED
  BY <1>1, <1>5, <1>7, <1>8, <1>9, <1>10 DEF SendInv

LEMMA StreamStep ==
    ASSUME SendFits, StreamInv, SendRoom, SendRoom', [IONext]_ioVars
    PROVE  StreamInv'
<1>1. CASE part = "send"
  <2>1. part' = part /\ (SendNext \/ UNCHANGED sendVars)
    BY <1>1 DEF IONext, ioVars, InQueue, InReset, InSend, InPark, InComms
  <2>2. SUFFICES ASSUME apart' PROVE SendInv'
    BY <1>1, <2>1 DEF StreamInv
  <2>3. CASE UNCHANGED sendVars
    <3>1. SendInv
      BY <1>1, <2>2, <2>3 DEF StreamInv, sendVars
    <3> QED
      BY <2>3, <3>1, StillKeeps
  <2>4. CASE SendNext
    <3>1. apart /\ OneWorks' /\ (SendStep \/ \E t \in Callers : CallStep(t))
      BY <2>2, <2>4 DEF SendNext, Watched
    <3>2. SendInv /\ Calm!Roomy /\ Calm!Roomy'
      BY <1>1, <2>1, <2>2, <3>1 DEF StreamInv, SendRoom
    <3>3. CASE SendStep
      BY <3>1, <3>2, <3>3, NextChunkKeeps, PeekKeeps, TakeSplitKeeps, PackOneKeeps, PackEndKeeps,
         PeekMoreKeeps, SendPacketKeeps DEF SendStep
    <3>4. CASE \E t \in Callers : CallStep(t)
      <4>1. PICK t \in Threads : CallStep(t)
        BY <3>4, SenderAssumption DEF SenderAssumption
      <4> QED
        BY <3>1, <3>2, <4>1, SendOpcodeKeeps, AddEntryKeeps, AddBytesKeeps, AddSlotKeeps
           DEF CallStep
    <3> QED
      BY <3>1, <3>3, <3>4
  <2> QED
    BY <2>1, <2>3, <2>4
<1>2. CASE part # "send"
  <2>1. part' = part /\ out' = out /\ order' = order
    BY <1>2 DEF IONext, ioVars, InQueue, InReset, InSend, InPark, InComms, packetVars, sendVars
  <2> QED
    BY <1>2, <2>1 DEF StreamInv
<1> QED
  BY <1>1, <1>2

LEMMA StreamMeans ==
    ASSUME SendFits, StreamInv
    PROVE  StreamIntact
<1>1. ASSUME NEW S, NEW a \in Seq(S), NEW b \in Seq(S)
      PROVE  IsPrefix(a, a \o b)
  BY DEF IsPrefix
<1>2. SUFFICES ASSUME apart, NEW k \in Queues PROVE IsPrefix(FlattenSeq(out[k]), Stream(k))
  BY DEF StreamIntact
<1>3. CASE part = "send"
  <2>1. SendInv /\ SendShape /\ Accounted /\ Passed /\ InPacket
    BY <1>2, <1>3 DEF StreamInv, SendInv
  <2>2. PICK o, h, s, p : /\ o = FlattenSeq(out[k]) /\ h = InHand(k) /\ s = split[k]
                          /\ p = FlattenSeq(Calm!Pending[k])
    OBVIOUS
  <2>3. /\ taken[k] \in Seq(Seq(Byte)) /\ out[k] \in Seq(Seq(Byte)) /\ s \in Seq(Byte)
        /\ form[k] \in Seq(Byte) /\ Calm!Pending[k] \in Seq(Seq(Byte))
    BY <2>1, <2>2, CalmPending DEF SendShape
  <2>4. o \in Seq(Byte) /\ p \in Seq(Byte)
    BY <2>2, <2>3, FlattenType
  <2>5. h \in Seq(Byte)
    <3>1. CASE Packs /\ th[Sender].q = k
      <4>1. Cumulative \in 0..Cache /\ Cumulative <= Len(form[k]) /\ Cache \in Nat
        BY <2>1, <3>1, SenderShapes DEF InPacket
      <4>2. PICK c, f : c = Cumulative /\ f = form[k]
        OBVIOUS
      <4>3. c \in Nat /\ f \in Seq(Byte) /\ c <= Len(f)
        BY <2>3, <4>1, <4>2
      <4>4. SubSeq(f, 1, c) \in Seq(Byte)
        BY <4>3
      <4> QED
        BY <2>2, <3>1, <4>2, <4>4 DEF InHand
    <3>2. CASE ~(Packs /\ th[Sender].q = k)
      BY <2>2, <3>2 DEF InHand
    <3> QED
      BY <3>1, <3>2
  <2>6. FlattenSeq(taken[k]) = (o \o h) \o s
    BY <2>1, <2>2 DEF Passed
  <2>7. Stream(k) = FlattenSeq(taken[k] \o Calm!Pending[k])
    BY <2>1 DEF Stream, Accounted, Queued
  <2>8. Stream(k) = ((o \o h) \o s) \o p
    BY <2>2, <2>3, <2>6, <2>7, FlattenConcat
  <2>9. ((o \o h) \o s) \o p = o \o (h \o (s \o p)) /\ h \o (s \o p) \in Seq(Byte)
    <3>1. h \o (s \o p) \in Seq(Byte)
      BY <2>3, <2>4, <2>5
    <3>2. ((o \o h) \o s) \o p = o \o (h \o (s \o p))
      <4>1. o \o h \in Seq(Byte) /\ s \o p \in Seq(Byte)
        BY <2>3, <2>4, <2>5
      <4>2. ((o \o h) \o s) \o p = (o \o h) \o (s \o p)
        BY <2>3, <2>4, <4>1
      <4>3. (o \o h) \o (s \o p) = o \o (h \o (s \o p))
        BY <2>4, <2>5, <4>1
      <4> QED
        BY <4>2, <4>3
    <3> QED
      BY <3>1, <3>2
  <2> QED
    BY <1>1, <2>2, <2>4, <2>8, <2>9
<1>4. CASE part # "send"
  <2>1. out[k] = <<>> /\ order[k] = <<>>
    BY <1>4 DEF StreamInv
  <2>2. Stream(k) = <<>>
    <3>1. [i \in 1..Len(order[k]) |-> Bytes(order[k][i])] = <<>>
      BY <2>1
    <3> QED
      BY <3>1, FlattenEmpty DEF Stream
  <2>3. FlattenSeq(out[k]) = <<>>
    BY <2>1, FlattenEmpty
  <2> QED
    BY <2>2, <2>3 DEF IsPrefix
<1> QED
  BY <1>3, <1>4

\* The packets a player is sent, read one after the other, are the messages that were
\* queued for it, whole and in order, whatever the sizes of the messages, the packets
\* and the rings and whichever threads send: SendPacketCache loses, repeats and mixes no
\* byte, as long as no two threads have been at work for one player at once (two share
\* the forming buffer, PlayerConnection.cpp:153) and the rings have room.
THEOREM StreamIsIntact ==
    ASSUME SendFits
    PROVE  IOSpec /\ []SendRoom => []StreamIntact
<1>1. IOInit => StreamInv
  <2>1. ASSUME IOInit PROVE StreamInv
    <3>1. SendInit
      BY <2>1 DEF IOInit
    <3> QED
      BY <3>1, StreamInit DEF StreamInv
  <2> QED
    BY <2>1
<1>2. StreamInv /\ SendRoom /\ SendRoom' /\ [IONext]_ioVars => StreamInv'
  BY StreamStep
<1>3. StreamInv => StreamIntact
  BY StreamMeans
<1> QED
  BY <1>1, <1>2, <1>3, PTL DEF IOSpec
=============================================================================
