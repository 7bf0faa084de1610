----------------------- MODULE SectorLifecycle_proofs -----------------------
(***************************************************************************)
(* Proofs about SectorLifecycle, for every pool size, set of sectors and   *)
(* players, and every choice of time limits.                               *)
(***************************************************************************)
EXTENDS SectorLifecycle, FiniteSetTheorems, TLAPS

\* Control points inside the critical section of EnsureSectorStarted, and the
\* ones where the caller has a manager in hand.
Crit == {"restart", "cold", "thread", "rthread", "listen", "rlisten", "stamp", "rstamp"}
Starting == {"thread", "rthread", "listen", "rlisten", "stamp", "rstamp"}

\* What a caller inside EnsureSectorStarted knows, and how it stays true: only
\* the holder of the start mutex changes the map.
CallerKnows(t) ==
    /\ pc[t] = "restart" => sectorMap[sec[t]] # NULL
    /\ pc[t] = "cold" => sectorMap[sec[t]] = NULL
    /\ pc[t] \in Starting => res[t] # NULL /\ res[t] = sectorMap[sec[t]]

\* The start mutex is held exactly in the two critical sections.
LockInv ==
    /\ \A t \in Callers : pc[t] \in Crit <=> lock = t
    /\ mpc \in {"offline", "join", "drop", "purge"} <=> lock = Main
    /\ mpc # "idle" => target # NULL

CallInv == \A t \in Callers : CallerKnows(t)

\* A call has a sector and a player for as long as it lasts.
ArgInv == \A t \in Callers : pc[t] # "idle" => sec[t] \in Sectors /\ who[t] \in Players

\* m_SectorMap and m_SectorID are inverse to each other.
MapInv ==
    /\ \A s \in Sectors : sectorMap[s] # NULL => sectorID[sectorMap[s]] = s
    /\ NoOrphanManager

\* A player of the galaxy, or one that logs in, has a sector number.
PlayerInv == \A p \in Players : cli[p] # "out" \/ stage[p] # 0 => psec[p] # NULL

BaseInv == TypeOK /\ LockInv /\ CallInv /\ ArgInv /\ MapInv /\ PlayerInv

TearingDown == mpc \in {"offline", "join", "drop", "purge"}

\* The manager TeardownSector has taken offline and not yet dropped.
Dropping(m) == mpc \in {"join", "drop"} /\ Current(m)

\* Teardown takes the family down one by one, its listeners last.
FamilyInv ==
    /\ TearingDown => target \in members
    /\ TearingDown => \A k \in members : k \in family \/ ~online[k]
    /\ mpc = "purge" => family = {}
    /\ TearingDown => \A k \in family : listener[k] = "live"
    /\ \A m \in Slots : Dropping(m) => ~online[m]

\* A manager that is being started is offline, and has its thread once created.
StartInv ==
    \A t \in Callers :
        /\ pc[t] = "restart" => ~online[sectorMap[sec[t]]]
        /\ pc[t] \in {"thread", "rthread", "listen", "rlisten"} => ~online[res[t]]
        /\ pc[t] \in {"listen", "rlisten"} => evThreads[res[t]] > 0

\* Everything an online manager has except its objects.
ServingInv ==
    \A m \in Slots : online[m] =>
        /\ listener[m] = "live"
        /\ evThreads[m] > 0
        /\ connDtls[m] # NULL /\ parkedDtls[m] = NULL
        /\ sectorID[m] # NULL

\* The one transport of a slot is on its live listener or parked.
DtlsInv ==
    \A m \in Slots :
        /\ listener[m] = "live" <=> connDtls[m] # NULL
        /\ listener[m] = "live" => online[m] \/ Dropping(m)
        /\ minted[m] <= 1
        /\ minted[m] = 1 => connDtls[m] # NULL \/ parkedDtls[m] # NULL

\* The objects are resident from the load to the purge.
DataInv ==
    /\ \A t \in Callers : pc[t] \in Starting /\ IsSpace(sec[t]) => deferred[sec[t]] > 0
    /\ \A m \in Slots : online[m] /\ IsSpace(sectorID[m]) => deferred[sectorID[m]] > 0

\* Where event threads are: online managers, the manager whose start has created
\* its thread and not yet bound the port, and the one teardown is about to join.
ThreadAt(m) ==
    \/ online[m]
    \/ \E t \in Callers : pc[t] \in {"listen", "rlisten"} /\ res[t] = m
    \/ mpc = "join" /\ Current(m)

ThreadInv ==
    /\ \A m \in Slots : evThreads[m] = IF ThreadAt(m) THEN 1 ELSE 0
    /\ TearingDown => \A k \in Slots :
           online[k] /\ Base(sectorID[k]) = Base(sectorID[target]) => k \in family

-----------------------------------------------------------------------------
(* Lemmas about the operators. *)

\* The sector LaunchIntoSpace computes from a sector id is a sector: the space
\* sector a station hangs on is one of the ids handoffs name.
LEMMA BaseIsSector == \A s \in Sectors : Base(s) \in Sectors
  BY SectorAssumption DEF Base, IsSpace

\* A space sector's own id keys its object manager.
LEMMA SpaceId == \A s \in Sectors : Base(s) \in SpaceIds /\ (IsSpace(s) => s \in SpaceIds)
  BY DEF SpaceIds, Base

\* The threads are distinct and none of them is the free mark.
LEMMA ThreadIds ==
    /\ Master \in Callers /\ Login \in Callers /\ Slots \subseteq Callers
    /\ Main \notin Callers /\ Free \notin Callers /\ Main # Free
    /\ NULL \notin Slots /\ NULL \notin Sectors
  BY PoolAssumption, SectorAssumption
     DEF Master, Login, Callers, Slots, Main, Free, NULL

-----------------------------------------------------------------------------
(* Type correctness and the discipline of the start mutex. *)

\* The initial state satisfies the invariant.
LEMMA InitBase == Init => BaseInv
<1> SUFFICES ASSUME Init PROVE BaseInv
  OBVIOUS
<1> USE DEF Init
<1>1. TypeOKMgr
  BY DEF TypeOKMgr, ThreadBound, MintBound, LoadBound, NULL
<1>2. TypeOKLists
  BY TimeAssumption DEF TypeOKLists
<1>3. TypeOKCalls /\ TypeOKTeardown
  BY DEF TypeOKCalls, TypeOKTeardown
<1>4. TypeOKPlayers
  BY TimeAssumption DEF TypeOKPlayers, LAST, AckStages
<1>5. LockInv
  BY ThreadIds DEF LockInv, Crit
<1>6. CallInv /\ ArgInv /\ MapInv /\ PlayerInv
  BY ThreadIds DEF CallInv, ArgInv, CallerKnows, Starting, MapInv, NoOrphanManager, PlayerInv
<1> QED
  BY <1>1, <1>2, <1>3, <1>4, <1>5, <1>6 DEF BaseInv, TypeOK

\* A step outside both critical sections: managers, mutex and teardown are as they
\* were, and so is every caller that is, or then is, in the critical section.
OutsideStep ==
    /\ UNCHANGED <<mgrVars, lock, tdVars>>
    /\ \A t \in Callers : \/ pc'[t] = pc[t] /\ sec'[t] = sec[t] /\ res'[t] = res[t]
                          \/ pc[t] \notin Crit /\ pc'[t] \notin Crit

\* What is left to show of such a step.
OutsideOK == /\ OutsideStep
             /\ TypeOKLists' /\ TypeOKCalls' /\ TypeOKPlayers'
             /\ ArgInv' /\ PlayerInv'

\* A step outside the start and teardown paths that keeps the types keeps the
\* invariant.
LEMMA OutsideBase ==
    ASSUME BaseInv, OutsideOK
    PROVE  BaseInv'
<1> USE DEF OutsideOK, OutsideStep
<1>1. TypeOKMgr' /\ TypeOKTeardown'
  BY DEF BaseInv, TypeOK, TypeOKMgr, TypeOKTeardown, mgrVars, tdVars
<1>2. LockInv'
  BY DEF BaseInv, LockInv, tdVars
<1>3. CallInv'
  BY DEF BaseInv, CallInv, CallerKnows, Crit, Starting, mgrVars
<1>4. MapInv'
  BY DEF BaseInv, MapInv, NoOrphanManager, mgrVars
<1> QED
  BY <1>1, <1>2, <1>3, <1>4 DEF BaseInv, TypeOK

\* The parts of the base invariant about calls, lists and players, in the form the
\* case analyses use them.
Typed == TypeOKLists /\ TypeOKCalls /\ TypeOKPlayers /\ ArgInv /\ PlayerInv

\* A call that starts records a sector and a player as its arguments.
LEMMA CallOK ==
    ASSUME TypeOKCalls, ArgInv, lock' = lock,
           NEW t \in Callers, NEW k \in {"route", "stage4", "gate", "xfer"},
           NEW s \in Sectors, NEW p \in Players,
           pc[t] = "idle", Call(t, k, s, p)
    PROVE  TypeOKCalls' /\ ArgInv'
  BY DEF TypeOKCalls, ArgInv, Call

\* A call that returns keeps the calls typed.
LEMMA DoneOK ==
    ASSUME TypeOKCalls, ArgInv, lock' = lock,
           NEW t \in Callers, Done(t)
    PROVE  TypeOKCalls' /\ ArgInv'
  BY DEF TypeOKCalls, ArgInv, Done

\* An update keeps a function typed, wherever the index lies.
LEMMA UpdateOK ==
    ASSUME NEW S, NEW T, NEW f \in [S -> T], NEW x, NEW v \in T
    PROVE  [f EXCEPT ![x] = v] \in [S -> T]
  BY Zenon

\* Stamping a manager's last activity keeps the ages within their bound.
LEMMA StampOK ==
    ASSUME NEW m \in Slots, Stamp(m), age \in [Slots -> 0 .. (IdleTeardown + 1)]
    PROVE  age' \in [Slots -> 0 .. (IdleTeardown + 1)]
  BY TimeAssumption DEF Stamp

\* Releasing a player node keeps the player's variables typed.
LEMMA DroppedOK ==
    ASSUME TypeOKPlayers, PlayerInv, TypeOKLists, NEW p \in Players, Dropped(p),
           UNCHANGED <<age, contiguous>>
    PROVE  TypeOKPlayers' /\ PlayerInv' /\ TypeOKLists'
  BY TimeAssumption DEF TypeOKPlayers, PlayerInv, Dropped, AckStages, LAST, TypeOKLists, Without, SlotOf

\* A step that leaves managers, mutex, teardown and calls alone is an outside
\* step.
LEMMA IdleOutside ==
    ASSUME UNCHANGED <<mgrVars, lock, tdVars, callVars>>, Typed
    PROVE  OutsideStep /\ TypeOKCalls' /\ ArgInv'
  BY DEF OutsideStep, callVars, Typed, TypeOKCalls, ArgInv

\* A call that starts, and one that returns, are outside steps.
LEMMA CallOutside ==
    ASSUME UNCHANGED <<mgrVars, lock, tdVars>>, Typed,
           NEW t \in Callers, NEW k \in {"route", "stage4", "gate", "xfer"},
           NEW s \in Sectors, NEW p \in Players,
           pc[t] = "idle", Call(t, k, s, p)
    PROVE  OutsideStep /\ TypeOKCalls' /\ ArgInv'
<1>1. OutsideStep
  BY DEF OutsideStep, Call, Crit, Typed, TypeOKCalls
<1> QED
  BY <1>1, CallOK DEF Typed

\* A call that returns is an outside step.
LEMMA DoneOutside ==
    ASSUME UNCHANGED <<mgrVars, lock, tdVars>>, Typed,
           NEW t \in Callers, pc[t] = "ret", Done(t)
    PROVE  OutsideStep /\ TypeOKCalls' /\ ArgInv'
<1>1. OutsideStep
  BY DEF OutsideStep, Done, Crit, Typed, TypeOKCalls
<1> QED
  BY <1>1, DoneOK DEF Typed

\* The stages of a login leave the callers alone and keep players typed.
LEMMA StageOK ==
    ASSUME Typed, NEW p \in Players, NEW n \in AckStages \cup {LAST}, NextStage(p, n),
           psec[p] # NULL, UNCHANGED <<cli, psec, via, gateDest>>
    PROVE  TypeOKPlayers' /\ PlayerInv'
  BY TimeAssumption DEF Typed, TypeOKPlayers, PlayerInv, NextStage, AckStages, LAST

\* No handler of a player's connection touches the pool of managers or the
\* mutex.
LEMMA PlayerStepOutside ==
    ASSUME BaseInv, NEW p \in Players, PlayerStep(p)
    PROVE  OutsideOK
<1>0. Typed
  BY DEF BaseInv, TypeOK, Typed
<1>1. CASE \E s \in Sectors : Connect(p, s)
  <2>1. PICK s \in Sectors : Connect(p, s)
    BY <1>1
  <2>2. TypeOKPlayers' /\ PlayerInv' /\ TypeOKLists'
    BY <1>0, <2>1, ThreadIds DEF Connect, Typed, TypeOKPlayers, PlayerInv, TypeOKLists
  <2> QED
    BY <1>0, <2>1, <2>2, IdleOutside DEF Connect, OutsideOK
<1>2. CASE Logout(p)
  <2>1. TypeOKPlayers' /\ PlayerInv' /\ TypeOKLists'
    BY <1>0, <1>2, DroppedOK DEF Logout, Typed
  <2> QED
    BY <1>0, <1>2, <2>1, IdleOutside DEF Logout, OutsideOK
<1>3. CASE MasterHandoff(p)
  <2>1. psec[p] \in Sectors
    BY <1>0, <1>3 DEF MasterHandoff, Typed, PlayerInv, TypeOKPlayers
  <2>2. OutsideStep /\ TypeOKCalls' /\ ArgInv'
    BY <1>0, <1>3, <2>1, CallOutside, ThreadIds DEF MasterHandoff
  <2>3. TypeOKPlayers' /\ PlayerInv' /\ TypeOKLists'
    BY <1>0, <1>3 DEF MasterHandoff, Typed, TypeOKPlayers, PlayerInv, TypeOKLists, playerVars
  <2> QED
    BY <2>2, <2>3 DEF OutsideOK
<1>4. CASE HandleLogin(p)
  <2>1. TypeOKPlayers' /\ PlayerInv'
    BY <1>0, <1>4 DEF HandleLogin, Typed, TypeOKPlayers, PlayerInv, Reachable, AckStages, LAST
  <2>2. TypeOKLists'
    <3>1. sectorMap[via[p]] \in Slots
      BY <1>0, <1>4
         DEF HandleLogin, Reachable, LookupSectorServer, BaseInv, TypeOK, TypeOKMgr,
             Typed, TypeOKPlayers
    <3> QED
      BY <1>0, <1>4, <3>1, StampOK DEF HandleLogin, Typed, TypeOKLists
  <2> QED
    BY <1>0, <1>4, <2>1, <2>2, IdleOutside DEF HandleLogin, OutsideOK
<1>5. CASE LoginStage1(p)
  <2>1. TypeOKPlayers' /\ PlayerInv' /\ TypeOKLists'
    BY <1>0, <1>5, SectorAssumption, TimeAssumption, ThreadIds
       DEF LoginStage1, Typed, TypeOKPlayers, PlayerInv, TypeOKLists, AckStages, LAST
  <2> QED
    BY <1>0, <1>5, <2>1, IdleOutside DEF LoginStage1, OutsideOK
<1>6. CASE LoginStage4(p)
  <2>1. CASE SlotOf(p) = NULL
    <3>1. psec[p] \in Sectors
      BY <1>0, <1>6 DEF LoginStage4, Acked, Typed, PlayerInv, TypeOKPlayers
    <3>2. OutsideStep /\ TypeOKCalls' /\ ArgInv'
      BY <1>0, <1>6, <2>1, <3>1, CallOutside, ThreadIds DEF LoginStage4, Acked
    <3>3. TypeOKPlayers' /\ PlayerInv' /\ TypeOKLists'
      BY <1>0, <1>6, <2>1 DEF LoginStage4, Typed, TypeOKPlayers, PlayerInv, TypeOKLists
    <3> QED
      BY <3>2, <3>3 DEF OutsideOK
  <2>2. CASE SlotOf(p) # NULL
    <3>1. TypeOKPlayers' /\ PlayerInv'
      BY <1>0, <1>6, <2>2, StageOK DEF LoginStage4, AckStages, Acked, Typed, PlayerInv
    <3> QED
      BY <1>0, <1>6, <2>2, <3>1, IdleOutside DEF LoginStage4, OutsideOK, Typed, TypeOKLists
  <2> QED
    BY <2>1, <2>2
<1>7. CASE LoginStage7(p)
  <2>1. TypeOKPlayers' /\ PlayerInv'
    BY <1>0, <1>7, StageOK DEF LoginStage7, AckStages, Acked, Typed, PlayerInv
  <2> QED
    BY <1>0, <1>7, <2>1, IdleOutside DEF LoginStage7, OutsideOK, Typed, TypeOKLists
<1>8. CASE LoginStage10(p)
  <2>1. TypeOKPlayers' /\ PlayerInv'
    BY <1>0, <1>8, StageOK DEF LoginStage10, AckStages, Acked, Typed, PlayerInv
  <2>2. TypeOKLists'
    BY <1>0, <1>8 DEF LoginStage10, Typed, TypeOKLists
  <2> QED
    BY <1>0, <1>8, <2>1, <2>2, IdleOutside DEF LoginStage10, OutsideOK
<1>9. CASE LoginComplete(p)
  <2>1. TypeOKPlayers' /\ PlayerInv'
    BY <1>0, <1>9, StageOK DEF LoginComplete, Acked, Typed, PlayerInv
  <2> QED
    BY <1>0, <1>9, <2>1, IdleOutside DEF LoginComplete, OutsideOK, Typed, TypeOKLists
<1>10. CASE LoginTimeout(p)
  <2>1. TypeOKPlayers' /\ PlayerInv' /\ TypeOKLists'
    BY <1>0, <1>10, DroppedOK DEF LoginTimeout, Typed
  <2> QED
    BY <1>0, <1>10, <2>1, IdleOutside DEF LoginTimeout, OutsideOK
<1> QED
  BY <1>1, <1>2, <1>3, <1>4, <1>5, <1>6, <1>7, <1>8, <1>9, <1>10 DEF PlayerStep

\* No step of a sector's event thread touches the pool of managers or the
\* mutex.
LEMMA EventStepOutside ==
    ASSUME BaseInv, NEW m \in Slots, EventStep(m)
    PROVE  OutsideOK
<1>0. Typed /\ m \in Callers
  BY ThreadIds DEF BaseInv, TypeOK, Typed
<1>1. ASSUME NEW p \in Players, NEW d \in Sectors, GateOrDock(m, p, d)
      PROVE  OutsideOK
  <2>1. OutsideStep /\ TypeOKCalls' /\ ArgInv'
    BY <1>0, <1>1, CallOutside DEF GateOrDock, Serving
  <2>2. TypeOKPlayers' /\ PlayerInv' /\ TypeOKLists'
    BY <1>0, <1>1 DEF GateOrDock, Typed, TypeOKPlayers, PlayerInv, TypeOKLists
  <2> QED
    BY <2>1, <2>2 DEF OutsideOK
<1>2. ASSUME NEW p \in Players, NEW d \in Sectors, Handoff(m, p, d)
      PROVE  OutsideOK
  <2>1. OutsideStep /\ TypeOKCalls' /\ ArgInv'
    BY <1>0, <1>2, CallOutside DEF Handoff, Serving
  <2>2. TypeOKPlayers' /\ PlayerInv' /\ TypeOKLists'
    BY <1>0, <1>2, ThreadIds
       DEF Handoff, Typed, TypeOKPlayers, PlayerInv, TypeOKLists, Without
  <2> QED
    BY <2>1, <2>2 DEF OutsideOK
<1>3. ASSUME NEW p \in Players, NEW d \in Sectors, Transfer(m, p, d)
      PROVE  OutsideOK
  BY <1>2, <1>3 DEF Transfer
<1>4. ASSUME NEW p \in Players, FinishGate(m, p)
      PROVE  OutsideOK
  <2>1. gateDest[p] \in Sectors
    BY <1>0, <1>4 DEF FinishGate, Typed, TypeOKPlayers
  <2> QED
    BY <1>2, <1>4, <2>1 DEF FinishGate
<1>5. ASSUME NEW p \in Players, LaunchIntoSpace(m, p)
      PROVE  OutsideOK
  <2>1. psec[p] \in Sectors
    BY <1>0, <1>5 DEF LaunchIntoSpace, Handoff, Typed, TypeOKPlayers, PlayerInv
  <2> QED
    BY <1>2, <1>5, <2>1, BaseIsSector DEF LaunchIntoSpace
<1>6. ASSUME NEW p \in Players, AppendDeco(m, p)
      PROVE  OutsideOK
  <2>1. TypeOKPlayers' /\ PlayerInv' /\ TypeOKLists'
    BY <1>0, <1>6 DEF AppendDeco, Typed, TypeOKPlayers, PlayerInv, TypeOKLists, playerVars
  <2> QED
    BY <1>0, <1>6, <2>1, IdleOutside DEF AppendDeco, OutsideOK
<1>7. CASE EventReturn(m)
  <2>1. OutsideStep /\ TypeOKCalls' /\ ArgInv'
    BY <1>0, <1>7, DoneOutside DEF EventReturn
  <2>2. who[m] \in Players /\ sec[m] \in Sectors
    BY <1>0, <1>7 DEF EventReturn, Typed, ArgInv
  <2>3. TypeOKPlayers' /\ PlayerInv'
    BY <1>0, <1>7, <2>2 DEF EventReturn, Typed, TypeOKPlayers, PlayerInv
  <2>4. TypeOKLists'
    BY <1>0, <1>7, <2>2 DEF EventReturn, Typed, TypeOKLists
  <2> QED
    BY <2>1, <2>3, <2>4 DEF OutsideOK
<1>8. CASE SweepList(m)
  <2>1. TypeOKPlayers' /\ PlayerInv' /\ TypeOKLists'
    BY <1>0, <1>8
       DEF SweepList, Swept, Typed, TypeOKPlayers, PlayerInv, TypeOKLists, playerVars
  <2> QED
    BY <1>0, <1>8, <2>1, IdleOutside DEF SweepList, OutsideOK
<1> QED
  BY <1>1, <1>3, <1>4, <1>5, <1>6, <1>7, <1>8 DEF EventStep

\* What a caller does with the answer of EnsureSectorStarted leaves the pool
\* and the mutex alone.
LEMMA ReturnOutside ==
    ASSUME BaseInv, MasterReply \/ LoginStage4Return
    PROVE  OutsideOK
<1>0. Typed
  BY DEF BaseInv, TypeOK, Typed
<1>1. CASE MasterReply
  <2>1. OutsideStep /\ TypeOKCalls' /\ ArgInv'
    BY <1>0, <1>1, DoneOutside, ThreadIds DEF MasterReply
  <2>2. who[Master] \in Players /\ sec[Master] \in Sectors
    BY <1>0, <1>1, ThreadIds DEF MasterReply, Typed, ArgInv
  <2>3. TypeOKPlayers' /\ PlayerInv' /\ TypeOKLists'
    BY <1>0, <1>1, <2>2 DEF MasterReply, Typed, TypeOKPlayers, PlayerInv, TypeOKLists
  <2> QED
    BY <2>1, <2>3 DEF OutsideOK
<1>2. CASE LoginStage4Return
  <2>1. OutsideStep /\ TypeOKCalls' /\ ArgInv'
    BY <1>0, <1>2, DoneOutside, ThreadIds DEF LoginStage4Return
  <2>2. who[Login] \in Players
    BY <1>0, <1>2, ThreadIds DEF LoginStage4Return, Typed, ArgInv
  <2>3. TypeOKPlayers' /\ PlayerInv'
    <3>1. CASE who[Login] \in InGalaxy
      BY <1>0, <1>2, <2>2, <3>1, StageOK
         DEF LoginStage4Return, InGalaxy, AckStages, Typed, PlayerInv
    <3>2. CASE who[Login] \notin InGalaxy
      BY <1>0, <1>2, <3>2 DEF LoginStage4Return, Typed, TypeOKPlayers, PlayerInv
    <3> QED
      BY <3>1, <3>2
  <2> QED
    BY <1>0, <1>2, <2>1, <2>3 DEF OutsideOK, LoginStage4Return, Typed, TypeOKLists
<1> QED
  BY <1>1, <1>2

\* The passing of time leaves the pool and the mutex alone.
LEMMA TickOutside ==
    ASSUME BaseInv, Tick
    PROVE  OutsideOK
<1>0. Typed
  BY DEF BaseInv, TypeOK, Typed
<1>1. TypeOKLists'
  BY <1>0, TimeAssumption DEF Tick, Typed, TypeOKLists
<1>2. TypeOKPlayers' /\ PlayerInv'
  BY <1>0, TimeAssumption DEF Tick, Typed, TypeOKPlayers, PlayerInv
<1> QED
  BY <1>0, <1>1, <1>2, IdleOutside DEF Tick, OutsideOK

\* The lock-free lookup before the mutex is an outside step.
LEMMA FastPathOutside ==
    ASSUME BaseInv, NEW t \in Callers, FastPath(t)
    PROVE  OutsideOK
<1>0. Typed /\ TypeOKMgr
  BY DEF BaseInv, TypeOK, Typed
<1>1. sec[t] \in Sectors
  BY <1>0 DEF FastPath, Typed, ArgInv
<1>2. OutsideStep /\ TypeOKCalls' /\ ArgInv'
  BY <1>0, <1>1
     DEF FastPath, Return, Goto, OutsideStep, Crit, Typed, TypeOKCalls, ArgInv, TypeOKMgr
<1>3. TypeOKLists'
  BY <1>0, <1>1, StampOK DEF FastPath, Typed, TypeOKLists, TypeOKMgr
<1>4. TypeOKPlayers' /\ PlayerInv'
  BY <1>0 DEF FastPath, Typed, TypeOKPlayers, PlayerInv, playerVars
<1> QED
  BY <1>2, <1>3, <1>4 DEF OutsideOK

\* The steps of EnsureSectorStarted with the mutex: the caller is the holder, so
\* what the other callers know is untouched.
LEMMA EnsureBase ==
    ASSUME BaseInv, NEW t \in Callers, EnsureSectorStarted(t)
    PROVE  BaseInv'
<1>0. Typed /\ TypeOKMgr /\ TypeOKTeardown /\ LockInv /\ CallInv /\ MapInv
  BY DEF BaseInv, TypeOK, Typed
<1>1. CASE FastPath(t)
  BY <1>1, FastPathOutside, OutsideBase
<1>2. CASE TakeLock(t)
  <2>1. sec[t] \in Sectors
    BY <1>0, <1>2 DEF TakeLock, Typed, ArgInv
  <2>2. TypeOKCalls' /\ ArgInv'
    BY <1>0, <1>2, <2>1 DEF TakeLock, Return, Goto, Typed, TypeOKCalls, ArgInv, TypeOKMgr
  <2>3. LockInv'
    BY <1>0, <1>2, ThreadIds
       DEF TakeLock, Return, Goto, Typed, TypeOKCalls, LockInv, Crit, tdVars
  <2>4. CallInv'
    BY <1>0, <1>2
       DEF TakeLock, Return, Goto, Typed, TypeOKCalls, CallInv, CallerKnows, Starting, mgrVars
  <2>5. TypeOKMgr' /\ TypeOKLists' /\ TypeOKTeardown' /\ TypeOKPlayers' /\ PlayerInv' /\ MapInv'
    BY <1>0, <1>2
       DEF TakeLock, Typed, TypeOKMgr, TypeOKLists, TypeOKTeardown, TypeOKPlayers, PlayerInv,
           MapInv, NoOrphanManager, mgrVars, tdVars, playerVars
  <2> QED
    BY <2>2, <2>3, <2>4, <2>5 DEF BaseInv, TypeOK
<1>3. CASE Restart(t)
  <2>1. sec[t] \in Sectors /\ sectorMap[sec[t]] \in Slots
    BY <1>0, <1>3 DEF Restart, Typed, ArgInv, TypeOKMgr, CallInv, CallerKnows
  <2>2. deferred' \in [SpaceIds -> 0 .. LoadBound]
    BY <1>0, <1>3 DEF Restart, Load, TypeOKMgr, LoadBound
  <2>3. TypeOKCalls' /\ ArgInv'
    BY <1>0, <1>3, <2>1 DEF Restart, Typed, TypeOKCalls, ArgInv
  <2>4. LockInv'
    BY <1>0, <1>3 DEF Restart, Typed, TypeOKCalls, LockInv, Crit, tdVars
  <2>5. CallInv'
    BY <1>0, <1>3, <2>1, ThreadIds
       DEF Restart, Typed, TypeOKCalls, CallInv, CallerKnows, Starting
  <2>6. TypeOKMgr' /\ TypeOKLists' /\ TypeOKTeardown' /\ TypeOKPlayers' /\ PlayerInv' /\ MapInv'
    BY <1>0, <1>3, <2>2
       DEF Restart, Typed, TypeOKMgr, TypeOKLists, TypeOKTeardown, TypeOKPlayers, PlayerInv,
           MapInv, NoOrphanManager, tdVars, playerVars
  <2> QED
    BY <2>3, <2>4, <2>5, <2>6 DEF BaseInv, TypeOK
<1>4. CASE ColdStart(t)
  <2>1. /\ sec[t] \in Sectors /\ sectorMap[sec[t]] = NULL
        /\ lock = t /\ mpc \notin {"offline", "join", "drop", "purge"}
    BY <1>0, <1>4, ThreadIds
       DEF ColdStart, Typed, ArgInv, CallInv, CallerKnows, LockInv, Crit
  <2>2. deferred' \in [SpaceIds -> 0 .. LoadBound]
    BY <1>0, <1>4 DEF ColdStart, Load, TypeOKMgr, LoadBound
  <2>3. TypeOKCalls' /\ ArgInv'
    BY <1>0, <1>4, <2>1 DEF ColdStart, Unassigned, Return, Typed, TypeOKCalls, ArgInv
  <2>4. LockInv'
    BY <1>0, <1>4, <2>1, ThreadIds
       DEF ColdStart, Return, Typed, TypeOKCalls, LockInv, Crit, tdVars
  <2>5. CASE Unassigned = {} /\ UNCHANGED <<sectorMap, sectorID, sectorCount>> /\ Return(t, NULL)
    <3>1. CallInv'
      BY <1>0, <1>4, <2>5
         DEF ColdStart, Return, Typed, TypeOKCalls, CallInv, CallerKnows, Starting
    <3>2. TypeOKMgr' /\ MapInv'
      BY <1>0, <1>4, <2>2, <2>5 DEF ColdStart, TypeOKMgr, MapInv, NoOrphanManager
    <3> QED
      BY <1>0, <1>4, <2>3, <2>4, <3>1, <3>2
         DEF ColdStart, BaseInv, TypeOK, Typed, TypeOKLists, TypeOKTeardown, TypeOKPlayers,
             PlayerInv, tdVars, playerVars
  <2>6. ASSUME NEW m \in Unassigned,
               sectorID' = [sectorID EXCEPT ![m] = sec[t]],
               sectorMap' = [sectorMap EXCEPT ![sec[t]] = m],
               sectorCount' = sectorCount + 1,
               \/ /\ pc' = [pc EXCEPT ![t] = "thread"]
                  /\ res' = [res EXCEPT ![t] = m]
                  /\ UNCHANGED <<kind, sec, who, lock>>
               \/ Return(t, NULL)
        PROVE  BaseInv'
    <3>0. m \in Slots /\ sectorID[m] = NULL
      BY <2>6 DEF Unassigned
    <3>1. CallInv'
      <4> SUFFICES ASSUME NEW u \in Callers PROVE CallerKnows(u)'
        BY DEF CallInv
      <4>1. CASE u = t
        BY <1>0, <2>1, <2>6, <3>0, <4>1, ThreadIds
           DEF Return, Typed, TypeOKCalls, TypeOKMgr, CallerKnows, Starting
      <4>2. CASE u # t
        <5>1. pc[u] \notin Crit /\ pc'[u] = pc[u]
          BY <1>0, <2>1, <2>6, <4>2 DEF Return, Typed, TypeOKCalls, LockInv
        <5> QED
          BY <5>1 DEF CallerKnows, Crit, Starting
      <4> QED
        BY <4>1, <4>2
    <3>2. TypeOKMgr'
      BY <1>0, <1>4, <2>1, <2>2, <2>6, <3>0 DEF ColdStart, TypeOKMgr
    <3>3. MapInv'
      BY <1>0, <2>1, <2>6, <3>0, ThreadIds DEF TypeOKMgr, MapInv, NoOrphanManager
    <3> QED
      BY <1>0, <1>4, <2>3, <2>4, <3>1, <3>2, <3>3
         DEF ColdStart, BaseInv, TypeOK, Typed, TypeOKLists, TypeOKTeardown, TypeOKPlayers,
             PlayerInv, tdVars, playerVars
  <2> QED
    BY <1>4, <2>5, <2>6 DEF ColdStart
<1>5. CASE BeginThread(t)
  <2>0. res[t] \in Slots
    BY <1>0, <1>5 DEF BeginThread, CallInv, CallerKnows, Starting, Typed, TypeOKCalls
  <2>1. TypeOKMgr'
    BY <1>0, <1>5, <2>0 DEF BeginThread, TypeOKMgr, ThreadBound
  <2>2. TypeOKCalls' /\ ArgInv'
    BY <1>0, <1>5 DEF BeginThread, Goto, Typed, TypeOKCalls, ArgInv
  <2>3. LockInv' /\ CallInv'
    BY <1>0, <1>5
       DEF BeginThread, Goto, Typed, TypeOKCalls, LockInv, Crit, CallInv, CallerKnows,
           Starting, tdVars
  <2> QED
    BY <1>0, <1>5, <2>1, <2>2, <2>3
       DEF BeginThread, BaseInv, TypeOK, Typed, TypeOKLists, TypeOKTeardown, TypeOKPlayers,
           PlayerInv, MapInv, NoOrphanManager, tdVars, playerVars
<1>6. CASE BeginListener(t)
  <2>1. PICK ok \in BindOutcomes : /\ StartListener(res[t], ok)
                                   /\ online' = [online EXCEPT ![res[t]] = @ \/ ok]
    BY <1>6 DEF BeginListener
  <2>2. res[t] \in Slots
    BY <1>0, <1>6 DEF BeginListener, CallInv, CallerKnows, Starting, Typed, TypeOKCalls
  <2>3. TypeOKMgr'
    <3>1. online' \in [Slots -> BOOLEAN]
      BY <1>0, <2>1, <2>2, BindAssumption DEF TypeOKMgr
    <3>2. /\ listener' \in [Slots -> {"none", "live", "freed"}]
          /\ connDtls' \in [Slots -> 0 .. MintBound]
          /\ parkedDtls' \in [Slots -> 0 .. MintBound]
          /\ minted' \in [Slots -> 0 .. MintBound]
      BY <1>0, <2>1, <2>2 DEF TypeOKMgr, StartListener, MintBound, NULL
    <3> QED
      BY <1>0, <1>6, <3>1, <3>2 DEF BeginListener, TypeOKMgr
  <2>4. TypeOKCalls' /\ ArgInv'
    BY <1>0, <1>6 DEF BeginListener, Goto, Typed, TypeOKCalls, ArgInv
  <2>5. LockInv' /\ CallInv'
    BY <1>0, <1>6
       DEF BeginListener, Goto, Typed, TypeOKCalls, LockInv, Crit, CallInv, CallerKnows,
           Starting, tdVars
  <2> QED
    BY <1>0, <1>6, <2>3, <2>4, <2>5
       DEF BeginListener, BaseInv, TypeOK, Typed, TypeOKLists, TypeOKTeardown, TypeOKPlayers,
           PlayerInv, MapInv, NoOrphanManager, tdVars, playerVars
<1>7. CASE FinishStart(t)
  <2>1. res[t] \in Slots /\ lock = t
    BY <1>0, <1>7
       DEF FinishStart, CallInv, CallerKnows, Starting, Typed, TypeOKCalls, LockInv, Crit
  <2>2. TypeOKLists' /\ TypeOKMgr'
    BY <1>0, <1>7, <2>1, StampOK DEF FinishStart, Typed, TypeOKLists, TypeOKMgr
  <2>3. TypeOKCalls' /\ ArgInv'
    BY <1>0, <1>7 DEF FinishStart, Goto, Typed, TypeOKCalls, ArgInv
  <2>4. LockInv' /\ CallInv'
    BY <1>0, <1>7, <2>1, ThreadIds
       DEF FinishStart, Goto, Typed, TypeOKCalls, LockInv, Crit, CallInv, CallerKnows,
           Starting, tdVars
  <2> QED
    BY <1>0, <1>7, <2>2, <2>3, <2>4
       DEF FinishStart, BaseInv, TypeOK, Typed, TypeOKTeardown, TypeOKPlayers,
           PlayerInv, MapInv, NoOrphanManager, tdVars, playerVars
<1> QED
  BY <1>1, <1>2, <1>3, <1>4, <1>5, <1>6, <1>7 DEF EnsureSectorStarted

\* The main thread never touches a caller; with the mutex it excludes them all.
LEMMA MainBase ==
    ASSUME BaseInv, (\E m \in Slots : Poll(m)) \/ Teardown
    PROVE  BaseInv'
<1>0. Typed /\ TypeOKMgr /\ TypeOKTeardown /\ LockInv /\ CallInv /\ MapInv
  BY DEF BaseInv, TypeOK, Typed
<1> DEFINE Rest == /\ TypeOKCalls' /\ ArgInv' /\ CallInv' /\ MapInv'
                   /\ TypeOKPlayers' /\ PlayerInv'
<1>1. ASSUME UNCHANGED <<sectorMap, sectorID, callVars, playerVars>>,
             lock' \in {lock, Main, Free}
      PROVE  Rest
  BY <1>0, <1>1
     DEF Typed, TypeOKCalls, ArgInv, CallInv, CallerKnows, MapInv, NoOrphanManager,
         TypeOKPlayers, PlayerInv, callVars, playerVars
<1>2. ASSUME NEW m \in Slots, Poll(m) PROVE BaseInv'
  <2>1. Rest
    BY <1>1, <1>2 DEF Poll, mgrVars
  <2>2. TypeOKLists'
    BY <1>0, <1>2, StampOK DEF Poll, Swept, Typed, TypeOKLists
  <2>3. TypeOKMgr' /\ TypeOKTeardown' /\ LockInv'
    BY <1>0, <1>2, ThreadIds
       DEF Poll, TypeOKMgr, TypeOKTeardown, LockInv, mgrVars, tdVars, callVars
  <2> QED
    BY <2>1, <2>2, <2>3 DEF BaseInv, TypeOK
<1>3. CASE TeardownBegin
  <2>0. target \in Slots
    BY <1>0, <1>3 DEF TeardownBegin, LockInv, TypeOKTeardown
  <2>1. Rest
    BY <1>1, <1>3 DEF TeardownBegin, mgrVars
  <2>2. TypeOKLists'
    BY <1>0, <1>3, <2>0, StampOK DEF TeardownBegin, Swept, Typed, TypeOKLists
  <2>3. TypeOKMgr' /\ TypeOKTeardown'
    BY <1>0, <1>3 DEF TeardownBegin, Family, TypeOKMgr, TypeOKTeardown, mgrVars
  <2>4. LockInv'
    BY <1>0, <1>3, ThreadIds DEF TeardownBegin, LockInv, callVars
  <2> QED
    BY <2>1, <2>2, <2>3, <2>4 DEF BaseInv, TypeOK
<1>4. ASSUME NEW m \in Slots, TakeOffline(m) PROVE BaseInv'
  <2>1. Rest
    BY <1>1, <1>4 DEF TakeOffline
  <2>2. TypeOKMgr' /\ TypeOKTeardown' /\ LockInv' /\ TypeOKLists'
    BY <1>0, <1>4
       DEF TakeOffline, TypeOKMgr, TypeOKTeardown, LockInv, callVars, Typed, TypeOKLists
  <2> QED
    BY <2>1, <2>2 DEF BaseInv, TypeOK
<1>5. ASSUME NEW m \in Slots, StopSectorThread(m) PROVE BaseInv'
  <2>1. Rest
    BY <1>1, <1>5 DEF StopSectorThread
  <2>2. TypeOKMgr'
    BY <1>0, <1>5 DEF StopSectorThread, TypeOKMgr, ThreadBound
  <2>3. TypeOKTeardown' /\ LockInv' /\ TypeOKLists'
    BY <1>0, <1>5 DEF StopSectorThread, TypeOKTeardown, LockInv, callVars, Typed, TypeOKLists
  <2> QED
    BY <2>1, <2>2, <2>3 DEF BaseInv, TypeOK
<1>6. ASSUME NEW m \in Slots, DropListener(m) PROVE BaseInv'
  <2>1. Rest
    BY <1>1, <1>6 DEF DropListener
  <2>2. TypeOKMgr'
    BY <1>0, <1>6 DEF DropListener, TypeOKMgr, MintBound, NULL
  <2>3. TypeOKTeardown' /\ LockInv' /\ TypeOKLists'
    BY <1>0, <1>6 DEF DropListener, TypeOKTeardown, LockInv, callVars, Typed, TypeOKLists
  <2> QED
    BY <2>1, <2>2, <2>3 DEF BaseInv, TypeOK
<1>7. CASE Purge
  <2>1. Rest
    BY <1>1, <1>7 DEF Purge
  <2>2. TypeOKMgr'
    <3>1. deferred \in [SpaceIds -> 0 .. LoadBound] /\ 0 \in 0 .. LoadBound
      BY <1>0 DEF TypeOKMgr, LoadBound
    <3>2. deferred' \in [SpaceIds -> 0 .. LoadBound]
      BY <1>7, <3>1, UpdateOK DEF Purge
    <3> QED
      BY <1>0, <1>7, <3>2 DEF Purge, TypeOKMgr
  <2>3. TypeOKTeardown' /\ LockInv' /\ TypeOKLists'
    BY <1>0, <1>7, ThreadIds DEF Purge, TypeOKTeardown, LockInv, callVars, Typed, TypeOKLists
  <2> QED
    BY <2>1, <2>2, <2>3 DEF BaseInv, TypeOK
<1> QED
  BY <1>2, <1>3, <1>4, <1>5, <1>6, <1>7 DEF Teardown

\* Every step keeps the invariant.
LEMMA NextBase ==
    ASSUME BaseInv, [Next]_vars
    PROVE  BaseInv'
<1>1. CASE \E t \in Callers : EnsureSectorStarted(t)
  BY <1>1, EnsureBase
<1>2. CASE \E p \in Players : PlayerStep(p)
  BY <1>2, PlayerStepOutside, OutsideBase
<1>3. CASE \E m \in Slots : EventStep(m)
  BY <1>3, EventStepOutside, OutsideBase
<1>4. CASE (\E m \in Slots : Poll(m)) \/ Teardown
  BY <1>4, MainBase
<1>5. CASE MasterReply \/ LoginStage4Return
  BY <1>5, ReturnOutside, OutsideBase
<1>6. CASE Tick
  BY <1>6, TickOutside, OutsideBase
<1>7. CASE UNCHANGED vars
  BY <1>7
     DEF vars, mgrVars, callVars, tdVars, playerVars, BaseInv, TypeOK, TypeOKMgr,
         TypeOKLists, TypeOKCalls, TypeOKTeardown, TypeOKPlayers, LockInv, CallInv,
         CallerKnows, ArgInv, MapInv, NoOrphanManager, PlayerInv
<1> QED
  BY <1>1, <1>2, <1>3, <1>4, <1>5, <1>6, <1>7 DEF Next

\* The types and the discipline of the mutex always hold.
LEMMA AlwaysBase == Spec => []BaseInv
  BY InitBase, NextBase, PTL DEF Spec

\* Every variable keeps its type in every step of every thread: the arguments of
\* every call are sectors and players, and the id LaunchIntoSpace computes is one.
THEOREM TypeCorrect == Spec => []TypeOK
<1>1. BaseInv => TypeOK
  BY DEF BaseInv
<1> QED
  BY <1>1, AlwaysBase, PTL

\* However many threads find a sector missing at the same time, one manager is
\* claimed for it: the second look under m_SectorStartMutex suffices.
THEOREM OneManagerPerSector == Spec => []NoOrphanManager
<1>1. BaseInv => NoOrphanManager
  BY DEF BaseInv, MapInv
<1> QED
  BY <1>1, AlwaysBase, PTL

-----------------------------------------------------------------------------
(* Online managers and their transports. *)

SafeInv == FamilyInv /\ StartInv /\ ServingInv /\ DtlsInv

\* Before the first start no manager is online.
LEMMA InitSafe == Init => SafeInv
  BY ThreadIds
     DEF Init, SafeInv, FamilyInv, TearingDown, Dropping, StartInv, ServingInv, DtlsInv

\* A step outside the start and teardown paths disturbs no manager's transport.
LEMMA OutsideSafe ==
    ASSUME SafeInv, OutsideStep
    PROVE  SafeInv'
<1> USE DEF OutsideStep
<1>1. FamilyInv'
  BY DEF SafeInv, FamilyInv, TearingDown, Dropping, Current, mgrVars, tdVars
<1>2. StartInv'
  BY DEF SafeInv, StartInv, Crit, mgrVars
<1>3. ServingInv' /\ DtlsInv'
  BY DEF SafeInv, ServingInv, DtlsInv, Dropping, Current, mgrVars, tdVars
<1> QED
  BY <1>1, <1>2, <1>3 DEF SafeInv

\* While a caller holds the mutex no teardown is under way.
LEMMA HolderAlone ==
    ASSUME BaseInv, NEW t \in Callers, pc[t] \in Crit
    PROVE  /\ lock = t /\ ~TearingDown /\ \A m \in Slots : ~Dropping(m)
           /\ \A u \in Callers : u # t => pc[u] \notin Crit
           /\ sec[t] \in Sectors
  BY ThreadIds DEF BaseInv, LockInv, ArgInv, TearingDown, Dropping, Crit

\* Every step of EnsureSectorStarted keeps the online managers and their
\* transports in order.
LEMMA EnsureSafe ==
    ASSUME BaseInv, SafeInv, NEW t \in Callers, EnsureSectorStarted(t)
    PROVE  SafeInv'
<1>0. Typed /\ TypeOKMgr /\ CallInv /\ MapInv
  BY DEF BaseInv, TypeOK, Typed
<1>1. CASE FastPath(t)
  BY <1>1, FastPathOutside, OutsideSafe DEF OutsideOK
<1>2. CASE TakeLock(t)
  <2>1. StartInv'
    BY <1>0, <1>2
       DEF TakeLock, Return, Goto, SafeInv, StartInv, Typed, TypeOKCalls, mgrVars
  <2> QED
    BY <1>2, <2>1
       DEF TakeLock, SafeInv, FamilyInv, ServingInv, DtlsInv, TearingDown, Dropping, Current,
           mgrVars, tdVars
<1>3. CASE Restart(t)
  <2>1. StartInv'
    BY <1>0, <1>3 DEF Restart, SafeInv, StartInv, Typed, TypeOKCalls
  <2> QED
    BY <1>3, <2>1
       DEF Restart, SafeInv, FamilyInv, ServingInv, DtlsInv, TearingDown, Dropping, Current,
           tdVars
<1>4. CASE ColdStart(t)
  <2>0. sec[t] \in Sectors /\ \A u \in Callers : u # t => pc[u] \notin Crit
    BY <1>4, HolderAlone DEF ColdStart, Crit
  <2>1. StartInv'
    <3> SUFFICES ASSUME NEW u \in Callers
                 PROVE  /\ pc'[u] = "restart" => ~online'[sectorMap'[sec'[u]]]
                        /\ pc'[u] \in {"thread", "rthread", "listen", "rlisten"} => ~online'[res'[u]]
                        /\ pc'[u] \in {"listen", "rlisten"} => evThreads'[res'[u]] > 0
      BY DEF StartInv
    <3>1. CASE u # t
      BY <1>0, <1>4, <2>0, <3>1 DEF ColdStart, Return, Typed, TypeOKCalls, Crit
    <3>2. CASE u = t
      BY <1>0, <1>4, <3>2
         DEF ColdStart, Return, Unassigned, Typed, TypeOKCalls, SafeInv, ServingInv
    <3> QED
      BY <3>1, <3>2
  <2>2. ServingInv'
    BY <1>0, <1>4, <2>0, ThreadIds DEF ColdStart, SafeInv, ServingInv, TypeOKMgr
  <2> QED
    BY <1>4, <2>1, <2>2
       DEF ColdStart, SafeInv, FamilyInv, DtlsInv, TearingDown, Dropping, Current, tdVars
<1>5. CASE BeginThread(t)
  <2>0. /\ res[t] \in Slots /\ \A u \in Callers : u # t => pc[u] \notin Crit
    BY <1>0, <1>5, HolderAlone
       DEF BeginThread, Crit, CallInv, CallerKnows, Starting, Typed, TypeOKCalls
  <2>1. StartInv'
    BY <1>0, <1>5, <2>0
       DEF BeginThread, Goto, Crit, SafeInv, StartInv, Typed, TypeOKCalls, TypeOKMgr, ThreadBound
  <2>2. ServingInv'
    BY <1>0, <1>5, <2>0 DEF BeginThread, SafeInv, ServingInv, TypeOKMgr, ThreadBound
  <2> QED
    BY <1>5, <2>1, <2>2
       DEF BeginThread, SafeInv, FamilyInv, DtlsInv, TearingDown, Dropping, Current, tdVars
<1>6. CASE BeginListener(t)
  <2>0. /\ res[t] \in Slots /\ ~TearingDown /\ sectorID[res[t]] # NULL
        /\ \A m \in Slots : ~Dropping(m)
        /\ \A u \in Callers : u # t => pc[u] \notin Crit
    BY <1>0, <1>6, HolderAlone, ThreadIds
       DEF BeginListener, Crit, CallInv, CallerKnows, Starting, Typed, TypeOKCalls, MapInv
  <2>1. PICK ok \in BindOutcomes : /\ StartListener(res[t], ok)
                                   /\ online' = [online EXCEPT ![res[t]] = @ \/ ok]
    BY <1>6 DEF BeginListener
  <2>2. ~online[res[t]] /\ evThreads[res[t]] > 0
    BY <1>6 DEF BeginListener, SafeInv, StartInv
  <2>3. listener[res[t]] # "live" /\ connDtls[res[t]] = NULL
    BY <2>0, <2>2 DEF SafeInv, DtlsInv
  <2>4. ok \in BOOLEAN
    BY BindAssumption
  <2>5. UNCHANGED <<mpc, target, family, members, sectorID, evThreads>>
    BY <1>6 DEF BeginListener, tdVars
  <2>6. FamilyInv'
    BY <2>0, <2>5 DEF FamilyInv, TearingDown, Dropping
  <2>7. StartInv'
    BY <1>0, <1>6, <2>0 DEF BeginListener, Goto, Typed, TypeOKCalls, Crit, StartInv
  <2>8. CASE ok = TRUE
    <3>1. /\ online' = [online EXCEPT ![res[t]] = TRUE]
          /\ listener' = [listener EXCEPT ![res[t]] = "live"]
      BY <1>0, <2>0, <2>1, <2>8 DEF StartListener, TypeOKMgr
    <3>2. ServingInv'
      BY <1>0, <2>0, <2>1, <2>2, <2>5, <2>8, <3>1
         DEF SafeInv, ServingInv, StartListener, TypeOKMgr, MintBound, NULL
    <3>3. DtlsInv'
      BY <1>0, <2>0, <2>1, <2>3, <2>8, <3>1
         DEF SafeInv, DtlsInv, StartListener, TypeOKMgr, MintBound, NULL
    <3> QED
      BY <2>6, <2>7, <3>2, <3>3 DEF SafeInv
  <2>9. CASE ok = FALSE
    <3>1. online' = online /\ listener' = [listener EXCEPT ![res[t]] = "freed"]
          /\ UNCHANGED <<connDtls, parkedDtls, minted>>
      BY <1>0, <2>0, <2>1, <2>9 DEF StartListener, TypeOKMgr
    <3>2. ServingInv'
      BY <1>0, <2>0, <2>2, <2>5, <3>1 DEF SafeInv, ServingInv, TypeOKMgr
    <3>3. DtlsInv'
      BY <1>0, <2>0, <2>3, <3>1 DEF SafeInv, DtlsInv, TypeOKMgr
    <3> QED
      BY <2>6, <2>7, <3>2, <3>3 DEF SafeInv
  <2> QED
    BY <2>4, <2>8, <2>9
<1>7. CASE FinishStart(t)
  <2>1. StartInv'
    BY <1>0, <1>7 DEF FinishStart, Goto, SafeInv, StartInv, Typed, TypeOKCalls
  <2> QED
    BY <1>7, <2>1
       DEF FinishStart, SafeInv, FamilyInv, ServingInv, DtlsInv, TearingDown, Dropping,
           Current, tdVars
<1> QED
  BY <1>1, <1>2, <1>3, <1>4, <1>5, <1>6, <1>7 DEF EnsureSectorStarted

\* The first member of a family in pool order is unique.
LEMMA CurrentUnique ==
    ASSUME TypeOKTeardown, NEW m, NEW k, Current(m), Current(k)
    PROVE  m = k /\ m \in Slots
  BY DEF Current, TypeOKTeardown, Slots

\* Every step of the idle poll and of the teardown keeps the online managers
\* and their transports in order.
LEMMA MainSafe ==
    ASSUME BaseInv, SafeInv, (\E m \in Slots : Poll(m)) \/ Teardown
    PROVE  SafeInv'
<1>0. /\ TypeOKMgr /\ TypeOKCalls /\ TypeOKTeardown /\ LockInv /\ CallInv
  BY DEF BaseInv, TypeOK
<1>1. ASSUME NEW m \in Slots, Poll(m) PROVE SafeInv'
  <2>1. ~TearingDown /\ ~TearingDown' /\ \A k \in Slots : ~Dropping(k) /\ ~Dropping(k)'
    BY <1>1 DEF Poll, TearingDown, Dropping, tdVars
  <2>2. mpc' # "purge"
    BY <1>1 DEF Poll, tdVars
  <2> QED
    BY <1>1, <2>1, <2>2
       DEF Poll, SafeInv, FamilyInv, StartInv, ServingInv, DtlsInv, mgrVars, callVars
<1>2. CASE TeardownBegin
  <2>1. StartInv' /\ ServingInv'
    BY <1>2 DEF TeardownBegin, SafeInv, StartInv, ServingInv, mgrVars, callVars
  <2>2. \A k \in Slots : ~Dropping(k) /\ ~Dropping(k)'
    BY <1>2 DEF TeardownBegin, Dropping
  <2>3. DtlsInv'
    BY <1>2, <2>2 DEF TeardownBegin, SafeInv, DtlsInv, mgrVars
  <2>4. FamilyInv'
    <3>1. CASE mpc' = "idle"
      BY <2>2, <3>1 DEF FamilyInv, TearingDown
    <3>2. CASE mpc' = "offline"
      <4>1. /\ online[target] /\ target \in Slots
            /\ target' = target /\ family' = Family(target) /\ members' = Family(target)
        BY <1>0, <1>2, <3>2 DEF TeardownBegin, LockInv, TypeOKTeardown
      <4>2. \A k \in Family(target) : listener[k] = "live"
        BY DEF Family, SafeInv, ServingInv
      <4>3. target \in Family(target)
        BY <4>1 DEF Family
      <4> QED
        BY <1>2, <2>2, <3>2, <4>1, <4>2, <4>3
           DEF TeardownBegin, FamilyInv, TearingDown, mgrVars
    <3> QED
      BY <1>2, <3>1, <3>2 DEF TeardownBegin
  <2> QED
    BY <2>1, <2>3, <2>4 DEF SafeInv
<1>3. ASSUME NEW m \in Slots, TakeOffline(m) PROVE SafeInv'
  <2>0. \A u \in Callers : pc[u] \notin Crit
    BY <1>0, <1>3, ThreadIds DEF TakeOffline, LockInv
  <2>1. StartInv'
    BY <1>3, <2>0 DEF TakeOffline, StartInv, Crit, callVars
  <2>2. ServingInv'
    BY <1>0, <1>3 DEF TakeOffline, SafeInv, ServingInv, TypeOKMgr
  <2>3. \A k : Dropping(k)' => k = m
    BY <1>0, <1>3, CurrentUnique DEF TakeOffline, Dropping, Current
  <2>4. Dropping(m)'
    BY <1>3 DEF TakeOffline, Dropping, Current
  <2>5. FamilyInv'
    BY <1>0, <1>3, <2>3 DEF TakeOffline, SafeInv, FamilyInv, TearingDown, TypeOKMgr, TypeOKTeardown
  <2>6. DtlsInv'
    BY <1>0, <1>3, <2>4 DEF TakeOffline, SafeInv, DtlsInv, Dropping, TypeOKMgr
  <2> QED
    BY <2>1, <2>2, <2>5, <2>6 DEF SafeInv
<1>4. ASSUME NEW m \in Slots, StopSectorThread(m) PROVE SafeInv'
  <2>0. (\A u \in Callers : pc[u] \notin Crit) /\ ~online[m]
    BY <1>0, <1>4, ThreadIds DEF StopSectorThread, LockInv, SafeInv, FamilyInv, Dropping
  <2>1. StartInv'
    BY <1>4, <2>0 DEF StopSectorThread, StartInv, Crit, callVars
  <2>2. ServingInv'
    BY <1>0, <1>4, <2>0 DEF StopSectorThread, SafeInv, ServingInv, TypeOKMgr
  <2>3. \A k : Dropping(k)' <=> Dropping(k)
    BY <1>4 DEF StopSectorThread, Dropping, Current
  <2>4. FamilyInv' /\ DtlsInv'
    BY <1>4, <2>3 DEF StopSectorThread, SafeInv, FamilyInv, DtlsInv, TearingDown
  <2> QED
    BY <2>1, <2>2, <2>4 DEF SafeInv
<1>5. ASSUME NEW m \in Slots, DropListener(m) PROVE SafeInv'
  <2>0. /\ \A u \in Callers : pc[u] \notin Crit
        /\ ~online[m] /\ listener[m] = "live" /\ connDtls[m] # NULL /\ m \in family
    BY <1>0, <1>5, ThreadIds
       DEF DropListener, LockInv, SafeInv, FamilyInv, Dropping, TearingDown, Current, DtlsInv
  <2>1. StartInv'
    BY <1>5, <2>0 DEF DropListener, StartInv, Crit, callVars
  <2>2. ServingInv'
    BY <1>0, <1>5, <2>0 DEF DropListener, SafeInv, ServingInv, TypeOKMgr
  <2>3. \A k : Dropping(k) => k = m
    BY <1>0, <1>5, CurrentUnique DEF DropListener, Dropping
  <2>4. \A k : ~Dropping(k)'
    BY <1>5 DEF DropListener, Dropping
  <2>5. DtlsInv'
    BY <1>0, <1>5, <2>0, <2>3, <2>4 DEF DropListener, SafeInv, DtlsInv, TypeOKMgr
  <2>6. FamilyInv'
    BY <1>0, <1>5, <2>0, <2>4
       DEF DropListener, SafeInv, FamilyInv, TearingDown, TypeOKMgr, TypeOKTeardown
  <2> QED
    BY <2>1, <2>2, <2>5, <2>6 DEF SafeInv
<1>6. CASE Purge
  <2>1. ~TearingDown' /\ \A k : ~Dropping(k) /\ ~Dropping(k)'
    BY <1>6 DEF Purge, TearingDown, Dropping
  <2> QED
    BY <1>6, <2>1
       DEF Purge, SafeInv, FamilyInv, StartInv, ServingInv, DtlsInv, callVars
<1> QED
  BY <1>1, <1>2, <1>3, <1>4, <1>5, <1>6 DEF Teardown

\* Every step keeps the online managers and their transports in order.
LEMMA NextSafe ==
    ASSUME BaseInv, SafeInv, [Next]_vars
    PROVE  SafeInv'
<1>1. CASE \E t \in Callers : EnsureSectorStarted(t)
  BY <1>1, EnsureSafe
<1>2. CASE (\E m \in Slots : Poll(m)) \/ Teardown
  BY <1>2, MainSafe
<1>3. CASE \/ \E p \in Players : PlayerStep(p)
           \/ \E m \in Slots : EventStep(m)
           \/ MasterReply \/ LoginStage4Return \/ Tick
  BY <1>3, PlayerStepOutside, EventStepOutside, ReturnOutside, TickOutside, OutsideSafe
     DEF OutsideOK
<1>4. CASE UNCHANGED vars
  <2>1. OutsideStep
    BY <1>4 DEF vars, callVars, OutsideStep
  <2> QED
    BY <2>1, OutsideSafe
<1> QED
  BY <1>1, <1>2, <1>3, <1>4 DEF Next

\* The online managers and their transports are always in order.
LEMMA AlwaysSafe == Spec => [](BaseInv /\ SafeInv)
<1>1. Init => BaseInv /\ SafeInv
  BY InitBase, InitSafe
<1>2. BaseInv /\ SafeInv /\ [Next]_vars => (BaseInv /\ SafeInv)'
  BY NextBase, NextSafe
<1> QED
  BY <1>1, <1>2, PTL DEF Spec

\* A port is served by one DTLS transport for the life of the process, whatever
\* the order of parks, restarts and failed binds: StartListener never mints a
\* second one for a manager.
THEOREM OneTransportPerPort == Spec => []TransportPreserved
<1>1. SafeInv => TransportPreserved
  BY DEF SafeInv, DtlsInv, TransportPreserved
<1> QED
  BY <1>1, AlwaysSafe, PTL

-----------------------------------------------------------------------------
(* Resident objects.  A sector without content is mapped all the same and     *)
(* never serves anyone, so the theorem is about sectors that have some.       *)

AllHaveData == \A s \in Sectors : HasData(s)

\* Loading a space sector with content leaves its deferred objects resident.
LEMMA LoadOK ==
    ASSUME AllHaveData, TypeOKMgr, NEW s \in Sectors, Load(s)
    PROVE  /\ IsSpace(s) => deferred'[s] > 0
           /\ \A x \in SpaceIds : deferred[x] > 0 => deferred'[x] > 0
<1>1. CASE IsSpace(s)
  <2>1. s \in ContentDB /\ s \in SpaceIds
    BY <1>1, SpaceId DEF AllHaveData, HasData, Base
  <2> QED
    BY <2>1 DEF Load, TypeOKMgr, LoadBound
<1>2. CASE ~IsSpace(s)
  BY <1>2 DEF Load, TypeOKMgr, LoadBound
<1> QED
  BY <1>1, <1>2

\* With content for every sector, every step keeps an online manager's objects
\* resident.
LEMMA NextData ==
    ASSUME AllHaveData, BaseInv, SafeInv, DataInv, [Next]_vars
    PROVE  DataInv'
<1>0. /\ TypeOKMgr /\ TypeOKCalls /\ TypeOKTeardown /\ LockInv /\ CallInv /\ ArgInv /\ MapInv
  BY DEF BaseInv, TypeOK
<1>1. ASSUME OutsideStep PROVE DataInv'
  BY <1>1 DEF OutsideStep, DataInv, Crit, Starting, mgrVars
<1>2. ASSUME NEW t \in Callers, EnsureSectorStarted(t) PROVE DataInv'
  <2>1. CASE FastPath(t)
    BY <1>1, <2>1, FastPathOutside DEF OutsideOK
  <2>2. CASE TakeLock(t)
    BY <1>0, <2>2 DEF TakeLock, Return, Goto, TypeOKCalls, DataInv, Starting, mgrVars
  <2>3. CASE Restart(t) \/ ColdStart(t)
    <3>1. /\ sec[t] \in Sectors /\ Load(sec[t]) /\ UNCHANGED <<online, sec>>
          /\ \A u \in Callers : u # t => pc[u] \notin Crit /\ pc'[u] = pc[u]
      BY <1>0, <2>3, HolderAlone DEF Restart, ColdStart, Return, Crit, TypeOKCalls
    <3>2. /\ IsSpace(sec[t]) => deferred'[sec[t]] > 0
          /\ \A x \in SpaceIds : deferred[x] > 0 => deferred'[x] > 0
      BY <1>0, <3>1, LoadOK
    <3>3. \A m \in Slots : online[m] => sectorID'[m] = sectorID[m] /\ sectorID[m] \in Sectors
      <4>1. \A m \in Slots : online[m] => sectorID[m] \in Sectors
        BY <1>0 DEF SafeInv, ServingInv, TypeOKMgr
      <4>2. CASE Restart(t)
        BY <4>1, <4>2 DEF Restart
      <4>3. CASE ColdStart(t)
        BY <1>0, <4>1, <4>3, ThreadIds DEF ColdStart, Unassigned, TypeOKMgr
      <4> QED
        BY <2>3, <4>2, <4>3
    <3> QED
      BY <3>1, <3>2, <3>3, SpaceId DEF DataInv, Crit, Starting
  <2>4. CASE BeginThread(t)
    BY <1>0, <2>4 DEF BeginThread, Goto, TypeOKCalls, DataInv, Starting
  <2>5. CASE BeginListener(t)
    <3>1. PICK ok \in BindOutcomes : online' = [online EXCEPT ![res[t]] = @ \/ ok]
      BY <2>5 DEF BeginListener
    <3>2. /\ res[t] \in Slots /\ sectorID[res[t]] = sec[t] /\ pc[t] \in Starting
      BY <1>0, <2>5
         DEF BeginListener, CallInv, CallerKnows, Starting, TypeOKCalls, MapInv, ArgInv
    <3>3. \A m \in Slots : online'[m] => online[m] \/ m = res[t]
      BY <1>0, <3>1, <3>2 DEF TypeOKMgr
    <3>4. UNCHANGED <<sec, sectorID, deferred>> /\ \A u \in Callers : pc'[u] \in Starting => pc[u] \in Starting
      BY <1>0, <2>5 DEF BeginListener, Goto, TypeOKCalls, Starting
    <3> QED
      BY <3>2, <3>3, <3>4 DEF DataInv
  <2>6. CASE FinishStart(t)
    BY <1>0, <2>6 DEF FinishStart, Goto, TypeOKCalls, DataInv, Starting
  <2> QED
    BY <1>2, <2>1, <2>2, <2>3, <2>4, <2>5, <2>6 DEF EnsureSectorStarted
<1>3. CASE \E m \in Slots : Poll(m) \/ StopSectorThread(m) \/ DropListener(m)
  BY <1>3 DEF Poll, StopSectorThread, DropListener, DataInv, mgrVars, callVars
<1>4. CASE TeardownBegin
  BY <1>4 DEF TeardownBegin, DataInv, mgrVars, callVars
<1>5. ASSUME NEW m \in Slots, TakeOffline(m) PROVE DataInv'
  BY <1>0, <1>5 DEF TakeOffline, DataInv, callVars, TypeOKMgr
<1>6. CASE Purge
  <2>1. ~online[target] /\ target \in Slots /\ \A u \in Callers : pc[u] \notin Crit
    BY <1>0, <1>6, ThreadIds
       DEF Purge, SafeInv, FamilyInv, TearingDown, LockInv, TypeOKTeardown
  <2>2. \A m \in Slots : online[m] => sectorID[m] \in Sectors /\ sectorID[m] # sectorID[target]
    BY <1>0, <2>1 DEF SafeInv, ServingInv, MapInv, NoOrphanManager, TypeOKMgr
  <2>3. \A x \in SpaceIds : x # sectorID[target] => deferred'[x] = deferred[x]
    BY <1>0, <1>6 DEF Purge, TypeOKMgr
  <2> QED
    BY <1>6, <2>1, <2>2, <2>3, SpaceId DEF Purge, DataInv, callVars, Crit, Starting
<1>7. CASE \/ \E p \in Players : PlayerStep(p)
           \/ \E m \in Slots : EventStep(m)
           \/ MasterReply \/ LoginStage4Return \/ Tick
  BY <1>1, <1>7, PlayerStepOutside, EventStepOutside, ReturnOutside, TickOutside
     DEF OutsideOK
<1>8. CASE UNCHANGED vars
  <2>1. OutsideStep
    BY <1>8 DEF vars, callVars, OutsideStep
  <2> QED
    BY <1>1, <2>1
<1> QED
  BY <1>2, <1>3, <1>4, <1>5, <1>6, <1>7, <1>8 DEF Next, Teardown

\* A manager the lock-free fast path of EnsureSectorStarted accepts is fully up,
\* at every moment: listener bound, event thread running, transport installed,
\* deferred objects resident.  It says nothing of a later moment: the manager may
\* be parked before the caller uses it.
THEOREM OnlineMeansUp ==
    ASSUME AllHaveData
    PROVE  Spec => []OnlineServes
<1>1. Init => DataInv
  BY DEF Init, DataInv, Starting
<1>2. BaseInv /\ SafeInv /\ DataInv /\ [Next]_vars => DataInv'
  BY NextData
<1>3. SafeInv /\ DataInv => OnlineServes
  BY DEF SafeInv, ServingInv, DataInv, OnlineServes
<1> QED
  BY <1>1, <1>2, <1>3, AlwaysSafe, PTL DEF Spec

-----------------------------------------------------------------------------
(* Threads.  A failed bind leaves a thread that nobody ever joins, so         *)
(* these theorems assume that ports can be bound.                             *)

PortsBind == BindOutcomes = {TRUE}

\* A step outside the start and teardown paths starts and stops no thread.
LEMMA ThreadOutside ==
    ASSUME BaseInv, ThreadInv, OutsideStep
    PROVE  ThreadInv'
<1>1. \A m \in Slots : ThreadAt(m)' <=> ThreadAt(m)
  BY DEF OutsideStep, ThreadAt, Current, Crit, mgrVars, tdVars
<1> QED
  BY <1>1 DEF OutsideStep, ThreadInv, TearingDown, mgrVars, tdVars

\* When ports can be bound, every step of EnsureSectorStarted keeps one thread
\* per manager.
LEMMA ThreadEnsure ==
    ASSUME PortsBind, BaseInv, SafeInv, ThreadInv, NEW t \in Callers, EnsureSectorStarted(t)
    PROVE  ThreadInv'
<1>0. /\ TypeOKMgr /\ TypeOKCalls /\ TypeOKTeardown /\ LockInv /\ CallInv /\ MapInv
  BY DEF BaseInv, TypeOK
<1>1. CASE FastPath(t)
  BY <1>1, FastPathOutside, ThreadOutside DEF OutsideOK
<1>2. CASE TakeLock(t)
  <2>1. \A m \in Slots : ThreadAt(m)' <=> ThreadAt(m)
    BY <1>0, <1>2 DEF TakeLock, Return, Goto, ThreadAt, Current, TypeOKCalls, mgrVars, tdVars
  <2> QED
    BY <1>2, <2>1 DEF TakeLock, ThreadInv, TearingDown, mgrVars, tdVars
<1> SUFFICES ASSUME ~FastPath(t), ~TakeLock(t) PROVE ThreadInv'
  BY <1>1, <1>2
<1>3. /\ pc[t] \in Crit /\ ~TearingDown /\ \A u \in Callers : u # t => pc[u] \notin Crit
  BY HolderAlone
     DEF EnsureSectorStarted, Restart, ColdStart, BeginThread, BeginListener, FinishStart, Crit
<1>4. UNCHANGED tdVars /\ \A u \in Callers : u # t => pc'[u] = pc[u]
  BY <1>0
     DEF EnsureSectorStarted, Restart, ColdStart, BeginThread, BeginListener, FinishStart,
         Return, Goto, TypeOKCalls
<1>5. ~TearingDown' /\ mpc # "join" /\ mpc' # "join"
  BY <1>3, <1>4 DEF TearingDown, tdVars
<1>6. \A m \in Slots : ThreadAt(m) <=> online[m] \/ (pc[t] \in {"listen", "rlisten"} /\ res[t] = m)
  BY <1>3, <1>5 DEF ThreadAt, Crit
<1>7. \A m \in Slots : ThreadAt(m)' <=> online'[m] \/ (pc'[t] \in {"listen", "rlisten"} /\ res'[t] = m)
  BY <1>3, <1>4, <1>5 DEF ThreadAt, Crit
<1>8. CASE Restart(t) \/ ColdStart(t) \/ FinishStart(t)
  <2>1. UNCHANGED <<online, evThreads>>
    BY <1>8 DEF Restart, ColdStart, FinishStart
  <2>2. pc[t] \notin {"listen", "rlisten"} /\ pc'[t] \notin {"listen", "rlisten"}
    BY <1>0, <1>8 DEF Restart, ColdStart, FinishStart, Return, Goto, TypeOKCalls
  <2> QED
    BY <1>5, <1>6, <1>7, <2>1, <2>2 DEF ThreadInv
<1>9. CASE BeginThread(t)
  <2>1. res[t] \in Slots /\ ~online[res[t]] /\ res' = res /\ online' = online
    BY <1>0, <1>9
       DEF BeginThread, Goto, CallInv, CallerKnows, Starting, TypeOKCalls, SafeInv, StartInv
  <2>2. pc[t] \notin {"listen", "rlisten"} /\ pc'[t] \in {"listen", "rlisten"}
    BY <1>0, <1>9 DEF BeginThread, Goto, TypeOKCalls
  <2>3. evThreads[res[t]] = 0
    BY <1>6, <2>1, <2>2 DEF ThreadInv
  <2>4. evThreads' = [evThreads EXCEPT ![res[t]] = 1]
    BY <1>9, <2>3 DEF BeginThread, ThreadBound
  <2> QED
    BY <1>0, <1>5, <1>6, <1>7, <2>1, <2>2, <2>3, <2>4 DEF ThreadInv, TypeOKMgr
<1>10. CASE BeginListener(t)
  <2>1. /\ res[t] \in Slots /\ res' = res /\ evThreads' = evThreads
        /\ online' = [online EXCEPT ![res[t]] = TRUE]
    BY <1>0, <1>10
       DEF BeginListener, Goto, CallInv, CallerKnows, Starting, TypeOKCalls, TypeOKMgr, PortsBind
  <2>2. pc[t] \in {"listen", "rlisten"} /\ pc'[t] \notin {"listen", "rlisten"}
    BY <1>0, <1>10 DEF BeginListener, Goto, TypeOKCalls
  <2>3. \A m \in Slots : ThreadAt(m)' <=> ThreadAt(m)
    BY <1>0, <1>6, <1>7, <2>1, <2>2 DEF TypeOKMgr
  <2> QED
    BY <1>5, <2>1, <2>3 DEF ThreadInv
<1> QED
  BY <1>8, <1>9, <1>10 DEF EnsureSectorStarted

\* Every step of the idle poll and of the teardown keeps one thread per
\* manager.
LEMMA ThreadMain ==
    ASSUME BaseInv, SafeInv, ThreadInv, (\E m \in Slots : Poll(m)) \/ Teardown
    PROVE  ThreadInv'
<1>0. /\ TypeOKMgr /\ TypeOKCalls /\ TypeOKTeardown /\ LockInv
  BY DEF BaseInv, TypeOK
<1>1. ASSUME NEW m \in Slots, Poll(m) PROVE ThreadInv'
  <2>1. ~TearingDown' /\ \A k \in Slots : ThreadAt(k)' <=> ThreadAt(k)
    BY <1>1 DEF Poll, TearingDown, ThreadAt, mgrVars, callVars, tdVars
  <2> QED
    BY <1>1, <2>1 DEF Poll, ThreadInv, mgrVars
<1>2. CASE TeardownBegin
  <2>1. \A k \in Slots : ThreadAt(k)' <=> ThreadAt(k)
    BY <1>2 DEF TeardownBegin, ThreadAt, mgrVars, callVars
  <2>2. TearingDown' => target' = target /\ family' = Family(target)
    BY <1>2 DEF TeardownBegin, TearingDown
  <2> QED
    BY <1>2, <2>1, <2>2 DEF TeardownBegin, ThreadInv, Family, mgrVars
<1>3. ASSUME NEW m \in Slots, TakeOffline(m) PROVE ThreadInv'
  <2>1. \A u \in Callers : pc[u] \notin Crit
    BY <1>0, <1>3, ThreadIds DEF TakeOffline, LockInv
  <2>2. \A k \in Slots : Current(k)' => k = m
    BY <1>0, <1>3, CurrentUnique DEF TakeOffline, Current
  <2>3. online[m]
    \* The family is what was online at the start; only its current member changes.
    BY <1>0, <1>3 DEF TakeOffline, SafeInv, FamilyInv, TearingDown, Current, DtlsInv, Dropping
  <2>4. \A k \in Slots : ThreadAt(k)' <=> ThreadAt(k)
    BY <1>0, <1>3, <2>1, <2>2, <2>3 DEF TakeOffline, ThreadAt, Current, Crit, callVars, TypeOKMgr
  <2> QED
    BY <1>0, <1>3, <2>4 DEF TakeOffline, ThreadInv, TearingDown, TypeOKMgr
<1>4. ASSUME NEW m \in Slots, StopSectorThread(m) PROVE ThreadInv'
  <2>1. \A u \in Callers : pc[u] \notin Crit
    BY <1>0, <1>4, ThreadIds DEF StopSectorThread, LockInv
  <2>2. ThreadAt(m) /\ ~online[m] /\ \A k \in Slots : Current(k) => k = m
    BY <1>0, <1>4, CurrentUnique DEF StopSectorThread, ThreadAt, SafeInv, FamilyInv, Dropping
  <2>3. \A k \in Slots : ThreadAt(k)' <=> ThreadAt(k) /\ k # m
    BY <1>4, <2>1, <2>2 DEF StopSectorThread, ThreadAt, Crit, callVars
  <2>4. evThreads' = [evThreads EXCEPT ![m] = 0]
    <3>1. evThreads[m] = 1
      BY <2>2 DEF ThreadInv
    <3>2. evThreads' = [evThreads EXCEPT ![m] = IF evThreads[m] > 0 THEN evThreads[m] - 1 ELSE 0]
      BY <1>4 DEF StopSectorThread
    <3> QED
      BY <3>1, <3>2
  <2> QED
    BY <1>0, <1>4, <2>3, <2>4 DEF StopSectorThread, ThreadInv, TearingDown, TypeOKMgr
<1>5. ASSUME NEW m \in Slots, DropListener(m) PROVE ThreadInv'
  <2>1. \A k \in Slots : ThreadAt(k)' <=> ThreadAt(k)
    BY <1>5 DEF DropListener, ThreadAt, callVars
  <2>2. ~online[m]
    BY <1>5 DEF DropListener, SafeInv, FamilyInv, Dropping
  <2> QED
    BY <1>5, <2>1, <2>2 DEF DropListener, ThreadInv, TearingDown
<1>6. CASE Purge
  <2>1. ~TearingDown' /\ \A k \in Slots : ThreadAt(k)' <=> ThreadAt(k)
    BY <1>6 DEF Purge, TearingDown, ThreadAt, callVars
  <2> QED
    BY <1>6, <2>1 DEF Purge, ThreadInv
<1> QED
  BY <1>1, <1>2, <1>3, <1>4, <1>5, <1>6 DEF Teardown

\* When ports can be bound, every step keeps one thread per manager.
LEMMA NextThread ==
    ASSUME PortsBind, BaseInv, SafeInv, ThreadInv, [Next]_vars
    PROVE  ThreadInv'
<1>1. CASE \E t \in Callers : EnsureSectorStarted(t)
  BY <1>1, ThreadEnsure
<1>2. CASE (\E m \in Slots : Poll(m)) \/ Teardown
  BY <1>2, ThreadMain
<1>3. CASE \/ \E p \in Players : PlayerStep(p)
           \/ \E m \in Slots : EventStep(m)
           \/ MasterReply \/ LoginStage4Return \/ Tick
  BY <1>3, PlayerStepOutside, EventStepOutside, ReturnOutside, TickOutside, ThreadOutside
     DEF OutsideOK
<1>4. CASE UNCHANGED vars
  <2>1. OutsideStep
    BY <1>4 DEF vars, callVars, OutsideStep
  <2> QED
    BY <2>1, ThreadOutside
<1> QED
  BY <1>1, <1>2, <1>3, <1>4 DEF Next

\* When ports can be bound, threads and managers always correspond.
LEMMA AlwaysThread ==
    ASSUME PortsBind
    PROVE  Spec => [](BaseInv /\ SafeInv /\ ThreadInv)
<1>1. Init => ThreadInv
  BY DEF Init, ThreadInv, ThreadAt, TearingDown
<1>2. BaseInv /\ SafeInv /\ ThreadInv /\ [Next]_vars => ThreadInv'
  BY NextThread
<1> QED
  BY <1>1, <1>2, AlwaysSafe, PTL DEF Spec

\* When TeardownSector frees the shared object manager, no event thread and no
\* listener of any manager built on it is left that could read it.
THEOREM PurgeIsQuiesced ==
    ASSUME PortsBind
    PROVE  Spec => []PurgeQuiesced
<1>1. BaseInv /\ SafeInv /\ ThreadInv => PurgeQuiesced
  <2> SUFFICES ASSUME BaseInv, SafeInv, ThreadInv, mpc = "purge", NEW k \in Slots,
                      Base(sectorID[k]) = Base(sectorID[target])
               PROVE  evThreads[k] = 0 /\ listener[k] # "live"
    BY DEF PurgeQuiesced
  <2>1. TearingDown /\ family = {} /\ ~Dropping(k)
    BY DEF TearingDown, Dropping, SafeInv, FamilyInv
  <2>2. ~online[k]
    BY <2>1 DEF ThreadInv
  <2>3. \A u \in Callers : pc[u] \notin Crit
    BY ThreadIds DEF BaseInv, LockInv
  <2>4. ~ThreadAt(k)
    BY <2>2, <2>3 DEF ThreadAt, Crit
  <2> QED
    BY <2>1, <2>2, <2>4 DEF ThreadInv, SafeInv, DtlsInv
<1> QED
  BY <1>1, AlwaysThread, PTL

\* A manager never runs two event threads, and between starts and parks it runs
\* one exactly when it is online.
THEOREM OneThreadPerManager ==
    ASSUME PortsBind
    PROVE  Spec => []OneEventThread
<1>1. BaseInv /\ SafeInv /\ ThreadInv => OneEventThread
  <2> SUFFICES ASSUME BaseInv, SafeInv, ThreadInv PROVE OneEventThread
    OBVIOUS
  <2>1. \A m \in Slots : evThreads[m] <= 1
    BY DEF ThreadInv
  <2>2. ASSUME lock = Free, NEW m \in Slots PROVE evThreads[m] = 1 <=> online[m]
    <3>1. (\A u \in Callers : pc[u] \notin Crit) /\ mpc # "join"
      BY <2>2, ThreadIds DEF BaseInv, LockInv
    <3>2. ThreadAt(m) <=> online[m]
      BY <3>1 DEF ThreadAt, Crit
    <3> QED
      BY <3>2 DEF ThreadInv
  <2> QED
    BY <2>1, <2>2 DEF OneEventThread
<1> QED
  BY <1>1, AlwaysThread, PTL

-----------------------------------------------------------------------------
(* Copies of the deferred objects.  Three departures load them twice: a bind  *)
(* that fails after the load, a pool without a manager left (SetupSectorServer *)
(* loads before it looks for one) and a station id of six digits, whose parent *)
(* would be a station itself.  The theorem is about servers without them.      *)

RoomForAll == IsFiniteSet(Sectors) /\ Cardinality(Sectors) <= MaxSectors
StationsOfSpace == \A s \in Sectors : IsSpace(Base(s))

\* Who answers for the one copy of a sector's deferred objects: its manager while it
\* is online, the caller that is starting it, or the teardown that will purge it.
Answers(s) ==
    /\ sectorMap[s] # NULL
    /\ \/ online[sectorMap[s]]
       \/ \E t \in Callers : pc[t] \in Starting /\ sec[t] = s
       \/ TearingDown /\ target = sectorMap[s]

LoadInv ==
    /\ \A s \in SpaceIds : contiguous[s] /\ deferred[s] # 0 => deferred[s] = 1 /\ Answers(s)
    /\ mpc # "idle" => sectorID[target] # NULL /\ IsSpace(sectorID[target])
    /\ TearingDown => \A k \in family :
           sectorID[k] # NULL /\ Base(sectorID[k]) = Base(sectorID[target])
    /\ \A t \in Callers : pc[t] \in {"stamp", "rstamp"} => online[res[t]]

\* A sector that is not mapped finds a manager in a pool with room for all.
LEMMA PoolSuffices ==
    ASSUME RoomForAll, BaseInv, NEW s \in Sectors, sectorMap[s] = NULL
    PROVE  Unassigned # {}
<1> SUFFICES ASSUME Unassigned = {} PROVE FALSE
  OBVIOUS
<1>1. sectorID \in [Slots -> Sectors \ {s}]
  <2>1. sectorID \in [Slots -> Sectors \cup {NULL}]
    BY DEF BaseInv, TypeOK, TypeOKMgr
  <2>2. \A m \in Slots : sectorID[m] # NULL /\ sectorID[m] # s
    BY ThreadIds DEF Unassigned, BaseInv, MapInv, NoOrphanManager
  <2> QED
    BY <2>1, <2>2
<1>2. IsFiniteSet(Slots) /\ Cardinality(Slots) = MaxSectors
  BY PoolAssumption, FS_Interval DEF Slots
<1>3. IsFiniteSet(Sectors \ {s}) /\ Cardinality(Sectors \ {s}) = Cardinality(Sectors) - 1
  BY FS_RemoveElement DEF RoomForAll
<1>4. Cardinality(Sectors) \in Nat
  BY FS_CardinalityType DEF RoomForAll
<1>5. Cardinality(Sectors \ {s}) < Cardinality(Slots)
  BY PoolAssumption, <1>2, <1>3, <1>4 DEF RoomForAll
<1>6. \E x, y \in Slots : x # y /\ sectorID[x] = sectorID[y]
  BY <1>1, <1>2, <1>3, <1>5, FS_PigeonHole
<1> QED
  BY <1>1, <1>6, ThreadIds DEF BaseInv, MapInv, NoOrphanManager

\* A load is the first copy of its sector, and touches no other.
LEMMA FirstCopy ==
    ASSUME TypeOKMgr, NEW s \in Sectors, Load(s)
    PROVE  /\ \A x \in SpaceIds : x # s => deferred'[x] = deferred[x]
           /\ s \in SpaceIds /\ deferred[s] = 0 => deferred'[s] \in {0, 1}
           /\ ~HasData(s) /\ IsSpace(s) => deferred' = deferred
  BY DEF Load, TypeOKMgr, LoadBound, HasData, Base

\* The space sector of a family is the one being torn down.
LEMMA TargetIsSpace ==
    ASSUME StationsOfSpace, BaseInv, SafeInv, LoadInv, TearingDown,
           NEW k \in family, sectorID[k] \in SpaceIds
    PROVE  k = target
<1>0. TypeOKMgr /\ TypeOKTeardown /\ LockInv /\ MapInv
  BY DEF BaseInv, TypeOK
<1>1. k \in Slots /\ target \in Slots
  BY <1>0 DEF TypeOKTeardown, LockInv, TearingDown
<1>2. IsSpace(sectorID[k]) /\ IsSpace(sectorID[target])
  BY DEF StationsOfSpace, SpaceIds, LoadInv, TearingDown
<1>3. sectorID[k] = sectorID[target] /\ sectorID[k] # NULL
  BY <1>2 DEF LoadInv, Base
<1> QED
  BY <1>0, <1>1, <1>3 DEF MapInv, NoOrphanManager

\* Outside the start and teardown paths nothing is loaded; a skeleton may be broken.
LEMMA LoadOutside ==
    ASSUME LoadInv, OutsideStep, TypeOKLists,
           \A s \in SpaceIds : contiguous'[s] => contiguous[s]
    PROVE  LoadInv'
<1>1. \A s : Answers(s) => Answers(s)'
  BY DEF OutsideStep, Answers, TearingDown, Crit, Starting, mgrVars, tdVars
<1> QED
  BY <1>1 DEF OutsideStep, LoadInv, TearingDown, Crit, mgrVars, tdVars

\* Every step of EnsureSectorStarted keeps one copy of each sector's objects.
LEMMA LoadEnsure ==
    ASSUME PortsBind, RoomForAll, StationsOfSpace, BaseInv, SafeInv, LoadInv,
           NEW t \in Callers, EnsureSectorStarted(t)
    PROVE  LoadInv'
<1>0. /\ TypeOKMgr /\ TypeOKLists /\ TypeOKCalls /\ TypeOKTeardown
      /\ LockInv /\ CallInv /\ ArgInv /\ MapInv
  BY DEF BaseInv, TypeOK
<1>1. CASE FastPath(t)
  BY <1>0, <1>1, FastPathOutside, LoadOutside DEF OutsideOK, FastPath
<1>2. CASE TakeLock(t)
  <2>1. \A s : Answers(s) => Answers(s)'
    BY <1>0, <1>2
       DEF TakeLock, Return, Goto, Answers, TearingDown, Starting, TypeOKCalls, mgrVars, tdVars
  <2>2. \A u \in Callers : pc'[u] \in {"stamp", "rstamp"} => pc[u] = pc'[u] /\ res'[u] = res[u]
    BY <1>0, <1>2 DEF TakeLock, Return, Goto, TypeOKCalls
  <2> QED
    BY <1>2, <2>1, <2>2 DEF TakeLock, LoadInv, TearingDown, mgrVars, tdVars
<1> SUFFICES ASSUME ~FastPath(t), ~TakeLock(t) PROVE LoadInv'
  BY <1>1, <1>2
<1>3. /\ pc[t] \in Crit /\ ~TearingDown /\ sec[t] \in Sectors
      /\ \A u \in Callers : u # t => pc[u] \notin Crit
  BY HolderAlone
     DEF EnsureSectorStarted, Restart, ColdStart, BeginThread, BeginListener, FinishStart, Crit
<1>4. /\ UNCHANGED <<tdVars, contiguous, sec>>
      /\ \A u \in Callers : u # t => pc'[u] = pc[u]
  BY <1>0
     DEF EnsureSectorStarted, Restart, ColdStart, BeginThread, BeginListener, FinishStart,
         Return, Goto, TypeOKCalls
<1>5. \A m \in Slots : sectorID[m] # NULL => sectorID'[m] = sectorID[m]
  BY <1>0
     DEF EnsureSectorStarted, Restart, ColdStart, BeginThread, BeginListener, FinishStart,
         Unassigned, TypeOKMgr
<1>6. /\ ~TearingDown'
      /\ mpc' # "idle" => sectorID'[target'] # NULL /\ IsSpace(sectorID'[target'])
  <2>1. target \in Slots \cup {NULL} /\ (mpc # "idle" => target # NULL)
    BY <1>0 DEF TypeOKTeardown, LockInv
  <2> QED
    BY <1>3, <1>4, <1>5, <2>1 DEF TearingDown, LoadInv, tdVars
<1>7. \A s \in Sectors : Answers(s) <=>
        sectorMap[s] # NULL /\ (online[sectorMap[s]] \/ (pc[t] \in Starting /\ sec[t] = s))
  BY <1>3 DEF Answers, Crit, Starting
<1>8. \A s \in Sectors : Answers(s)' <=>
        sectorMap'[s] # NULL /\ (online'[sectorMap'[s]] \/ (pc'[t] \in Starting /\ sec[t] = s))
  BY <1>3, <1>4, <1>6 DEF Answers, Crit, Starting
<1>9. SpaceIds \subseteq Sectors
  BY BaseIsSector DEF SpaceIds
<1>16. \A u \in Callers : pc'[u] \in {"stamp", "rstamp"} => online'[res'[u]]
  <2> SUFFICES ASSUME pc'[t] \in {"stamp", "rstamp"} PROVE online'[res'[t]]
    BY <1>3, <1>4 DEF Crit
  <2>1. BeginListener(t)
    BY <1>0
       DEF EnsureSectorStarted, Restart, ColdStart, BeginThread, FinishStart, Return, Goto,
           TypeOKCalls
  <2>2. res[t] \in Slots /\ res' = res
    BY <1>0, <2>1 DEF BeginListener, Goto, CallInv, CallerKnows, Starting, TypeOKCalls
  <2> QED
    BY <1>0, <2>1, <2>2 DEF BeginListener, PortsBind, TypeOKMgr
<1> SUFFICES ASSUME NEW s \in SpaceIds, contiguous[s], deferred'[s] # 0
             PROVE  deferred'[s] = 1 /\ Answers(s)'
  BY <1>4, <1>6, <1>16 DEF LoadInv
<1>10. s \in Sectors /\ (deferred[s] # 0 => deferred[s] = 1 /\ Answers(s))
  BY <1>9 DEF LoadInv
<1>11. CASE Restart(t)
  <2>1. s = sec[t] => deferred[s] = 0
    BY <1>7, <1>10, <1>11 DEF Restart, SafeInv, StartInv, Starting
  <2>2. /\ s # sec[t] => deferred'[s] = deferred[s]
        /\ s = sec[t] => deferred'[s] \in {0, 1}
    BY <1>0, <1>3, <1>11, <2>1, FirstCopy DEF Restart
  <2>3. pc'[t] \in Starting /\ sectorMap' = sectorMap /\ online' = online /\ sectorMap[sec[t]] # NULL
    BY <1>0, <1>11 DEF Restart, Starting, TypeOKCalls, CallInv, CallerKnows
  <2> QED
    BY <1>7, <1>8, <1>10, <1>11, <2>2, <2>3 DEF Restart, Starting
<1>12. CASE ColdStart(t)
  <2>1. sectorMap[sec[t]] = NULL /\ (s = sec[t] => deferred[s] = 0)
    BY <1>0, <1>7, <1>10, <1>12 DEF ColdStart, CallInv, CallerKnows
  <2>2. PICK m \in Unassigned :
          /\ sectorMap' = [sectorMap EXCEPT ![sec[t]] = m]
          /\ HasData(sec[t]) => pc' = [pc EXCEPT ![t] = "thread"]
    BY <1>3, <1>12, <2>1, PoolSuffices DEF ColdStart
  <2>3. /\ s # sec[t] => deferred'[s] = deferred[s]
        /\ s = sec[t] => deferred'[s] \in {0, 1}
        /\ ~HasData(sec[t]) /\ IsSpace(sec[t]) => deferred' = deferred
    BY <1>0, <1>3, <1>12, <2>1, FirstCopy DEF ColdStart
  <2>4. m \in Slots /\ m # NULL /\ online' = online
    BY <1>12, <2>2, ThreadIds DEF Unassigned, ColdStart
  <2>5. CASE s = sec[t]
    <3>1. IsSpace(s)
      BY DEF StationsOfSpace, SpaceIds
    <3>2. HasData(s) /\ deferred'[s] = 1
      BY <2>1, <2>3, <2>5, <3>1
    <3>3. pc'[t] \in Starting /\ sectorMap'[s] # NULL
      BY <1>0, <1>3, <2>2, <2>4, <2>5, <3>2 DEF Starting, TypeOKCalls, TypeOKMgr
    <3> QED
      BY <1>8, <1>10, <2>5, <3>2, <3>3
  <2>6. CASE s # sec[t]
    <3>1. sectorMap'[s] = sectorMap[s] /\ pc[t] \notin Starting
      BY <1>0, <1>10, <1>12, <2>2, <2>6 DEF ColdStart, Starting, TypeOKMgr
    <3> QED
      BY <1>7, <1>8, <1>10, <2>3, <2>4, <2>6, <3>1
  <2> QED
    BY <2>5, <2>6
<1>13. CASE BeginThread(t)
  BY <1>0, <1>7, <1>8, <1>10, <1>13 DEF BeginThread, Goto, Starting, TypeOKCalls
<1>14. CASE BeginListener(t)
  <2>1. /\ UNCHANGED <<deferred, sectorMap>> /\ pc'[t] \in Starting
        /\ \A m \in Slots : online[m] => online'[m]
    BY <1>0, <1>14 DEF BeginListener, Goto, Starting, TypeOKCalls, TypeOKMgr, PortsBind
  <2> QED
    BY <1>0, <1>7, <1>8, <1>10, <2>1 DEF TypeOKMgr
<1>15. CASE FinishStart(t)
  <2>1. UNCHANGED <<deferred, sectorMap, online>>
    BY <1>15 DEF FinishStart
  <2>2. online[res[t]] /\ res[t] = sectorMap[sec[t]]
    BY <1>0, <1>15 DEF FinishStart, CallInv, CallerKnows, Starting, LoadInv
  <2> QED
    BY <1>7, <1>8, <1>10, <2>1, <2>2
<1> QED
  BY <1>11, <1>12, <1>13, <1>14, <1>15 DEF EnsureSectorStarted

\* Every step of the idle poll and of the teardown keeps one copy of each sector's
\* objects.
LEMMA LoadMain ==
    ASSUME StationsOfSpace, BaseInv, SafeInv, ThreadInv, LoadInv,
           (\E m \in Slots : Poll(m)) \/ Teardown
    PROVE  LoadInv'
<1>0. /\ TypeOKMgr /\ TypeOKCalls /\ TypeOKTeardown /\ LockInv /\ MapInv
  BY DEF BaseInv, TypeOK
<1>1. UNCHANGED <<sectorMap, sectorID, contiguous, callVars>>
  BY DEF Poll, Teardown, TeardownBegin, TakeOffline, StopSectorThread, DropListener, Purge,
         mgrVars
<1>2. ASSUME NEW m \in Slots, Poll(m) PROVE LoadInv'
  <2>1. /\ UNCHANGED <<deferred, online>> /\ ~TearingDown /\ ~TearingDown'
        /\ mpc' # "idle" => target' = m /\ IsSpace(sectorID[m])
    BY <1>2 DEF Poll, TearingDown, mgrVars, tdVars
  <2>2. sectorID[m] # NULL
    BY <1>2 DEF Poll, SafeInv, ServingInv
  <2>3. \A s : Answers(s)' <=> Answers(s)
    BY <1>1, <2>1 DEF Answers, callVars
  <2> QED
    BY <1>1, <2>1, <2>2, <2>3 DEF LoadInv, callVars
<1>3. CASE TeardownBegin
  <2>1. \A s : Answers(s) => Answers(s)'
    BY <1>1, <1>3 DEF TeardownBegin, Answers, TearingDown, mgrVars, callVars
  <2>2. TearingDown' => target' = target /\ family' = Family(target)
    BY <1>3 DEF TeardownBegin, TearingDown
  <2>3. \A k \in Family(target) :
          sectorID[k] # NULL /\ Base(sectorID[k]) = Base(sectorID[target])
    BY DEF Family, SafeInv, ServingInv
  <2>4. mpc' # "idle" => target' = target /\ mpc # "idle"
    BY <1>3 DEF TeardownBegin
  <2> QED
    BY <1>1, <1>3, <2>1, <2>2, <2>3, <2>4 DEF TeardownBegin, LoadInv, mgrVars, callVars
<1>4. ASSUME NEW m \in Slots, TakeOffline(m) PROVE LoadInv'
  <2>1. \A u \in Callers : pc[u] \notin Crit
    BY <1>0, <1>4, ThreadIds DEF TakeOffline, LockInv
  <2>2. TearingDown /\ TearingDown' /\ m \in family /\ UNCHANGED <<target, family, deferred>>
    BY <1>4 DEF TakeOffline, TearingDown, Current
  <2>3. ASSUME NEW s \in SpaceIds, Answers(s) PROVE Answers(s)'
    <3>1. sectorMap[s] # NULL /\ sectorMap[s] \in Slots /\ sectorID[sectorMap[s]] = s
      BY <1>0, <2>3, BaseIsSector DEF Answers, SpaceIds, TypeOKMgr, MapInv
    <3>2. CASE sectorMap[s] = m
      BY <1>1, <2>2, <3>1, <3>2, TargetIsSpace DEF Answers
    <3>3. CASE sectorMap[s] # m
      BY <1>0, <1>1, <1>4, <2>2, <2>3, <3>1, <3>3
         DEF TakeOffline, Answers, TypeOKMgr, callVars
    <3> QED
      BY <3>2, <3>3
  <2> QED
    BY <1>1, <2>1, <2>2, <2>3 DEF LoadInv, TearingDown, Crit, callVars
<1>5. ASSUME NEW m \in Slots, StopSectorThread(m) \/ DropListener(m) PROVE LoadInv'
  <2>1. /\ TearingDown /\ TearingDown' /\ family' \subseteq family
        /\ UNCHANGED <<target, deferred, online>>
    BY <1>5 DEF StopSectorThread, DropListener, TearingDown
  <2>2. \A s : Answers(s) => Answers(s)'
    BY <1>1, <2>1 DEF Answers, callVars
  <2> QED
    BY <1>1, <2>1, <2>2 DEF LoadInv, TearingDown, callVars
<1>6. CASE Purge
  <2>1. /\ target \in Slots /\ mpc' = "idle" /\ ~TearingDown' /\ online' = online
    BY <1>0, <1>6 DEF Purge, TearingDown, LockInv, TypeOKTeardown
  <2>2. ASSUME NEW s \in SpaceIds, contiguous[s], deferred'[s] # 0
        PROVE  deferred'[s] = 1 /\ Answers(s)'
    <3>1. s # sectorID[target] /\ deferred'[s] = deferred[s]
      BY <1>0, <1>6, <2>2 DEF Purge, TypeOKMgr
    <3>2. deferred[s] = 1 /\ Answers(s)
      BY <2>2, <3>1 DEF LoadInv
    <3>3. target # sectorMap[s]
      BY <1>0, <2>1, <3>1, <3>2, BaseIsSector DEF SpaceIds, MapInv, Answers
    <3> QED
      BY <1>1, <2>1, <3>1, <3>2, <3>3 DEF Answers, callVars
  <2> QED
    BY <1>1, <2>1, <2>2 DEF LoadInv, callVars
<1> QED
  BY <1>2, <1>3, <1>4, <1>5, <1>6 DEF Teardown

\* Every step keeps one copy of each sector's objects.
LEMMA NextLoad ==
    ASSUME PortsBind, RoomForAll, StationsOfSpace, BaseInv, SafeInv, ThreadInv, LoadInv,
           [Next]_vars
    PROVE  LoadInv'
<1>0. TypeOKLists
  BY DEF BaseInv, TypeOK
<1>1. CASE \E t \in Callers : EnsureSectorStarted(t)
  BY <1>1, LoadEnsure
<1>2. CASE (\E m \in Slots : Poll(m)) \/ Teardown
  BY <1>2, LoadMain
<1>3. CASE \E m \in Slots : EventStep(m)
  <2>1. \A s \in SpaceIds : contiguous'[s] => contiguous[s]
    BY <1>0, <1>3
       DEF EventStep, GateOrDock, Transfer, FinishGate, LaunchIntoSpace, Handoff, AppendDeco,
           EventReturn, SweepList, TypeOKLists
  <2> QED
    BY <1>0, <1>3, <2>1, EventStepOutside, LoadOutside DEF OutsideOK
<1>4. CASE \/ \E p \in Players : PlayerStep(p)
           \/ MasterReply \/ LoginStage4Return \/ Tick
  <2>1. contiguous' = contiguous
    BY <1>4
       DEF PlayerStep, Connect, Logout, MasterHandoff, HandleLogin, LoginStage1, LoginStage4,
           LoginStage7, LoginStage10, LoginComplete, LoginTimeout, MasterReply,
           LoginStage4Return, Tick
  <2> QED
    BY <1>0, <1>4, <2>1, PlayerStepOutside, ReturnOutside, TickOutside, LoadOutside
       DEF OutsideOK
<1>5. CASE UNCHANGED vars
  <2>1. OutsideStep /\ contiguous' = contiguous
    BY <1>5 DEF vars, callVars, OutsideStep
  <2> QED
    BY <1>0, <2>1, LoadOutside
<1> QED
  BY <1>1, <1>2, <1>3, <1>4, <1>5 DEF Next

\* A restart never loads the deferred objects of a sector on top of resident ones,
\* unless a developer broke the skeleton prefix (LoadSectorContent appends, and only
\* PurgeDeferredObjects takes away): in a server whose ports can be bound and whose
\* pool has a manager for every sector.
THEOREM ObjectsLoadedOnce ==
    ASSUME PortsBind, RoomForAll, StationsOfSpace
    PROVE  Spec => []LoadedOnce
<1>1. Init => LoadInv
  BY DEF Init, LoadInv, TearingDown
<1>2. BaseInv /\ SafeInv /\ ThreadInv /\ LoadInv /\ [Next]_vars => LoadInv'
  BY NextLoad
<1>3. BaseInv /\ LoadInv => LoadedOnce
  BY DEF BaseInv, TypeOK, TypeOKMgr, LoadInv, LoadedOnce
<1> QED
  BY <1>1, <1>2, <1>3, AlwaysThread, PTL DEF Spec

-----------------------------------------------------------------------------
(* m_SectorCount.  A cold start counts the sector before it is online, a       *)
(* restart after, and a park takes it off the count after it went offline.  A  *)
(* sector without content is counted and never online, so the theorem is about *)
(* sectors that have some.                                                     *)

OnlineSlots == {m \in Slots : online[m]}
One(P) == IF P THEN 1 ELSE 0

Early == \E t \in Callers : pc[t] \in {"thread", "listen"}
Late == \E t \in Callers : pc[t] = "rstamp"
Leaving == mpc \in {"join", "drop"}

CountInv ==
    sectorCount = Cardinality(OnlineSlots) + One(Early) - One(Late) + One(Leaving)

\* How the number of online sectors changes when one slot changes.
LEMMA OnlineCount ==
    ASSUME TypeOKMgr, NEW m \in Slots
    PROVE  /\ Cardinality(OnlineSlots) \in Nat
           /\ online' = online => OnlineSlots' = OnlineSlots
           /\ online' = [online EXCEPT ![m] = TRUE] /\ ~online[m]
                => Cardinality(OnlineSlots') = Cardinality(OnlineSlots) + 1
           /\ online' = [online EXCEPT ![m] = FALSE] /\ online[m]
                => Cardinality(OnlineSlots') = Cardinality(OnlineSlots) - 1
<1>1. IsFiniteSet(OnlineSlots)
  <2>1. IsFiniteSet(Slots)
    BY PoolAssumption, FS_Interval DEF Slots
  <2>2. OnlineSlots \in SUBSET Slots
    BY DEF OnlineSlots
  <2> QED
    BY <2>1, <2>2, FS_Subset
<1>2. Cardinality(OnlineSlots) \in Nat
  BY <1>1, FS_CardinalityType
<1>3. ASSUME online' = [online EXCEPT ![m] = TRUE], ~online[m]
      PROVE  Cardinality(OnlineSlots') = Cardinality(OnlineSlots) + 1
  <2>1. OnlineSlots' = OnlineSlots \cup {m} /\ m \notin OnlineSlots
    BY <1>3 DEF OnlineSlots, TypeOKMgr
  <2> QED
    BY <1>1, <2>1, FS_AddElement
<1>4. ASSUME online' = [online EXCEPT ![m] = FALSE], online[m]
      PROVE  Cardinality(OnlineSlots') = Cardinality(OnlineSlots) - 1
  <2>1. OnlineSlots' = OnlineSlots \ {m} /\ m \in OnlineSlots
    BY <1>4 DEF OnlineSlots, TypeOKMgr
  <2> QED
    BY <1>1, <2>1, FS_RemoveElement
<1> QED
  BY <1>2, <1>3, <1>4 DEF OnlineSlots

\* Outside the start and teardown paths nothing is counted.
LEMMA CountOutside ==
    ASSUME CountInv, OutsideStep
    PROVE  CountInv'
<1>1. OnlineSlots' = OnlineSlots /\ sectorCount' = sectorCount /\ Leaving' = Leaving
  BY DEF OutsideStep, OnlineSlots, Leaving, mgrVars, tdVars
<1>2. (Early' <=> Early) /\ (Late' <=> Late)
  BY DEF OutsideStep, Early, Late, Crit
<1> QED
  BY <1>1, <1>2 DEF CountInv, One

\* Every step of EnsureSectorStarted keeps the count.
LEMMA CountEnsure ==
    ASSUME PortsBind, AllHaveData, BaseInv, SafeInv, CountInv,
           NEW t \in Callers, EnsureSectorStarted(t)
    PROVE  CountInv'
<1>0. /\ TypeOKMgr /\ TypeOKCalls /\ TypeOKTeardown /\ LockInv /\ CallInv /\ ArgInv
  BY DEF BaseInv, TypeOK
<1>1. CASE FastPath(t)
  BY <1>1, FastPathOutside, CountOutside DEF OutsideOK
<1>2. CASE TakeLock(t)
  <2>1. /\ (Early' <=> Early) /\ (Late' <=> Late) /\ Leaving' = Leaving
        /\ OnlineSlots' = OnlineSlots /\ sectorCount' = sectorCount
    BY <1>0, <1>2
       DEF TakeLock, Return, Goto, Early, Late, Leaving, OnlineSlots, TypeOKCalls, mgrVars, tdVars
  <2> QED
    BY <2>1 DEF CountInv, One
<1> SUFFICES ASSUME ~FastPath(t), ~TakeLock(t) PROVE CountInv'
  BY <1>1, <1>2
<1>3. /\ pc[t] \in Crit /\ ~TearingDown /\ sec[t] \in Sectors
      /\ \A u \in Callers : u # t => pc[u] \notin Crit
  BY HolderAlone
     DEF EnsureSectorStarted, Restart, ColdStart, BeginThread, BeginListener, FinishStart, Crit
<1>4. /\ UNCHANGED tdVars
      /\ \A u \in Callers : u # t => pc'[u] = pc[u]
  BY <1>0
     DEF EnsureSectorStarted, Restart, ColdStart, BeginThread, BeginListener, FinishStart,
         Return, Goto, TypeOKCalls
<1>5. /\ Early <=> pc[t] \in {"thread", "listen"}
      /\ Late <=> pc[t] = "rstamp"
      /\ Early' <=> pc'[t] \in {"thread", "listen"}
      /\ Late' <=> pc'[t] = "rstamp"
  BY <1>3, <1>4 DEF Early, Late, Crit
<1>6. ~Leaving /\ ~Leaving'
  BY <1>3, <1>4 DEF Leaving, TearingDown, tdVars
<1>7. sectorCount \in Int /\ Cardinality(OnlineSlots) \in Nat
  BY <1>0, OnlineCount, PoolAssumption, SMTT(30) DEF TypeOKMgr, Slots
<1>8. CASE Restart(t) \/ BeginThread(t) \/ FinishStart(t)
  <2>1. OnlineSlots' = OnlineSlots
    BY <1>8 DEF Restart, BeginThread, FinishStart, OnlineSlots
  <2>2. sectorCount' = IF pc[t] = "rstamp" THEN sectorCount + 1 ELSE sectorCount
    BY <1>8 DEF Restart, BeginThread, FinishStart
  <2>3. (Early' <=> Early) /\ ~Late'
    BY <1>0, <1>5, <1>8 DEF Restart, BeginThread, FinishStart, Goto, TypeOKCalls
  <2> QED
    BY <1>5, <1>6, <1>7, <2>1, <2>2, <2>3 DEF CountInv, One
<1>9. CASE ColdStart(t)
  <2>1. OnlineSlots' = OnlineSlots /\ HasData(sec[t]) /\ pc[t] = "cold"
    BY <1>3, <1>9 DEF ColdStart, OnlineSlots, AllHaveData
  <2>2. \/ sectorCount' = sectorCount /\ pc'[t] = "ret"
        \/ sectorCount' = sectorCount + 1 /\ pc'[t] = "thread"
    BY <1>0, <1>9, <2>1 DEF ColdStart, Return, TypeOKCalls
  <2> QED
    BY <1>5, <1>6, <1>7, <2>1, <2>2 DEF CountInv, One
<1>10. CASE BeginListener(t)
  <2>1. res[t] \in Slots /\ ~online[res[t]]
    BY <1>0, <1>10
       DEF BeginListener, CallInv, CallerKnows, Starting, TypeOKCalls, SafeInv, StartInv
  <2>2. online' = [online EXCEPT ![res[t]] = TRUE] /\ sectorCount' = sectorCount
    BY <1>0, <1>10, <2>1 DEF BeginListener, PortsBind, TypeOKMgr
  <2>3. Cardinality(OnlineSlots') = Cardinality(OnlineSlots) + 1
    BY <1>0, <2>1, <2>2, OnlineCount
  <2>4. \/ pc[t] = "listen" /\ pc'[t] = "stamp"
        \/ pc[t] = "rlisten" /\ pc'[t] = "rstamp"
    BY <1>0, <1>10 DEF BeginListener, Goto, TypeOKCalls
  <2> QED
    BY <1>5, <1>6, <1>7, <2>2, <2>3, <2>4 DEF CountInv, One
<1> QED
  BY <1>8, <1>9, <1>10 DEF EnsureSectorStarted

\* Every step of the idle poll and of the teardown keeps the count.
LEMMA CountMain ==
    ASSUME BaseInv, SafeInv, CountInv, (\E m \in Slots : Poll(m)) \/ Teardown
    PROVE  CountInv'
<1>0. /\ TypeOKMgr /\ TypeOKCalls /\ TypeOKTeardown /\ LockInv
  BY DEF BaseInv, TypeOK
<1>1. Early' = Early /\ Late' = Late
  BY DEF Poll, Teardown, TeardownBegin, TakeOffline, StopSectorThread, DropListener, Purge,
         callVars, Early, Late
<1>2. sectorCount \in Int /\ Cardinality(OnlineSlots) \in Nat
  BY <1>0, OnlineCount, PoolAssumption, SMTT(30) DEF TypeOKMgr, Slots
<1>3. CASE (\E m \in Slots : Poll(m) \/ StopSectorThread(m)) \/ TeardownBegin \/ Purge
  <2>1. UNCHANGED <<OnlineSlots, sectorCount, Leaving>>
    BY <1>3
       DEF Poll, StopSectorThread, TeardownBegin, Purge, OnlineSlots, Leaving, mgrVars, tdVars
  <2> QED
    BY <1>1, <2>1 DEF CountInv
<1>4. ASSUME NEW m \in Slots, TakeOffline(m) PROVE CountInv'
  <2>1. online[m]
    BY <1>0, <1>4 DEF TakeOffline, SafeInv, FamilyInv, TearingDown, Current, DtlsInv, Dropping
  <2>2. Cardinality(OnlineSlots') = Cardinality(OnlineSlots) - 1
    BY <1>0, <1>4, <2>1, OnlineCount DEF TakeOffline
  <2>3. ~Leaving /\ Leaving' /\ sectorCount' = sectorCount
    BY <1>4 DEF TakeOffline, Leaving
  <2> QED
    BY <1>1, <1>2, <2>2, <2>3 DEF CountInv, One
<1>5. ASSUME NEW m \in Slots, DropListener(m) PROVE CountInv'
  <2>1. OnlineSlots' = OnlineSlots /\ sectorCount' = sectorCount - 1 /\ Leaving /\ ~Leaving'
    BY <1>5 DEF DropListener, OnlineSlots, Leaving
  <2> QED
    BY <1>1, <1>2, <2>1 DEF CountInv, One
<1> QED
  BY <1>3, <1>4, <1>5 DEF Teardown

\* m_SectorCount is the number of online sectors when no start or park is under way,
\* whatever starts, restarts and parks of whichever sectors went before.
THEOREM CountsOnline ==
    ASSUME PortsBind, AllHaveData
    PROVE  Spec => []Tally
<1>1. Init => CountInv
  <2> SUFFICES ASSUME Init PROVE CountInv
    OBVIOUS
  <2>1. OnlineSlots = {} /\ sectorCount = 0 /\ ~Early /\ ~Late /\ ~Leaving
    BY DEF Init, OnlineSlots, Early, Late, Leaving
  <2> QED
    BY <2>1, FS_EmptySet DEF CountInv, One
<1>2. BaseInv /\ SafeInv /\ CountInv /\ [Next]_vars => CountInv'
  <2> SUFFICES ASSUME BaseInv, SafeInv, CountInv, [Next]_vars PROVE CountInv'
    OBVIOUS
  <2>1. CASE \E t \in Callers : EnsureSectorStarted(t)
    BY <2>1, CountEnsure
  <2>2. CASE (\E m \in Slots : Poll(m)) \/ Teardown
    BY <2>2, CountMain
  <2>3. CASE \/ \E p \in Players : PlayerStep(p)
             \/ \E m \in Slots : EventStep(m)
             \/ MasterReply \/ LoginStage4Return \/ Tick
    BY <2>3, PlayerStepOutside, EventStepOutside, ReturnOutside, TickOutside, CountOutside
       DEF OutsideOK
  <2>4. CASE UNCHANGED vars
    <3>1. OutsideStep
      BY <2>4 DEF vars, callVars, OutsideStep
    <3> QED
      BY <3>1, CountOutside
  <2> QED
    BY <2>1, <2>2, <2>3, <2>4 DEF Next
<1>3. BaseInv /\ CountInv => Tally
  <2> SUFFICES ASSUME BaseInv, CountInv, lock = Free PROVE Tally
    BY DEF Tally
  <2>1. ~Early /\ ~Late /\ ~Leaving
    BY ThreadIds DEF BaseInv, LockInv, Crit, Early, Late, Leaving
  <2>2. Cardinality(OnlineSlots) \in Nat
    BY OnlineCount, PoolAssumption DEF BaseInv, TypeOK, Slots
  <2> QED
    BY <2>1, <2>2 DEF CountInv, One, Tally, OnlineSlots
<1> QED
  BY <1>1, <1>2, <1>3, AlwaysSafe, PTL DEF Spec

=============================================================================
