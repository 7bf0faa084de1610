--------------------------- MODULE SectorLifecycle ---------------------------
(***************************************************************************)
(* On-demand start and idle teardown of sectors in the game server.        *)
(*                                                                         *)
(* Threads.  The main thread runs IdleSectorPoll and TeardownSector.  The  *)
(* callers of EnsureSectorStarted are the master receiver thread           *)
(* (ProcessHandoff), the login thread (RunLoginThread, stage 4) and one    *)
(* event thread per started sector (gate, dock, launch, transfer).  All of *)
(* them share the manager pool, m_SectorMap, the player lists and one      *)
(* mutex, m_SectorStartMutex; the fast path of EnsureSectorStarted, the    *)
(* port lookup and the player lists are read without it.                   *)
(*                                                                         *)
(* A sector id below 9999 is space; a larger one is a station that shares  *)
(* the object manager of sector id \div 10.                                *)
(***************************************************************************)
EXTENDS Integers, FiniteSets

CONSTANTS
    MaxSectors,    \* size of the manager pool, m_MaxSectors
    Sectors,       \* sector ids that handoffs name
    ContentDB,     \* ids with a row in the `sectors` table
    Players,       \* player nodes of the global memory manager
    FreshPlayers,  \* players whose character has no saved data yet
    StartSector,   \* home station of a fresh character
    Moves,         \* what event threads do: "gate", "transfer", "launch", "deco"
    BindOutcomes,  \* {TRUE}, or BOOLEAN when bind() may fail
    IdleTeardown,  \* m_SectorIdleTeardownMs, in ticks of the model's clock
    AckTimeout     \* LoginAckTimeoutMs, in the same ticks

ASSUME PoolAssumption == MaxSectors \in Nat \ {0}
ASSUME SectorAssumption == /\ Sectors \subseteq Nat \ {0}
                           /\ ContentDB \subseteq Nat
                           /\ \A s \in Sectors : (s \geq 9999) => (s \div 10 \in Sectors)
                           /\ StartSector \in Sectors
                           /\ FreshPlayers \subseteq Players
ASSUME BindAssumption == BindOutcomes \subseteq BOOLEAN
ASSUME TimeAssumption == IdleTeardown \in Nat /\ AckTimeout \in Nat

Slots == 1 .. MaxSectors
NULL == 0

\* The event thread of slot m is thread m.
Master == MaxSectors + 1
Login == MaxSectors + 2
Callers == 1 .. (MaxSectors + 2)
Main == MaxSectors + 3
Free == 0          \* nobody holds m_SectorStartMutex

IsSpace(s) == s < 9999
Base(s) == IF IsSpace(s) THEN s ELSE s \div 10
HasData(s) == Base(s) \in ContentDB

\* Deferred objects are counted in copies; the count stops at LoadBound.
LoadBound == 2
\* Event threads of one manager; the count stops at ThreadBound.
ThreadBound == 2
\* Transports minted by one manager; the count stops at MintBound.
MintBound == 2

LAST == 20         \* LAST_LOGIN_STAGE
AckStages == {3, 6, 9, 12}

VARIABLES
    sectorMap,     \* m_SectorMap: sector id -> slot or NULL
    sectorID,      \* m_SectorID of each slot (NULL: unassigned)
    online,        \* m_SectorOnline
    evThreads,     \* live event threads of each slot
    listener,      \* m_SectorConnection: "none", "live" (port bound) or "freed"
    connDtls,      \* transport owned by the listener (NULL or its number)
    parkedDtls,    \* m_ParkedDtls
    minted,        \* transports MakeServerDtlsTransport made for this slot
    age,           \* ticks since m_LastActivityTick, up to IdleTeardown + 1
    plist,         \* m_PlayerList of each slot
    deferred,      \* copies of the deferred objects resident in a space sector
    contiguous,    \* is the skeleton a prefix of the object list?
    sectorCount,   \* m_SectorCount
    lock,          \* holder of m_SectorStartMutex, or Free
    pc,            \* control point of each caller
    kind,          \* why the caller is inside EnsureSectorStarted
    sec,           \* its argument sector_id
    who,           \* the player it is working for
    res,           \* its result: a slot or NULL
    mpc,           \* control point of the main thread
    target,        \* slot of the space sector that is being torn down
    family,        \* members still to be taken down
    members,       \* all members of the family
    cli,           \* the client: "out", "handoff", "confirmed" or "joined"
    stage,         \* m_LoginStage
    waited,        \* ticks spent waiting for the current login ack
    psec,          \* the player's sector number
    via,           \* sector whose port the client was redirected to
    gateDest       \* m_StargateDestination (NULL: none)

mgrVars == <<sectorMap, sectorID, online, evThreads, listener, connDtls,
             parkedDtls, minted, deferred, sectorCount>>
callVars == <<pc, kind, sec, who, res>>
tdVars == <<mpc, target, family, members>>
playerVars == <<cli, stage, waited, psec, via, gateDest>>
vars == <<mgrVars, age, plist, contiguous, lock, callVars, tdVars, playerVars>>

SpaceIds == {Base(s) : s \in Sectors}

Init ==
    /\ sectorMap = [s \in Sectors |-> NULL]
    /\ sectorID = [m \in Slots |-> NULL]
    /\ online = [m \in Slots |-> FALSE]
    /\ evThreads = [m \in Slots |-> 0]
    /\ listener = [m \in Slots |-> "none"]
    /\ connDtls = [m \in Slots |-> NULL]
    /\ parkedDtls = [m \in Slots |-> NULL]
    /\ minted = [m \in Slots |-> 0]
    /\ age = [m \in Slots |-> IdleTeardown + 1]
    /\ plist = [m \in Slots |-> {}]
    /\ deferred = [s \in SpaceIds |-> 0]
    /\ contiguous = [s \in SpaceIds |-> TRUE]
    /\ sectorCount = 0
    /\ lock = Free
    /\ pc = [t \in Callers |-> "idle"]
    /\ kind = [t \in Callers |-> "none"]
    /\ sec = [t \in Callers |-> NULL]
    /\ who = [t \in Callers |-> NULL]
    /\ res = [t \in Callers |-> NULL]
    /\ mpc = "idle"
    /\ target = NULL
    /\ family = {}
    /\ members = {}
    /\ cli = [p \in Players |-> "out"]
    /\ stage = [p \in Players |-> 0]
    /\ waited = [p \in Players |-> 0]
    /\ psec = [p \in Players |-> NULL]
    /\ via = [p \in Players |-> NULL]
    /\ gateDest = [p \in Players |-> NULL]

-----------------------------------------------------------------------------
(* EnsureSectorStarted, step by step on the thread of its caller. *)

\* Enter EnsureSectorStarted(s) on thread t, on behalf of player p.
Call(t, k, s, p) ==
    /\ pc' = [pc EXCEPT ![t] = "fast"]
    /\ kind' = [kind EXCEPT ![t] = k]
    /\ sec' = [sec EXCEPT ![t] = s]
    /\ who' = [who EXCEPT ![t] = p]
    /\ res' = [res EXCEPT ![t] = NULL]

Return(t, m) ==
    /\ pc' = [pc EXCEPT ![t] = "ret"]
    /\ res' = [res EXCEPT ![t] = m]
    /\ UNCHANGED <<kind, sec, who>>

Goto(t, l) == /\ pc' = [pc EXCEPT ![t] = l]
              /\ UNCHANGED <<kind, sec, who, res>>

Stamp(m) == age' = [age EXCEPT ![m] = 0]

\* Lock-free: a mapped manager that is online is stamped and returned.
FastPath(t) ==
    /\ pc[t] = "fast"
    /\ LET m == sectorMap[sec[t]] IN
         IF m # NULL /\ online[m]
         THEN Stamp(m) /\ Return(t, m)
         ELSE Goto(t, "wait") /\ UNCHANGED age
    /\ UNCHANGED <<mgrVars, plist, contiguous, lock, tdVars, playerVars>>

\* Mutant: what was read before the wait is trusted after it.
TakeLockNoRecheck(t) ==
    /\ pc[t] = "wait"
    /\ lock = Free
    /\ Goto(t, "cold")
    /\ lock' = t
    /\ UNCHANGED <<mgrVars, age, plist, contiguous, tdVars, playerVars>>

\* Take the start mutex and look again.
TakeLock(t) ==
    /\ pc[t] = "wait"
    /\ lock = Free
    /\ LET m == sectorMap[sec[t]] IN
         IF m # NULL /\ online[m]
         THEN Return(t, m) /\ UNCHANGED lock
         ELSE /\ Goto(t, IF m # NULL THEN "restart" ELSE "cold")
              /\ lock' = t
    /\ UNCHANGED <<mgrVars, age, plist, contiguous, tdVars, playerVars>>

\* Mutant: a station start loads the objects of its parent sector.
LoadParent(s) ==
    deferred' = IF HasData(s) /\ deferred[Base(s)] < LoadBound
                THEN [deferred EXCEPT ![Base(s)] = @ + 1] ELSE deferred

\* LoadSectorContent(s): append the deferred objects.  A station id has no row.
Load(s) ==
    deferred' = IF s \in ContentDB /\ s \in SpaceIds /\ deferred[s] < LoadBound
                THEN [deferred EXCEPT ![s] = @ + 1] ELSE deferred

Restart(t) ==
    /\ pc[t] = "restart"
    /\ Load(sec[t])
    /\ res' = [res EXCEPT ![t] = sectorMap[sec[t]]]
    /\ pc' = [pc EXCEPT ![t] = "rthread"]
    /\ UNCHANGED <<kind, sec, who, sectorMap, sectorID, online, evThreads,
                   listener, connDtls, parkedDtls, minted, sectorCount, age,
                   plist, contiguous, lock, tdVars, playerVars>>

Unassigned == {m \in Slots : sectorID[m] = NULL}

\* Mutant: the start mutex is kept when the pool has no manager left.
ColdStartKeepsLock(t) ==
    /\ pc[t] = "cold"
    /\ Load(sec[t])
    /\ \/ Unassigned = {} /\ Return(t, NULL) /\ UNCHANGED <<sectorMap, sectorID, sectorCount, lock>>
       \/ \E m \in Unassigned :
            /\ sectorID' = [sectorID EXCEPT ![m] = sec[t]]
            /\ sectorMap' = [sectorMap EXCEPT ![sec[t]] = m]
            /\ sectorCount' = sectorCount + 1
            /\ pc' = [pc EXCEPT ![t] = "thread"]
            /\ res' = [res EXCEPT ![t] = m]
            /\ UNCHANGED <<kind, sec, who, lock>>
    /\ UNCHANGED <<online, evThreads, listener, connDtls, parkedDtls, minted,
                   age, plist, contiguous, tdVars, playerVars>>

\* SetupSectorServer: claim the first unassigned manager and map it, even when
\* the sector turns out to have no data.
ColdStart(t) ==
    /\ pc[t] = "cold"
    /\ Load(sec[t])
    /\ \/ /\ Unassigned = {}
          /\ Return(t, NULL)
          /\ lock' = Free
          /\ UNCHANGED <<sectorMap, sectorID, sectorCount>>
       \/ \E m \in Unassigned :
            /\ \A k \in Unassigned : m <= k
            /\ sectorID' = [sectorID EXCEPT ![m] = sec[t]]
            /\ sectorMap' = [sectorMap EXCEPT ![sec[t]] = m]
            /\ sectorCount' = sectorCount + 1
            /\ IF HasData(sec[t])
               THEN /\ pc' = [pc EXCEPT ![t] = "thread"]
                    /\ res' = [res EXCEPT ![t] = m]
                    /\ UNCHANGED <<kind, sec, who, lock>>
               ELSE Return(t, NULL) /\ lock' = Free
    /\ UNCHANGED <<online, evThreads, listener, connDtls, parkedDtls, minted,
                   age, plist, contiguous, tdVars, playerVars>>

\* BeginSectorThread, first half: create the event thread.
BeginThread(t) ==
    /\ pc[t] \in {"thread", "rthread"}
    /\ LET m == res[t] IN
         evThreads' = [evThreads EXCEPT ![m] = IF @ < ThreadBound THEN @ + 1 ELSE @]
    /\ Goto(t, IF pc[t] = "thread" THEN "listen" ELSE "rlisten")
    /\ UNCHANGED <<sectorMap, sectorID, online, listener, connDtls, parkedDtls,
                   minted, deferred, sectorCount, age, plist, contiguous, lock,
                   tdVars, playerVars>>

\* StartListener: bind; adopt the parked transport or mint one; start receiving.
\* A failed bind deletes the connection but keeps the pointer to it.
StartListener(m, ok) ==
    IF ok
    THEN /\ listener' = [listener EXCEPT ![m] = "live"]
         /\ IF parkedDtls[m] # NULL
            THEN /\ connDtls' = [connDtls EXCEPT ![m] = parkedDtls[m]]
                 /\ parkedDtls' = [parkedDtls EXCEPT ![m] = NULL]
                 /\ UNCHANGED minted
            ELSE /\ minted' = [minted EXCEPT ![m] = IF @ < MintBound THEN @ + 1 ELSE @]
                 /\ connDtls' = [connDtls EXCEPT ![m] = minted'[m]]
                 /\ UNCHANGED parkedDtls
    ELSE /\ listener' = [listener EXCEPT ![m] = "freed"]
         /\ UNCHANGED <<connDtls, parkedDtls, minted>>

\* Mutant: a bound listener does not mark the manager online.
BeginListenerOffline(t) ==
    /\ pc[t] \in {"listen", "rlisten"}
    /\ StartListener(res[t], TRUE)
    /\ Goto(t, IF pc[t] = "listen" THEN "stamp" ELSE "rstamp")
    /\ UNCHANGED <<sectorMap, sectorID, online, evThreads, deferred, sectorCount,
                   age, plist, contiguous, lock, tdVars, playerVars>>

\* BeginSectorThread, second half: the listener, and online when it is bound.
BeginListener(t) ==
    /\ pc[t] \in {"listen", "rlisten"}
    /\ \E ok \in BindOutcomes :
         /\ StartListener(res[t], ok)
         /\ online' = [online EXCEPT ![res[t]] = @ \/ ok]
    /\ Goto(t, IF pc[t] = "listen" THEN "stamp" ELSE "rstamp")
    /\ UNCHANGED <<sectorMap, sectorID, evThreads, deferred, sectorCount, age,
                   plist, contiguous, lock, tdVars, playerVars>>

\* Mutant: a restart is not counted.
FinishStartUncounted(t) ==
    /\ pc[t] \in {"stamp", "rstamp"}
    /\ Stamp(res[t])
    /\ lock' = Free
    /\ Goto(t, "ret")
    /\ UNCHANGED <<mgrVars, plist, contiguous, tdVars, playerVars>>

\* StampActivity, count a restart, and leave the critical section.
FinishStart(t) ==
    /\ pc[t] \in {"stamp", "rstamp"}
    /\ Stamp(res[t])
    /\ sectorCount' = IF pc[t] = "rstamp" THEN sectorCount + 1 ELSE sectorCount
    /\ lock' = Free
    /\ Goto(t, "ret")
    /\ UNCHANGED <<sectorMap, sectorID, online, evThreads, listener, connDtls,
                   parkedDtls, minted, deferred, plist, contiguous, tdVars,
                   playerVars>>

EnsureSectorStarted(t) ==
    \/ FastPath(t) \/ TakeLock(t) \/ Restart(t) \/ ColdStart(t)
    \/ BeginThread(t) \/ BeginListener(t) \/ FinishStart(t)

\* The caller is finished with its call; the call's locals are gone.
Done(t) ==
    /\ pc' = [pc EXCEPT ![t] = "idle"]
    /\ kind' = [kind EXCEPT ![t] = "none"]
    /\ sec' = [sec EXCEPT ![t] = NULL]
    /\ who' = [who EXCEPT ![t] = NULL]
    /\ res' = [res EXCEPT ![t] = NULL]

-----------------------------------------------------------------------------
(* Player lists and the galaxy. *)

InGalaxy == {p \in Players : cli[p] # "out"}

\* GetNextPlayerOnList skips a released node and clears its bit, so whoever walks
\* a list counts, and leaves on it, only players of the galaxy.
Swept(m) == plist[m] \cap InGalaxy
Occupied(m) == Swept(m) # {}

SlotOf(p) == IF psec[p] = NULL THEN NULL ELSE sectorMap[psec[p]]

Without(p) == [m \in Slots |-> IF m = SlotOf(p) THEN plist[m] \ {p} ELSE plist[m]]

\* DropPlayerFromGalaxy: leave the sector list, release the node.
Dropped(p) ==
    /\ plist' = Without(p)
    /\ cli' = [cli EXCEPT ![p] = "out"]
    /\ stage' = [stage EXCEPT ![p] = 0]
    /\ waited' = [waited EXCEPT ![p] = 0]
    /\ psec' = [psec EXCEPT ![p] = NULL]
    /\ via' = [via EXCEPT ![p] = NULL]
    /\ gateDest' = [gateDest EXCEPT ![p] = NULL]

\* An avatar login takes a free player node; the client is sent to sector s.
Connect(p, s) ==
    /\ cli[p] = "out"
    /\ cli' = [cli EXCEPT ![p] = "handoff"]
    /\ psec' = [psec EXCEPT ![p] = s]
    /\ UNCHANGED <<mgrVars, age, plist, contiguous, lock, callVars, tdVars,
                   stage, waited, via, gateDest>>

\* Logout, kick or idle reap, on the MVAS, login or an event thread.
Logout(p) ==
    /\ p \in InGalaxy
    /\ Dropped(p)
    /\ UNCHANGED <<mgrVars, age, contiguous, lock, callVars, tdVars>>

-----------------------------------------------------------------------------
(* The master receiver thread: ProcessHandoff. *)

\* 0x2008 MASTER_HANDOFF arrives; the proxy repeats it until it is answered.
MasterHandoff(p) ==
    /\ pc[Master] = "idle"
    /\ cli[p] = "handoff"
    /\ Call(Master, "route", psec[p], p)
    /\ UNCHANGED <<mgrVars, age, plist, contiguous, lock, tdVars, playerVars>>

\* LookupSectorServer: a mapped manager with a bound port, else no reply.
LookupSectorServer(s) == sectorMap[s] # NULL /\ listener[sectorMap[s]] = "live"

\* Send 0x2009 when the lookup succeeds and the player is still there.
MasterReply ==
    /\ pc[Master] = "ret"
    /\ LET p == who[Master] IN
         IF LookupSectorServer(sec[Master]) /\ cli[p] = "handoff" /\ psec[p] = sec[Master]
         THEN /\ cli' = [cli EXCEPT ![p] = "confirmed"]
              /\ via' = [via EXCEPT ![p] = sec[Master]]
         ELSE UNCHANGED <<cli, via>>
    /\ Done(Master)
    /\ UNCHANGED <<mgrVars, age, plist, contiguous, lock, tdVars, stage, waited,
                   psec, gateDest>>

-----------------------------------------------------------------------------
(* The sector login handshake. *)

Reachable(s) == s # NULL /\ LookupSectorServer(s)

\* The thread that reads the player's queue: the login thread below
\* LAST_LOGIN_STAGE, otherwise an event thread that lists the player.
Pulsed(p) ==
    IF stage[p] # LAST THEN pc[Login] = "idle"
    ELSE \E m \in Slots : p \in plist[m] /\ evThreads[m] > 0 /\ pc[m] = "idle"

\* Player::HandleLogin: stage 1, and the sector's idle clock is re-armed.
HandleLogin(p) ==
    /\ cli[p] = "confirmed"
    /\ Reachable(via[p])
    /\ Pulsed(p)
    /\ cli' = [cli EXCEPT ![p] = "joined"]
    /\ stage' = [stage EXCEPT ![p] = 1]
    /\ psec' = [psec EXCEPT ![p] = via[p]]
    /\ gateDest' = [gateDest EXCEPT ![p] = NULL]
    /\ Stamp(sectorMap[via[p]])
    /\ UNCHANGED <<mgrVars, plist, contiguous, lock, callVars, tdVars, waited, via>>

\* Stage 1: Player::SectorLogin; a fresh character is moved to its home station.
LoginStage1(p) ==
    /\ stage[p] = 1
    /\ pc[Login] = "idle"
    /\ stage' = [stage EXCEPT ![p] = 3]
    /\ waited' = [waited EXCEPT ![p] = 0]
    /\ psec' = [psec EXCEPT ![p] = IF p \in FreshPlayers THEN StartSector ELSE @]
    /\ UNCHANGED <<mgrVars, age, plist, contiguous, lock, callVars, tdVars, cli,
                   via, gateDest>>

\* The client's ack reaches the login thread through the sector's port.
Acked(p, n) == stage[p] = n /\ pc[Login] = "idle" /\ Reachable(via[p])

NextStage(p, n) == /\ stage' = [stage EXCEPT ![p] = n]
                   /\ waited' = [waited EXCEPT ![p] = 0]

\* Stage 4: HandleSectorLogin on the player's manager, started if it has none.
LoginStage4(p) ==
    /\ Acked(p, 3)
    /\ IF SlotOf(p) = NULL
       THEN /\ Call(Login, "stage4", psec[p], p)
            /\ UNCHANGED <<stage, waited>>
       ELSE /\ NextStage(p, 6)
            /\ UNCHANGED callVars
    /\ UNCHANGED <<mgrVars, age, plist, contiguous, lock, tdVars, cli, psec, via,
                   gateDest>>

\* Back from the start.  The player may have been dropped meanwhile, and its node
\* may even serve a new login: the stage is advanced all the same.
LoginStage4Return ==
    /\ pc[Login] = "ret"
    /\ LET p == who[Login] IN
         IF p \in InGalaxy THEN NextStage(p, 6) ELSE UNCHANGED <<stage, waited>>
    /\ Done(Login)
    /\ UNCHANGED <<mgrVars, age, plist, contiguous, lock, tdVars, cli, psec, via,
                   gateDest>>

\* Stage 7: HandleSectorLogin2.
LoginStage7(p) ==
    /\ Acked(p, 6)
    /\ NextStage(p, 9)
    /\ UNCHANGED <<mgrVars, age, plist, contiguous, lock, callVars, tdVars, cli,
                   psec, via, gateDest>>

\* Stage 10: HandleSectorLogin3 puts the player on the sector's list.
LoginStage10(p) ==
    /\ Acked(p, 9)
    /\ NextStage(p, 12)
    /\ plist' = [m \in Slots |-> IF m = SlotOf(p) THEN plist[m] \cup {p} ELSE plist[m]]
    /\ UNCHANGED <<mgrVars, age, contiguous, lock, callVars, tdVars, cli, psec,
                   via, gateDest>>

\* Stage 13: CompleteLogin.
LoginComplete(p) ==
    /\ Acked(p, 12)
    /\ NextStage(p, LAST)
    /\ UNCHANGED <<mgrVars, age, plist, contiguous, lock, callVars, tdVars, cli,
                   psec, via, gateDest>>

\* WaitForLoginAck gives up on a client that stayed silent.
LoginTimeout(p) ==
    /\ stage[p] \in AckStages
    /\ waited[p] >= AckTimeout
    /\ pc[Login] = "idle"
    /\ Dropped(p)
    /\ UNCHANGED <<mgrVars, age, contiguous, lock, callVars, tdVars>>

-----------------------------------------------------------------------------
(* The event thread of slot m, working through the players on its list. *)

Serving(m, p) == /\ evThreads[m] > 0
                 /\ pc[m] = "idle"
                 /\ p \in plist[m] \cap InGalaxy
                 /\ stage[p] = LAST

\* Gate and Dock start the destination before they commit the player to it.
\* Gate sets m_StargateDestination first, Dock only when the sector started.
GateOrDock(m, p, d) ==
    /\ Serving(m, p)
    /\ cli[p] = "joined"
    /\ "gate" \in Moves
    /\ d # psec[p]
    /\ Call(m, "gate", d, p)
    /\ gateDest' = [gateDest EXCEPT ![p] = IF IsSpace(d) THEN d ELSE @]
    /\ UNCHANGED <<mgrVars, age, plist, contiguous, lock, tdVars, cli, stage,
                   waited, psec, via>>

\* DropPlayerFromSector, SetSectorNum, SendServerHandoff -> ChangeSectorID.
Handoff(m, p, d) ==
    /\ Serving(m, p)
    /\ cli[p] = "joined"
    /\ plist' = Without(p)
    /\ psec' = [psec EXCEPT ![p] = d]
    /\ cli' = [cli EXCEPT ![p] = "handoff"]
    /\ Call(m, "xfer", d, p)
    /\ UNCHANGED <<mgrVars, age, contiguous, lock, tdVars, stage, waited, via,
                   gateDest>>

\* Docking complete, land and finish-gate actions: SectorServerHandoff.
FinishGate(m, p) == /\ gateDest[p] # NULL
                    /\ HasData(gateDest[p])
                    /\ Handoff(m, p, gateDest[p])

\* Wormholes, tows and group jumps go straight to SectorServerHandoff.
Transfer(m, p, d) == /\ "transfer" \in Moves
                     /\ HasData(d) /\ d # psec[p]
                     /\ Handoff(m, p, d)

\* Mutant: the station rule applied to every sector id.
LaunchAlwaysDivides(m, p) == /\ "launch" \in Moves
                             /\ Handoff(m, p, psec[p] \div 10)

LaunchIntoSpace(m, p) == /\ "launch" \in Moves
                         /\ Handoff(m, p, Base(psec[p]))

\* EnsureSectorStarted returned to Dock, Gate or ChangeSectorID.
EventReturn(m) ==
    /\ pc[m] = "ret"
    /\ LET p == who[m] IN
         /\ plist' = IF kind[m] = "xfer" /\ res[m] # NULL
                     THEN [plist EXCEPT ![res[m]] = @ \cup {p}] ELSE plist
         /\ gateDest' = IF kind[m] = "gate" /\ res[m] # NULL /\ p \in InGalaxy
                        THEN [gateDest EXCEPT ![p] = sec[m]] ELSE gateDest
    /\ Done(m)
    /\ UNCHANGED <<mgrVars, age, contiguous, lock, tdVars, cli, stage, waited,
                   psec, via>>

\* The loop over the list clears the bit of a released node.
SweepList(m) ==
    /\ evThreads[m] > 0 /\ pc[m] = "idle"
    /\ plist[m] # Swept(m)
    /\ plist' = [plist EXCEPT ![m] = Swept(m)]
    /\ UNCHANGED <<mgrVars, age, contiguous, lock, callVars, tdVars, playerVars>>

\* A developer's /deco appends a skeleton-typed object at the tail.
AppendDeco(m, p) ==
    /\ "deco" \in Moves
    /\ Serving(m, p)
    /\ IsSpace(sectorID[m])
    /\ deferred[sectorID[m]] > 0
    /\ contiguous' = [contiguous EXCEPT ![sectorID[m]] = FALSE]
    /\ UNCHANGED <<mgrVars, age, plist, lock, callVars, tdVars, playerVars>>

-----------------------------------------------------------------------------
(* The main thread: IdleSectorPoll and TeardownSector. *)

\* Mutant: the scan misses the first manager of the pool.
PollSkipsFirst(m) ==
    /\ mpc = "idle"
    /\ m > 1
    /\ online[m] /\ IsSpace(sectorID[m])
    /\ \/ Occupied(m) /\ Stamp(m) /\ UNCHANGED tdVars
       \/ /\ ~Occupied(m) /\ age[m] > IdleTeardown
          /\ mpc' = "wait" /\ target' = m
          /\ UNCHANGED <<age, family, members>>
    /\ plist' = [plist EXCEPT ![m] = Swept(m)]
    /\ UNCHANGED <<mgrVars, contiguous, lock, callVars, playerVars>>

\* The poll's visit of slot m: count the players, then re-arm, wait or tear down.
Poll(m) ==
    /\ mpc = "idle"
    /\ online[m] /\ IsSpace(sectorID[m])
    /\ \/ /\ Occupied(m)
          /\ Stamp(m)
          /\ UNCHANGED tdVars
       \/ /\ ~Occupied(m)
          /\ age[m] <= IdleTeardown
          /\ UNCHANGED <<age, tdVars>>
       \/ /\ ~Occupied(m)
          /\ age[m] > IdleTeardown
          /\ mpc' = "wait"
          /\ target' = m
          /\ UNCHANGED <<age, family, members>>
    /\ plist' = [plist EXCEPT ![m] = Swept(m)]
    /\ UNCHANGED <<mgrVars, contiguous, lock, callVars, playerVars>>

\* Mutant: only the space manager is taken down.
FamilyOfOne(m) == {m}

\* Online managers that share the object manager of slot m.
Family(m) == {k \in Slots : online[k] /\ Base(sectorID[k]) = Base(sectorID[m])}

\* The members whose list is walked: up to the first one with a player.
Visited(m) == {k \in Family(m) : \A j \in Family(m) : j < k => ~Occupied(j)}

\* TeardownSector takes the start mutex and looks at the whole family.  The
\* idle clock is not read again.
TeardownBegin ==
    /\ mpc = "wait"
    /\ lock = Free
    /\ \/ /\ ~online[target]
          /\ mpc' = "idle" /\ target' = NULL
          /\ UNCHANGED <<age, plist, lock, family, members>>
       \/ /\ online[target]
          /\ plist' = [k \in Slots |-> IF k \in Visited(target) THEN Swept(k) ELSE plist[k]]
          /\ \/ /\ \/ \E k \in Family(target) : Occupied(k)
                   \/ ~contiguous[sectorID[target]]
                /\ mpc' = "idle" /\ target' = NULL
                /\ Stamp(target)
                /\ UNCHANGED <<lock, family, members>>
             \/ /\ \A k \in Family(target) : ~Occupied(k)
                /\ contiguous[sectorID[target]]
                /\ mpc' = "offline" /\ lock' = Main
                /\ family' = Family(target) /\ members' = Family(target)
                /\ UNCHANGED <<age, target>>
    /\ UNCHANGED <<mgrVars, contiguous, callVars, playerVars>>

\* Members are taken down in pool order.
Current(m) == m \in family /\ \A k \in family : m <= k

\* Mutant: the sector is quiesced without closing the fast path first.
TakeOfflineNot(m) ==
    /\ mpc = "offline" /\ Current(m)
    /\ mpc' = "join"
    /\ UNCHANGED <<mgrVars, age, plist, contiguous, lock, callVars, target,
                   family, members, playerVars>>

TakeOffline(m) ==
    /\ mpc = "offline" /\ Current(m)
    /\ online' = [online EXCEPT ![m] = FALSE]
    /\ mpc' = "join"
    /\ UNCHANGED <<sectorMap, sectorID, evThreads, listener, connDtls,
                   parkedDtls, minted, deferred, sectorCount, age, plist,
                   contiguous, lock, callVars, target, family, members,
                   playerVars>>

\* StopSectorThread joins the event thread: it must reach its loop head.
StopSectorThread(m) ==
    /\ mpc = "join" /\ Current(m)
    /\ pc[m] = "idle"
    /\ evThreads' = [evThreads EXCEPT ![m] = IF @ > 0 THEN @ - 1 ELSE 0]
    /\ mpc' = "drop"
    /\ UNCHANGED <<sectorMap, sectorID, online, listener, connDtls, parkedDtls,
                   minted, deferred, sectorCount, age, plist, contiguous, lock,
                   callVars, target, family, members, playerVars>>

\* Mutant: the transport is deleted with the connection.
DropListenerAndDtls(m) ==
    /\ mpc = "drop" /\ Current(m)
    /\ listener' = [listener EXCEPT ![m] = "none"]
    /\ connDtls' = [connDtls EXCEPT ![m] = NULL]
    /\ sectorCount' = sectorCount - 1
    /\ family' = family \ {m}
    /\ mpc' = IF family = {m} THEN "purge" ELSE "offline"
    /\ UNCHANGED <<sectorMap, sectorID, online, evThreads, parkedDtls, minted,
                   deferred, age, plist, contiguous, lock, callVars, target,
                   members, playerVars>>

\* ClearAllEventSlots, DropListener (the transport is parked), m_SectorCount--.
DropListener(m) ==
    /\ mpc = "drop" /\ Current(m)
    /\ listener' = [listener EXCEPT ![m] = "none"]
    /\ parkedDtls' = [parkedDtls EXCEPT ![m] = connDtls[m]]
    /\ connDtls' = [connDtls EXCEPT ![m] = NULL]
    /\ sectorCount' = sectorCount - 1
    /\ family' = family \ {m}
    /\ mpc' = IF family = {m} THEN "purge" ELSE "offline"
    /\ UNCHANGED <<sectorMap, sectorID, online, evThreads, minted, deferred, age,
                   plist, contiguous, lock, callVars, target, members, playerVars>>

\* PurgeDeferredObjects frees nothing when the skeleton is not a prefix.
Purge ==
    /\ mpc = "purge"
    /\ deferred' = IF contiguous[sectorID[target]]
                   THEN [deferred EXCEPT ![sectorID[target]] = 0] ELSE deferred
    /\ lock' = Free
    /\ mpc' = "idle"
    /\ target' = NULL
    /\ members' = {}
    /\ UNCHANGED <<sectorMap, sectorID, online, evThreads, listener, connDtls,
                   parkedDtls, minted, sectorCount, age, plist, contiguous,
                   callVars, family, playerVars>>

-----------------------------------------------------------------------------
(* The clock.  The login thread drops a silent client before time passes on. *)
Tick ==
    /\ \A p \in Players : stage[p] \in AckStages => waited[p] < AckTimeout
    /\ \/ \E m \in Slots : age[m] <= IdleTeardown
       \/ \E p \in Players : stage[p] \in AckStages
    /\ age' = [m \in Slots |-> IF age[m] <= IdleTeardown THEN age[m] + 1 ELSE age[m]]
    /\ waited' = [p \in Players |-> IF stage[p] \in AckStages THEN waited[p] + 1
                                    ELSE waited[p]]
    /\ UNCHANGED <<mgrVars, plist, contiguous, lock, callVars, tdVars, cli, stage,
                   psec, via, gateDest>>

PlayerStep(p) ==
    \/ \E s \in Sectors : Connect(p, s)
    \/ Logout(p) \/ MasterHandoff(p) \/ HandleLogin(p)
    \/ LoginStage1(p) \/ LoginStage4(p) \/ LoginStage7(p) \/ LoginStage10(p)
    \/ LoginComplete(p) \/ LoginTimeout(p)

EventStep(m) ==
    \/ \E p \in Players :
         \/ \E d \in Sectors : GateOrDock(m, p, d) \/ Transfer(m, p, d)
         \/ FinishGate(m, p) \/ LaunchIntoSpace(m, p) \/ AppendDeco(m, p)
    \/ EventReturn(m) \/ SweepList(m)

Teardown == \/ TeardownBegin \/ Purge
            \/ \E m \in Slots : TakeOffline(m) \/ StopSectorThread(m) \/ DropListener(m)

Next ==
    \/ \E t \in Callers : EnsureSectorStarted(t)
    \/ \E p \in Players : PlayerStep(p)
    \/ \E m \in Slots : EventStep(m) \/ Poll(m)
    \/ MasterReply \/ LoginStage4Return \/ Teardown \/ Tick

Spec == Init /\ [][Next]_vars

\* Every server thread keeps running: a caller inside EnsureSectorStarted goes
\* on, the login thread gives up on silent clients, and the clock advances.  A
\* thread that finds the start mutex free again and again gets it, and every scan
\* of the poll visits every slot.  Clients owe nothing.
Fairness ==
    /\ \A t \in Callers : SF_vars(TakeLock(t))
    /\ SF_vars(TeardownBegin)
    /\ \A t \in Callers : WF_vars(EnsureSectorStarted(t))
    /\ \A m \in Slots : WF_vars(EventReturn(m)) /\ SF_vars(Poll(m))
    /\ \A p \in Players : WF_vars(LoginTimeout(p))
    /\ WF_vars(MasterReply) /\ WF_vars(LoginStage4Return)
    /\ WF_vars(Teardown) /\ WF_vars(Tick)

FairSpec == Spec /\ Fairness

-----------------------------------------------------------------------------
TypeOKMgr ==
    /\ sectorMap \in [Sectors -> Slots \cup {NULL}]
    /\ sectorID \in [Slots -> Sectors \cup {NULL}]
    /\ online \in [Slots -> BOOLEAN]
    /\ evThreads \in [Slots -> 0 .. ThreadBound]
    /\ listener \in [Slots -> {"none", "live", "freed"}]
    /\ connDtls \in [Slots -> 0 .. MintBound]
    /\ parkedDtls \in [Slots -> 0 .. MintBound]
    /\ minted \in [Slots -> 0 .. MintBound]
    /\ deferred \in [SpaceIds -> 0 .. LoadBound]
    /\ sectorCount \in Int

TypeOKLists ==
    /\ age \in [Slots -> 0 .. (IdleTeardown + 1)]
    /\ plist \in [Slots -> SUBSET Players]
    /\ contiguous \in [SpaceIds -> BOOLEAN]

TypeOKCalls ==
    /\ lock \in Callers \cup {Main, Free}
    /\ pc \in [Callers -> {"idle", "fast", "wait", "restart", "cold", "thread",
                           "rthread", "listen", "rlisten", "stamp", "rstamp", "ret"}]
    /\ kind \in [Callers -> {"none", "route", "stage4", "gate", "xfer"}]
    /\ sec \in [Callers -> Sectors \cup {NULL}]
    /\ who \in [Callers -> Players \cup {NULL}]
    /\ res \in [Callers -> Slots \cup {NULL}]

TypeOKTeardown ==
    /\ mpc \in {"idle", "wait", "offline", "join", "drop", "purge"}
    /\ target \in Slots \cup {NULL}
    /\ family \subseteq Slots
    /\ members \subseteq Slots

TypeOKPlayers ==
    /\ cli \in [Players -> {"out", "handoff", "confirmed", "joined"}]
    /\ stage \in [Players -> AckStages \cup {0, 1, LAST}]
    /\ waited \in [Players -> 0 .. AckTimeout]
    /\ psec \in [Players -> Sectors \cup {NULL}]
    /\ via \in [Players -> Sectors \cup {NULL}]
    /\ gateDest \in [Players -> Sectors \cup {NULL}]

\* Every variable stays in its type; in particular every sector number the code
\* computes (the station rule of LaunchIntoSpace) names a sector.
TypeOK == TypeOKMgr /\ TypeOKLists /\ TypeOKCalls /\ TypeOKTeardown /\ TypeOKPlayers

\* A manager the lock-free fast path accepts is fully up: listener bound, event
\* thread running, transport on the connection, deferred objects resident.
OnlineServes ==
    \A m \in Slots : online[m] =>
        /\ listener[m] = "live"
        /\ evThreads[m] > 0
        /\ connDtls[m] # NULL /\ parkedDtls[m] = NULL
        /\ IsSpace(sectorID[m]) => deferred[sectorID[m]] > 0

\* When the shared object manager is purged, no thread of any manager built on
\* it is left to read it.
PurgeQuiesced ==
    mpc = "purge" =>
        \A k \in Slots : /\ sectorID[k] # NULL
                         /\ Base(sectorID[k]) = Base(sectorID[target])
                         => evThreads[k] = 0 /\ listener[k] # "live"

\* Two threads that find a sector missing never claim two managers for it.
NoOrphanManager == \A m \in Slots : sectorID[m] # NULL => sectorMap[sectorID[m]] = m

\* A restart never loads the deferred objects on top of resident ones, unless a
\* developer broke the skeleton prefix.
LoadedOnce == \A s \in SpaceIds : contiguous[s] => deferred[s] <= 1

\* One transport serves a port for the life of the process: a park hands it to
\* the restarted listener, so the session a proxy holds keeps working.
TransportPreserved == \A m \in Slots : minted[m] <= 1

\* A manager never runs two event threads, and runs none while it is parked.
OneEventThread ==
    /\ \A m \in Slots : evThreads[m] <= 1
    /\ lock = Free => \A m \in Slots : evThreads[m] = 1 <=> online[m]

\* m_SectorCount is the number of online sectors when no start or park is under way.
Tally == lock = Free => sectorCount = Cardinality({m \in Slots : online[m]})

\* A call of EnsureSectorStarted returns: the caller's sector hitches for the
\* load and then goes on.
EnsureReturns == \A t \in Callers : pc[t] = "fast" ~> pc[t] = "ret"

\* An empty space sector is parked in the end, unless somebody enters or asks
\* for it (which re-arms its clock) first.
IdleParks ==
    \A m \in Slots :
        online[m] /\ IsSpace(sectorID[m]) /\ ~Occupied(m)
            ~> ~online[m] \/ Occupied(m) \/ age[m] = 0

-----------------------------------------------------------------------------
(* What comments and plans of the repository say of this code. *)

\* "the reading is stable": no player is on a list of the family from the
\* occupancy check to the purge.
OccupancyStable ==
    mpc \in {"offline", "join", "drop", "purge"} => \A k \in members : ~Occupied(k)

\* "A null return means the sector genuinely does not exist in the DB": a call
\* for a sector without data never yields a manager.
AbsentSectorIsNull ==
    \A t \in Callers : pc[t] = "ret" /\ ~HasData(sec[t]) => res[t] = NULL

\* "Bring the sector online on demand, exactly as the master-handoff and
\* ChangeSectorID paths already do": stage 4 ends with the sector online.
LoginStartsSector ==
    [][\A p \in Players : stage[p] = 3 /\ stage'[p] = 6
           => SlotOf(p) # NULL /\ online[SlotOf(p)]]_vars
=============================================================================
