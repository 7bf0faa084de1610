----------------------------- MODULE TickClock ------------------------------
(***************************************************************************)
(* The server's millisecond clock, GetNet7TickCount, kept in 32 bits, and  *)
(* the three decisions of the modelled components that compare two of its  *)
(* values: when the idle poll runs (ServerCheck), whether a sector is idle *)
(* (IdleSectorPoll), and whether a timed mission has spoiled               *)
(* (MissionTimedOut).  SectorLifecycle measures idleness as an age; here   *)
(* the ticks wrap, and the real time is kept beside them.                  *)
(*                                                                         *)
(* The unit of time is the shortest interval that matters, so Span stands  *)
(* for 2^32 ms and Window, Poll and Limit for minutes.                     *)
(***************************************************************************)
EXTENDS Integers

CONSTANTS
    Span,     \* number of values of the tick count (2^32)
    Window,   \* m_SectorIdleTeardownMs
    Poll,     \* m_SectorIdlePollMs
    Limit,    \* time_limit of the mission
    Steps,    \* how much time may pass between two rounds of the main loop
    MaxTime   \* end of the modelled time

ClockAssumption ==
    /\ Span \in Nat \ {0} /\ MaxTime \in Nat
    /\ Window \in 1..(Span - 1) /\ Poll \in 1..(Span - 1) /\ Limit \in 1..(Span - 1)
    /\ Steps \subseteq Nat \ {0}

VARIABLES
    time,      \* the real time since the server started
    online,    \* the sector is online
    occupied,  \* the sector has players
    last,      \* m_LastActivityTick
    lastPoll,  \* m_LastTeardownPoll
    start,     \* m_MissionStartTick of a slot, 0 for a clock that is not armed
    stamped,   \* the real time of last
    polled,    \* the real time of lastPoll
    accepted   \* the real time at which the mission in the slot began, -1 for none

sectorVars == <<online, occupied, last, stamped>>
missionVars == <<start, accepted>>
vars == <<time, sectorVars, lastPoll, polled, missionVars>>

\* The arithmetic of u32.
U(n) == n % Span

GetNet7TickCount == U(time)

Init ==
    /\ time = 0 /\ online = FALSE /\ occupied = FALSE
    /\ last = 0 /\ stamped = 0
    /\ lastPoll = 0 /\ polled = 0
    /\ start = 0 /\ accepted = -1

\* StampActivity.
Stamp(t) == last' = U(t) /\ stamped' = t

\* Mutant: idle already at half the window.
IdleHalf(now) == now > U(last + Window \div 2)

\* now > last + m_SectorIdleTeardownMs
Idle(now) == now > U(last + Window)

\* IdleSectorPoll, for an online space sector.
IdleSectorPoll(t) ==
    IF ~online THEN UNCHANGED sectorVars
    ELSE IF occupied THEN Stamp(t) /\ UNCHANGED <<online, occupied>>
    ELSE /\ online' = (online /\ ~Idle(U(t)))
         /\ UNCHANGED <<occupied, last, stamped>>

\* Mutant: the poll is due only after two periods.
DueTwice(now) == now > U(lastPoll + 2 * Poll)

\* start_tick > m_LastTeardownPoll + m_SectorIdlePollMs
Due(now) == now > U(lastPoll + Poll)

\* One round of the main loop: time has passed, and ServerCheck may poll.
ServerCheck(d) ==
    LET t == time + d IN
    /\ t <= MaxTime
    /\ time' = t
    /\ IF Due(U(t))
       THEN lastPoll' = U(t) /\ polled' = t /\ IdleSectorPoll(t)
       ELSE UNCHANGED <<lastPoll, polled, sectorVars>>
    /\ UNCHANGED missionVars

\* EnsureSectorStarted for a player on the way in, and the player's arrival.
Enter ==
    /\ Stamp(time)
    /\ online' = TRUE /\ occupied' = TRUE
    /\ UNCHANGED <<time, lastPoll, polled, missionVars>>

\* The last player leaves; nothing is stamped.
Leave ==
    /\ occupied
    /\ occupied' = FALSE
    /\ UNCHANGED <<time, online, last, stamped, lastPoll, polled, missionVars>>

\* AssignMission, and the load at login: a timed, non-forfeitable mission.
Accept ==
    /\ accepted = -1
    /\ start' = GetNet7TickCount
    /\ accepted' = time
    /\ UNCHANGED <<time, sectorVars, lastPoll, polled>>

\* Mutant: the deadline instead of the difference.
TimedOutDeadline(now) == start # 0 /\ now >= U(start + Limit)

\* MissionTimedOut: the unsigned difference.
MissionTimedOut(now) == start # 0 /\ U(now - start) >= Limit

\* ExpireStaleTimedMissions, when the player goes back to the contact.
ExpireStaleTimedMissions ==
    /\ accepted # -1
    /\ MissionTimedOut(GetNet7TickCount)
    /\ start' = 0 /\ accepted' = -1
    /\ UNCHANGED <<time, sectorVars, lastPoll, polled>>

Next ==
    \/ \E d \in Steps : ServerCheck(d)
    \/ Enter \/ Leave \/ Accept \/ ExpireStaleTimedMissions

Spec == Init /\ [][Next]_vars

---------------------------------------------------------------------------
(***************************************************************************)
(* Properties.                                                             *)
(***************************************************************************)

\* The stored ticks are the low bits of the times they stand for.
TypeOK ==
    /\ time \in 0..MaxTime /\ online \in BOOLEAN /\ occupied \in BOOLEAN
    /\ last = U(stamped) /\ lastPoll = U(polled)
    /\ stamped \in 0..time /\ polled \in 0..time
    /\ accepted \in -1..time
    /\ start = IF accepted = -1 THEN 0 ELSE U(accepted)

\* The ticks of the windows that are open now do not wrap.
BeforeWrap == time + Window < Span /\ time + Poll < Span

\* A sector is parked only when more than the window has passed since its last
\* stamp: "a sector empty past m_SectorIdleTeardownMs is parked" (ServerManager.cpp),
\* up to the last window before the ticks wrap.
ParkedIdle == BeforeWrap /\ online /\ ~online' => time' - stamped > Window
ParksWhenIdle == [][ParkedIdle]_vars

\* The poll runs "periodically" (ServerManager.cpp ServerCheck): after a round of the
\* main loop the last poll is never longer ago than its period, up to the last window
\* before the ticks wrap.
PollsOn == BeforeWrap => time - polled <= Poll

\* A slot whose clock is armed is freed exactly when the limit has passed since the
\* mission began, "correct across a single GetNet7TickCount() wrap" (MissionTimer.h).
SpoilsOnTime ==
    accepted # -1 /\ start # 0 /\ time - accepted < Span =>
        (MissionTimedOut(GetNet7TickCount) <=> time - accepted >= Limit)
=============================================================================
