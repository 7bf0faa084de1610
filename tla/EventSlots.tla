----------------------------- MODULE EventSlots -----------------------------
(***************************************************************************)
(* The timed calls of the sectors (SectorManager.cpp, MemoryHandler.cpp):  *)
(* damage that lands later, cooldowns, installs, husks that decay.  Every  *)
(* sector has a wheel of Slots slots of 100 ms with room for Width calls   *)
(* each, an array of CoarseSize long-term calls that is looked at every    *)
(* CoarseEvery slots, and a thread that turns the wheel; any other thread  *)
(* adds and removes calls.  A call is a TimeNode, taken from one ring that *)
(* all sectors share or owned by the object it is about.                   *)
(*                                                                         *)
(* The mutex of a sector is held over each action, so it needs no variable *)
(* of its own, with two exceptions that the steps follow: MakeTimedCall    *)
(* copies and erases the node and releases the mutex while the call runs,  *)
(* and the index of the ring is shared by threads that hold different      *)
(* mutexes.  Time is counted in half slots of 50 ms.                       *)
(***************************************************************************)
EXTENDS Naturals, Integers, Sequences, FiniteSets, FiniteSetsExt, SequencesExt

CONSTANTS
    Sectors,      \* the sector managers
    Threads,      \* threads that add calls: packet handlers, movement, the calls themselves
    Calls,        \* the calls made in a behaviour
    Offsets,      \* the delays they ask for, in half slots
    Own,          \* nodes owned by an object (m_DamageNode, m_ObjectTimeSlot)
    RingSize,     \* m_NodeSize: 450 per player
    Slots,        \* TIMESLOT_DURATION * 10 = 600
    Width,        \* 100 calls per slot
    CoarseSize,   \* LONG_TERM_NODES = 500
    CoarseEvery,  \* 50
    CatchUp,      \* CATCH_UP_LIMIT = 4
    LagMax,       \* 100 slots behind is a lag spike
    LagKeep,      \* after which the thread is 10 slots behind
    MaxTime,      \* bound on the clock
    MaxSessions,  \* bound on the logins of the character the calls are about
    NoNode, NoCall,  \* the null pointer; an erased node has no call
    Prompt        \* TRUE: no time passes while an event thread is behind

EventAssumption ==
    /\ {Slots, Width, CoarseSize, CoarseEvery, CatchUp, RingSize} \subseteq Nat \ {0}
    /\ {LagMax, LagKeep, MaxTime, MaxSessions} \subseteq Nat
    /\ Slots > 2 /\ Slots % CoarseEvery = 0
    /\ Offsets \subseteq Nat /\ Prompt \in BOOLEAN
    /\ Own \cap (0 .. RingSize - 1) = {}

Ring == 0 .. RingSize - 1
Nodes == Ring \cup Own
Never == -1

(* memset(this_node, 0, sizeof(TimeNode)) *)
Blank == [call |-> NoCall, due |-> 0, idx |-> 0]

VARIABLES
    clock,    \* GetNet7TickCount(), in half slots
    node,     \* the TimeNodes: the call, event_time, EventIndex
    circ,     \* m_CircularIndex of the ring
    wheel,    \* m_EventSlots[s][k], as long as m_EventSlotsIndex[k]
    coarse,   \* m_CoarseEventSlots[s]
    at,       \* m_EventSlotIndex[s]
    start,    \* m_StartSlotTick[s]
    ev,       \* the event thread of s: where it is, its index, the call it runs
    th,       \* a thread that adds: where it is, its sector, call, delay, node
    call,     \* history of a call: sector, due time, session, how often and how it ran
    session,  \* the login of the character the calls are about
    slips     \* history: what has gone wrong so far

vars == <<clock, node, circ, wheel, coarse, at, start, ev, th, call, session, slips>>

Asleep == [pc |-> "asleep", cur |-> 0, cycles |-> 0, i |-> 0, max |-> 0, run |-> NoCall]
Idle == [pc |-> "idle", s |-> NoNode, c |-> NoCall, off |-> 0, n |-> NoNode, k |-> 0, run |-> NoCall]
Unmade == [st |-> "unmade", s |-> NoNode, made |-> 0, due |-> 0, n |-> NoNode, session |-> 0,
           ran |-> 0, early |-> FALSE, alien |-> FALSE]

Init ==
    /\ clock = 1
    /\ node = [n \in Nodes |-> Blank]
    /\ circ = 0
    /\ wheel = [s \in Sectors |-> [k \in 0 .. Slots - 1 |-> <<>>]]
    /\ coarse = [s \in Sectors |-> [k \in 1 .. CoarseSize |-> NoNode]]
    /\ at = [s \in Sectors |-> 0]
    /\ start = [s \in Sectors |-> clock \div 2]
    /\ ev = [s \in Sectors |-> Asleep]
    /\ th = [t \in Threads |-> Idle]
    /\ call = [c \in Calls |-> Unmade]
    /\ session = 0
    /\ slips = {}

(* A thread that holds the mutex of s between two steps: in AddTimedCall,   *)
(* with the ring's index read and not yet written.                          *)
Free(s) == \A t \in Threads : th[t].pc = "took" => th[t].s # s

-----------------------------------------------------------------------------
(* MakeTimedCall: the first half copies the node, erases it and releases   *)
(* the mutex; the second half runs the call, for whichever session of its  *)
(* character is on, and takes the mutex again.                             *)
Copied(n) == node[n].call
ErasedCall(n) == [node EXCEPT ![n].call = NoCall]  \* mutant: event_time is left
ErasedNever(n) == node                             \* mutant: the memset is missing
Erased(n) == [node EXCEPT ![n] = Blank]
CallRuns(c) ==
    IF c = NoCall THEN call
    ELSE [call EXCEPT ![c] = [Unmade EXCEPT !.st = call[c].st, !.ran = call[c].ran + 1,
                                            !.early = clock < call[c].due,
                                            !.alien = session # call[c].session]]

-----------------------------------------------------------------------------
(* AddTimedCall: a node of the ring is taken without asking whether it is  *)
(* in use; the index is read in one step and written in the next.          *)
FillNode(t, n) ==
    /\ node' = [node EXCEPT ![n] = [Blank EXCEPT !.call = th'[t].c]]

InUse(n) ==
    node[n].call # NoCall \/ (\E d \in Calls : call[d].n = n) \/ (\E u \in Threads : th[u].n = n)
Slips(what, does) == slips' = slips \cup IF does THEN {what} ELSE {}

GetBroadcastNodeSlot(t) ==
    /\ th[t].pc = "idle"
    /\ \E s \in Sectors, c \in Calls, off \in Offsets :
          /\ call[c].st = "unmade" /\ Free(s)
          /\ th' = [th EXCEPT ![t] = [Idle EXCEPT !.pc = "took", !.s = s, !.c = c, !.off = off, !.n = circ]]
          /\ call' = [call EXCEPT ![c] = [Unmade EXCEPT !.st = "making", !.s = s, !.session = session]]
    /\ Slips("shared", InUse(circ))
    /\ UNCHANGED <<clock, node, circ, wheel, coarse, at, start, ev, session>>

AddTimedCall(t) ==
    /\ th[t].pc = "took"
    /\ circ' = (th[t].n + 1) % RingSize
    /\ th' = [th EXCEPT ![t].pc = "slot"]
    /\ FillNode(t, th[t].n)
    /\ UNCHANGED <<clock, wheel, coarse, at, start, ev, call, session, slips>>

(* AddTimedCallPNode, as MOB::FireWeapon uses it: a gun whose last shot is *)
(* still on its way (event_time is not 0) does not fire.  The guns of a    *)
(* sector are fired one at a time.                                         *)
Home == CHOOSE s \in Sectors : TRUE
AddTimedCallPNode(t) ==
    /\ th[t].pc = "idle" /\ Free(Home)
    /\ \E c \in Calls, off \in Offsets, n \in Own :
          /\ call[c].st = "unmade"
          /\ node[n].due = 0 /\ \A u \in Threads : th[u].n # n
          /\ th' = [th EXCEPT ![t] = [Idle EXCEPT !.pc = "slot", !.s = Home, !.c = c, !.off = off, !.n = n]]
          /\ call' = [call EXCEPT ![c] = [Unmade EXCEPT !.st = "making", !.s = Home, !.session = session]]
          /\ FillNode(t, n)
    /\ UNCHANGED <<clock, circ, wheel, coarse, at, start, ev, session, slips>>

-----------------------------------------------------------------------------
(* GetSlotIndex: at least two slots ahead of the one being called, then    *)
(* the first one with room; Never when the search comes round to it.       *)
SlotsAheadAny(off) == (off + 1) \div 2  \* mutant: no least distance
SlotsAhead(off) == Max({2, (off + 1) \div 2})
GetSlotIndex(s, off) ==
    LET k(j) == (at[s] + SlotsAhead(off) + j) % Slots
        room == {j \in 0 .. Slots - 1 : /\ Len(wheel[s][k(j)]) < Width
                                        /\ \A i \in 1 .. j : k(i) # at[s]}
    IN  IF room = {} THEN Never ELSE k(Min(room))

(* The call is in its slot, and the caller has the node.                   *)
Slotted(t, n, due) ==
    call' = [call EXCEPT ![th[t].c].st = "made", ![th[t].c].made = clock, ![th[t].c].due = due, ![th[t].c].n = n]

(* SlotTimedCall, with room on the wheel ...                               *)
OnWheel(off) == off < 2 * Slots
SlotOnWheel(t) ==
    LET s == th[t].s  n == th[t].n  due == th[t].off + clock
        k == GetSlotIndex(s, th[t].off)
    IN  /\ th[t].pc = "slot" /\ Free(s)
        /\ OnWheel(th[t].off) /\ k # Never
        /\ node' = [node EXCEPT ![n].due = due, ![n].idx = k]
        /\ wheel' = [wheel EXCEPT ![s][k] = Append(@, n)]
        /\ th' = [th EXCEPT ![t] = Idle]
        /\ Slotted(t, n, due)
        /\ Slips("lap", SlotsAhead(th[t].off) = Slots)
        /\ UNCHANGED <<clock, circ, coarse, at, start, ev, session>>

(* ... in the first free long-term slot ...                                *)
LongTerm(t) ==
    /\ th[t].pc = "slot" /\ Free(th[t].s)
    /\ OnWheel(th[t].off) => GetSlotIndex(th[t].s, th[t].off) = Never
FreeCoarse(s) == {k \in 1 .. CoarseSize : coarse[s][k] = NoNode}
SlotCoarse(t) ==
    LET s == th[t].s  n == th[t].n  due == th[t].off + clock IN
    /\ LongTerm(t) /\ FreeCoarse(s) # {}
    /\ node' = [node EXCEPT ![n].due = due, ![n].idx = Never]
    /\ coarse' = [coarse EXCEPT ![s][Min(FreeCoarse(s))] = n]
    /\ th' = [th EXCEPT ![t] = Idle]
    /\ Slotted(t, n, due)
    /\ UNCHANGED <<clock, circ, wheel, at, start, ev, session, slips>>

(* ... or in the place of the long-term call that is due first, which is   *)
(* made now, with the mutex released while it runs.                        *)
FirstDue(s) ==
    LET due(k) == node[coarse[s][k]].due
    IN  Min({k \in 1 .. CoarseSize : \A j \in 1 .. CoarseSize : due(k) <= due(j)})
SlotForced(t) ==
    LET s == th[t].s  n == th[t].n  due == th[t].off + clock
        k == FirstDue(s)
        first == coarse[s][k]
    IN  /\ LongTerm(t) /\ FreeCoarse(s) = {}
        /\ th' = [th EXCEPT ![t].pc = "forced", ![t].k = k, ![t].run = Copied(first)]
        /\ node' = IF first = n THEN Erased(n)
                   ELSE [Erased(first) EXCEPT ![n].due = due, ![n].idx = Never]
        /\ Slotted(t, n, due)
        /\ Slips("forced", TRUE)
        /\ UNCHANGED <<clock, circ, wheel, coarse, at, start, ev, session>>
SlotForcedEnds(t) ==
    LET s == th[t].s IN
    /\ th[t].pc = "forced" /\ Free(s)
    /\ coarse' = [coarse EXCEPT ![s][th[t].k] = th[t].n]
    /\ call' = CallRuns(th[t].run)
    /\ th' = [th EXCEPT ![t] = Idle]
    /\ UNCHANGED <<clock, node, circ, wheel, at, start, ev, session, slips>>

(* RemoveTimedCall(node, true), by the item that kept the node and has not *)
(* seen its call (guns never take a shot back): the pointer is looked for  *)
(* where EventIndex says, in the sector s where the player is now, and the *)
(* node is erased.                                                         *)
Nulled(p, n) ==
    IF n \in Range(p) THEN [p EXCEPT ![Min({i \in DOMAIN p : p[i] = n})] = NoNode] ELSE p
RemovedNode(c, n) ==
    call' = [call EXCEPT ![c].st = IF node[n].call = c THEN "removed" ELSE "missed", ![c].n = NoNode, ![c].made = 0]
RemoveTimedCall(s, c) ==
    LET n == call[c].n  k == node[n].idx
    IN  /\ call[c].st = "made" /\ n \in Ring /\ Free(s)
        /\ IF k = Never
           THEN /\ coarse' = [coarse EXCEPT ![s] = Nulled(@, n)]
                /\ UNCHANGED wheel
           ELSE /\ wheel' = [wheel EXCEPT ![s][k] = Nulled(@, n)]
                /\ UNCHANGED coarse
        /\ node' = Erased(n)
        /\ RemovedNode(c, n)
        /\ Slips("elsewhere", s # call[c].s)
        /\ UNCHANGED <<clock, circ, at, start, ev, th, session>>

-----------------------------------------------------------------------------
(* RunSectorEventThread: one turn of the loop reads the clock once, gives  *)
(* up what lies too far behind, and calls at most CatchUp slots.           *)
Wakes(s) ==
    LET cur == clock \div 2
        from == IF start[s] + LagMax < cur THEN cur - LagKeep ELSE start[s]
    IN  /\ ev[s].pc = "asleep" /\ from < cur
        /\ start' = [start EXCEPT ![s] = from]
        /\ ev' = [ev EXCEPT ![s] = [Asleep EXCEPT !.pc = "loop", !.cur = cur]]
        /\ Slips("skipped", from # start[s])
        /\ UNCHANGED <<clock, node, circ, wheel, coarse, at, th, call, session>>
TurnsOn(s) == start[s] < ev[s].cur /\ ev[s].cycles < CatchUp
Sleeps(s) ==
    /\ ev[s].pc = "loop" /\ ~TurnsOn(s)
    /\ ev' = [ev EXCEPT ![s] = Asleep]
    /\ UNCHANGED <<clock, node, circ, wheel, coarse, at, start, th, call, session, slips>>

(* CallSlotEvents goes on behind the i-th pointer of the slot: it makes    *)
(* the next call, or marks the slot empty and leaves.                      *)
CallFrom(s, i, max) ==
    LET ptrs == wheel[s][at[s]]
        next == {j \in (i + 1) .. max : ptrs[j] # NoNode}
        n == ptrs[Min(next)]
    IN  IF next # {}
        THEN /\ ev' = [ev EXCEPT ![s].pc = "inslot", ![s].i = Min(next), ![s].max = max, ![s].run = Copied(n)]
             /\ node' = Erased(n)
             /\ UNCHANGED wheel
        ELSE /\ ev' = [ev EXCEPT ![s].pc = "called", ![s].i = 0, ![s].max = 0, ![s].run = NoCall]
             /\ wheel' = [wheel EXCEPT ![s][at[s]] = <<>>]
             /\ UNCHANGED node
CallSlotEvents(s) ==
    /\ ev[s].pc = "loop" /\ TurnsOn(s) /\ Free(s)
    /\ CallFrom(s, 0, Len(wheel[s][at[s]]))
    /\ UNCHANGED <<clock, circ, coarse, at, start, th, call, session, slips>>
SlotCallReturns(s) ==
    /\ ev[s].pc = "inslot" /\ Free(s)
    /\ call' = CallRuns(ev[s].run)
    /\ CallFrom(s, ev[s].i, ev[s].max)
    /\ UNCHANGED <<clock, circ, coarse, at, start, th, session, slips>>

(* CallLongTermEvents: every CoarseEvery slots, the calls that are due; a  *)
(* slot is freed when its call has returned.                               *)
Due(i, tick, freed) ==
    {k \in (i + 1) .. CoarseSize : freed[k] # NoNode /\ node[freed[k]].due < tick}
CoarseFrom(s, i, tick, freed) ==
    LET next == Due(i, tick, freed)
        n == freed[Min(next)]
    IN  /\ coarse' = [coarse EXCEPT ![s] = freed]
        /\ IF next # {}
           THEN /\ ev' = [ev EXCEPT ![s].pc = "incoarse", ![s].i = Min(next), ![s].max = tick, ![s].run = Copied(n)]
                /\ node' = Erased(n)
           ELSE /\ ev' = [ev EXCEPT ![s].pc = "turned", ![s].i = 0, ![s].max = 0, ![s].run = NoCall]
                /\ UNCHANGED node
CallLongTermEvents(s) ==
    /\ ev[s].pc = "called" /\ at[s] % CoarseEvery = 0 /\ Free(s)
    /\ CoarseFrom(s, 0, clock, coarse[s])
    /\ UNCHANGED <<clock, circ, wheel, at, start, th, call, session, slips>>
CoarseCallReturns(s) ==
    /\ ev[s].pc = "incoarse" /\ Free(s)
    /\ call' = CallRuns(ev[s].run)
    /\ CoarseFrom(s, ev[s].i, ev[s].max, [coarse[s] EXCEPT ![ev[s].i] = NoNode])
    /\ UNCHANGED <<clock, circ, wheel, at, start, th, session, slips>>

Turns(s) ==
    /\ \/ ev[s].pc = "turned"
       \/ ev[s].pc = "called" /\ at[s] % CoarseEvery # 0
    /\ at' = [at EXCEPT ![s] = (@ + 1) % Slots]
    /\ start' = [start EXCEPT ![s] = @ + 1]
    /\ ev' = [ev EXCEPT ![s].pc = "loop", ![s].cycles = @ + 1]
    /\ UNCHANGED <<clock, node, circ, wheel, coarse, th, call, session, slips>>

-----------------------------------------------------------------------------
(* The clock; and the character logs out and in again, which removes none  *)
(* of its calls (RemovePlayerEvents has no caller).                        *)
Caught(s) == ev[s].pc = "asleep" /\ start[s] = clock \div 2
Tick ==
    /\ clock < MaxTime
    /\ Prompt => \A s \in Sectors : Caught(s)
    /\ clock' = clock + 1
    /\ UNCHANGED <<node, circ, wheel, coarse, at, start, ev, th, call, session, slips>>
Relogs ==
    /\ session < MaxSessions
    /\ session' = session + 1
    /\ UNCHANGED <<clock, node, circ, wheel, coarse, at, start, ev, th, call, slips>>

Next ==
    \/ Tick \/ Relogs
    \/ \E t \in Threads :
          \/ GetBroadcastNodeSlot(t) \/ AddTimedCall(t) \/ AddTimedCallPNode(t)
          \/ SlotOnWheel(t) \/ SlotCoarse(t) \/ SlotForced(t) \/ SlotForcedEnds(t)
    \/ \E s \in Sectors, c \in Calls : RemoveTimedCall(s, c)
    \/ \E s \in Sectors :
          \/ Wakes(s) \/ Sleeps(s) \/ CallSlotEvents(s) \/ SlotCallReturns(s)
          \/ CallLongTermEvents(s) \/ CoarseCallReturns(s) \/ Turns(s)

Spec == Init /\ [][Next]_vars

-----------------------------------------------------------------------------
(* Every variable keeps the type of its field: a node on the wheel knows   *)
(* the slot it is in, and no slot holds more pointers than it has room.    *)
TypeOK ==
    /\ clock \in Nat /\ circ \in Ring /\ session \in 0 .. MaxSessions
    /\ slips \subseteq {"shared", "lap", "forced", "elsewhere", "skipped"}
    /\ node \in [Nodes -> [call : Calls \cup {NoCall}, due : Nat, idx : Never .. Slots - 1]]
    /\ \A s \in Sectors :
          /\ at[s] \in 0 .. Slots - 1 /\ start[s] <= clock \div 2
          /\ coarse[s] \in [1 .. CoarseSize -> Nodes \cup {NoNode}]
          /\ \A k \in 0 .. Slots - 1 : Range(wheel[s][k]) \subseteq Nodes \cup {NoNode}
    /\ \A s \in Sectors, k \in 0 .. Slots - 1 : Len(wheel[s][k]) <= Width

(* Where a call that was added can be: its node, with the call in it, in a *)
(* slot of its sector that will still be called; in the hands of the       *)
(* thread that runs it; or in those of the thread that is placing it.      *)
ToBeCalled(s) ==
    UNION {Range(IF k = at[s] /\ ev[s].pc = "inslot"
                 THEN SubSeq(wheel[s][k], ev[s].i + 1, ev[s].max) ELSE wheel[s][k]) : k \in 0 .. Slots - 1}
      \cup {coarse[s][k] : k \in {j \in 1 .. CoarseSize : ~(ev[s].pc = "incoarse" /\ ev[s].i = j)}}
Running(c) == (\E s \in Sectors : ev[s].run = c) \/ (\E t \in Threads : th[t].run = c)
Pending(c) ==
    \/ \E n \in ToBeCalled(call[c].s) \ {NoNode} : node[n].call = c
    \/ \E t \in Threads : th[t].pc = "forced" /\ th[t].c = c /\ node[th[t].n].call = c
    \/ Running(c)

(* A call that was added and not removed has run, is running or will run:  *)
(* no slot is emptied under it and no node is taken from it                *)
(* (SectorManager.cpp:1109, 1131, 1297, MemoryHandler.cpp:72).             *)
NoneLost ==
    slips \subseteq {"elsewhere", "skipped"} =>
    \A c \in Calls : call[c].st = "made" /\ call[c].ran = 0 => Pending(c)

(* A call runs at most once, although a slot keeps its pointer to the node *)
(* while the call runs with the mutex released (MakeTimedCall).            *)
RunsOnce == \A c \in Calls : call[c].ran + (IF Running(c) THEN 1 ELSE 0) <= 1

(* No call runs before the time it was asked for (GetSlotIndex, and the    *)
(* pointers RemoveTimedCall must not leave behind in an earlier slot).     *)
NotEarly == slips \subseteq {"skipped"} => \A c \in Calls : ~call[c].early

(* No call is late by more than the slot it waits for the end of and the   *)
(* slots that were full; among the long-term calls, by more than the gap   *)
(* between two looks.  Two slots is the least a call can ask for.          *)
Lateness(c) ==
    IF call[c].n # NoNode /\ node[call[c].n].idx = Never
    THEN 2 * CoarseEvery ELSE 2 * Cardinality(Calls) - 1
NotLate ==
    slips \cap {"shared", "skipped"} = {} =>
    \A c \in Calls :
       call[c].st = "made" /\ call[c].ran = 0 /\ Caught(call[c].s)
          => clock <= Max({call[c].due, call[c].made + 4}) + Lateness(c)

(* A call taken off in time, while its node still held it, never runs.     *)
RemovedStays == \A c \in Calls : call[c].st = "removed" => call[c].ran = 0 /\ ~Running(c)

(* A gun is never jammed: when its node says that a shot is on its way     *)
(* (event_time is not 0), a slot really holds the node (MOB::FireWeapon).  *)
NotJammed ==
    \A n \in Own : node[n].due # 0 =>
       \/ n \in UNION {ToBeCalled(s) : s \in Sectors}
       \/ \E t \in Threads : th[t].pc = "forced" /\ th[t].n = n

(* A call acts only on the login session that it was made in: the calls of *)
(* a player are removed at logout (SectorManager.cpp:1484).                *)
OwnSession == \A c \in Calls : ~call[c].alien
=============================================================================
