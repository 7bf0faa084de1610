----------------------------- MODULE MCInSector -----------------------------
(***************************************************************************)
(* What players share inside the sectors, in small instances: groups whose *)
(* players log off (seats) and groups whose players may be dropped too     *)
(* (invited), trade between two (pair), of goods and of money with a third *)
(* player at hand (three, purse) and with a server that may crash (saved), *)
(* the wheel of timed calls (wheel), with a thread that falls behind       *)
(* (lag), with all long-term room taken (forced) and with two sectors that *)
(* share the ring of nodes (rings), and the clock (ticks).                 *)
(* The components share no variable, so that their steps commute and it is *)
(* enough to let one of them move: a behaviour is one of its part.         *)
(***************************************************************************)
EXTENDS Integers, TLC

CONSTANTS
    Parts,
    Members, Nobody,                               \* groups, and no player
    PoolSize, GroupSize, MaxSeated, MaxInvited, MaxJoins, MaxDrops,
    anna, bert, cora, dirk, elsa, mei, nora, otto, \* traders
    drone, engine, shield, beam,                   \* goods
    Wares, HasAnna, HasBert,                       \* the goods of the pair
    PairCredits, PairSpace, PairSlots, PairLogins,
    Calls, Threads, t1, s1, s2, g1, NullNode, NoCall,  \* timed calls
    Span, Window, Poll, Limit, Steps, MaxTime      \* the clock

VARIABLES
    part,
    pool, lookup, circle, groups, created, invited, joins, drops, led, packed,
    mem, db, saves, money, session, logins, trade, confirm, loose, crashes,
    clock, node, circ, wheel, coarse, at, start, ev, th, call, relogs, slips,
    time, online, occupied, last, lastPoll, armed, stamped, polled, accepted

groupVars == <<pool, lookup, circle, groups, created, invited, joins, drops, led, packed>>
tradeVars == <<mem, db, saves, money, session, logins, trade, confirm, loose, crashes>>
eventVars == <<clock, node, circ, wheel, coarse, at, start, ev, th, call, relogs, slips>>
clockVars == <<time, online, occupied, last, lastPoll, armed, stamped, polled, accepted>>
sectorVars == <<part, groupVars, tradeVars, eventVars, clockVars>>

Seats == INSTANCE Group_proofs WITH
    Avatars <- Members, None <- Nobody, node <- pool, logins <- joins,
    Pool <- PoolSize, Size <- GroupSize, MaxGroups <- MaxSeated, MaxLogins <- MaxJoins,
    MaxDrops <- 0
Invited == INSTANCE Group_proofs WITH
    Avatars <- Members, None <- Nobody, node <- pool, logins <- joins,
    Pool <- PoolSize, Size <- GroupSize, MaxGroups <- MaxInvited, MaxLogins <- MaxJoins

Pair == INSTANCE Trade_proofs WITH
    None <- Nobody, Players <- {anna, bert}, Items <- Wares,
    StartCargo <- (anna :> HasAnna) @@ (bert :> HasBert),
    StartCredits <- PairCredits, CargoSpace <- PairSpace, Slots <- PairSlots,
    Slash <- FALSE, Loot <- FALSE, MaxLogins <- PairLogins, MaxCrashes <- 0, MaxSaves <- 0
Three == INSTANCE Trade_proofs WITH
    None <- Nobody, Players <- {cora, dirk, elsa}, Items <- {shield, beam},
    StartCargo <- (cora :> {shield}) @@ (dirk :> {beam}) @@ (elsa :> {}),
    StartCredits <- 0, CargoSpace <- 1, Slots <- 1, Slash <- FALSE, Loot <- FALSE,
    MaxLogins <- 3, MaxCrashes <- 0, MaxSaves <- 0
Purse == INSTANCE Trade_proofs WITH
    None <- Nobody, Players <- {mei, nora, otto}, Items <- {},
    StartCargo <- (mei :> {}) @@ (nora :> {}) @@ (otto :> {}),
    StartCredits <- 1, CargoSpace <- 1, Slots <- 1, Slash <- FALSE, Loot <- FALSE,
    MaxLogins <- 3, MaxCrashes <- 0, MaxSaves <- 0
Saved == INSTANCE Trade_proofs WITH
    None <- Nobody, Players <- {anna, bert}, Items <- {shield},
    StartCargo <- (anna :> {}) @@ (bert :> {}),
    StartCredits <- 1, CargoSpace <- 1, Slots <- 2, Slash <- TRUE, Loot <- TRUE,
    MaxLogins <- 2, MaxCrashes <- 1, MaxSaves <- 5

Wheel == INSTANCE EventSlots WITH
    NoNode <- NullNode, session <- relogs,
    Sectors <- {s1}, Offsets <- {0, 6, 7, 8}, Own <- {g1}, RingSize <- 1,
    Slots <- 4, Width <- 1, CoarseSize <- 2, CoarseEvery <- 2, CatchUp <- 2,
    LagMax <- 3, LagKeep <- 1, MaxTime <- 13, MaxSessions <- 0, Prompt <- TRUE
Lag == INSTANCE EventSlots WITH
    NoNode <- NullNode, session <- relogs,
    Sectors <- {s1}, Offsets <- {0, 7}, Own <- {},
    RingSize <- 2, Slots <- 4, Width <- 2, CoarseSize <- 2, CoarseEvery <- 2, CatchUp <- 2,
    LagMax <- 2, LagKeep <- 1, MaxTime <- 6, MaxSessions <- 0, Prompt <- FALSE
Forced == INSTANCE EventSlots WITH
    NoNode <- NullNode, session <- relogs,
    Sectors <- {s1}, Offsets <- {6}, Own <- {}, RingSize <- 2,
    Slots <- 3, Width <- 1, CoarseSize <- 1, CoarseEvery <- 1, CatchUp <- 2,
    LagMax <- 3, LagKeep <- 1, MaxTime <- 8, MaxSessions <- 1, Prompt <- TRUE
Rings == INSTANCE EventSlots WITH
    NoNode <- NullNode, session <- relogs,
    Sectors <- {s1, s2}, Offsets <- {0}, Own <- {}, RingSize <- 2,
    Slots <- 3, Width <- 1, CoarseSize <- 1, CoarseEvery <- 3, CatchUp <- 2,
    LagMax <- 3, LagKeep <- 1, MaxTime <- 6, MaxSessions <- 0, Prompt <- TRUE

\* In the other parts there are no members, no traders, and no sector is up.
NoMembers == INSTANCE Group WITH
    Avatars <- {}, None <- Nobody, node <- pool, logins <- joins,
    Pool <- 1, Size <- 2, MaxGroups <- 0, MaxLogins <- 0, MaxDrops <- 0
NoTraders == INSTANCE Trade WITH
    None <- Nobody, Players <- {}, Items <- {}, StartCargo <- <<>>,
    StartCredits <- 0, CargoSpace <- 0, Slots <- 0, Slash <- FALSE, Loot <- FALSE,
    MaxLogins <- 0, MaxCrashes <- 0, MaxSaves <- 0
NoSectors == INSTANCE EventSlots WITH
    NoNode <- NullNode, session <- relogs,
    Sectors <- {}, Threads <- {}, Calls <- {}, Offsets <- {}, Own <- {}, RingSize <- 1,
    Slots <- 3, Width <- 1, CoarseSize <- 1, CoarseEvery <- 1, CatchUp <- 1,
    LagMax <- 0, LagKeep <- 0, MaxTime <- 0, MaxSessions <- 0, Prompt <- TRUE

Ticks == INSTANCE TickClock WITH start <- armed

ASSUME InstancesAssumption ==
    /\ Pair!TradeAssumption /\ Three!TradeAssumption
    /\ Purse!TradeAssumption /\ Saved!TradeAssumption
    /\ Wheel!EventAssumption /\ Lag!EventAssumption
    /\ Forced!EventAssumption /\ Rings!EventAssumption

ASSUME GroupsAssumption ==
    /\ Seats!GroupBounds /\ Seats!NoneIsNoAvatar /\ Seats!OneLap
    /\ Invited!GroupBounds /\ Invited!OneLap

ASSUME TicksAssumption == Ticks!ClockAssumption

SectorInit ==
    /\ part \in Parts
    /\ CASE part = "seats" -> Seats!Init
         [] part = "invited" -> Invited!Init
         [] OTHER -> NoMembers!Init
    /\ CASE part = "pair" -> Pair!Init
         [] part = "three" -> Three!Init
         [] part = "purse" -> Purse!Init
         [] part = "saved" -> Saved!Init
         [] OTHER -> NoTraders!Init
    /\ CASE part = "wheel" -> Wheel!Init
         [] part = "lag" -> Lag!Init
         [] part = "forced" -> Forced!Init
         [] part = "rings" -> Rings!Init
         [] OTHER -> NoSectors!Init
    /\ Ticks!Init

InGroup(p, A) == part = p /\ A /\ UNCHANGED <<part, tradeVars, eventVars, clockVars>>
InTrade(p, A) == part = p /\ A /\ UNCHANGED <<part, groupVars, eventVars, clockVars>>
InWheel(p, A) == part = p /\ A /\ UNCHANGED <<part, groupVars, tradeVars, clockVars>>
InTicks(A) == part = "ticks" /\ A /\ UNCHANGED <<part, groupVars, tradeVars, eventVars>>

SectorNext ==
    \/ InGroup("seats", Seats!Next)
    \/ InGroup("invited", Invited!Next)
    \/ InTrade("pair", Pair!Next)
    \/ InTrade("three", Three!Next)
    \/ InTrade("purse", Purse!Next)
    \/ InTrade("saved", Saved!Next)
    \/ InWheel("wheel", Wheel!Next)
    \/ InWheel("lag", Lag!Next)
    \/ InWheel("forced", Forced!Next)
    \/ InWheel("rings", Rings!Next)
    \/ InTicks(Ticks!Next)

SectorSpec == SectorInit /\ [][SectorNext]_sectorVars

\* The players of the groups, who are those of part purse, are interchangeable, and so are
\* the timed calls: no definition tells one from another.
Interchangeable == Permutations(Members) \cup Permutations(Calls)

\* Bounds of the runs, not of the theorems: what comes after a group has lost its
\* leader is looked at in part invited, and what comes after a slip of the wheel in
\* parts lag, forced and rings.
Followed == (part = "seats" => led) /\ (part = "wheel" => slips = {})

-----------------------------------------------------------------------------
\* The seats of the groups and the group ids of the players agree.  As long as no live
\* group has been without a leader, who sits in a group is a player of the game with
\* its id; and as long as no seat has been empty before a taken one either, who has the
\* id of a live group sits in it (without drops, GroupManager.cpp:588, :775, :257).
\* Nobody is in a group its leader did not invite, whatever has been lost, also with
\* drops, within one lap of the pool.
GroupsAgree ==
    /\ part = "seats" => /\ Seats!TypeOK /\ Seats!SeatsAgree
                         /\ Seats!HasSeat /\ Seats!InvitedOnly
    /\ part = "invited" => Invited!TypeOK /\ Invited!InvitedOnly

\* Trades keep the goods: between two players nothing disappears, through every
\* offer, exchange, cancellation, logoff and relogin; nothing is in two places and no
\* credit is made or destroyed, also with a third player about; and every handler
\* saves all that it changed (HandleAction 20 to 24, MoveItem, CancelTrade).
GoodsKept ==
    CASE part = "pair" -> Pair!TypeOK /\ Pair!NothingLost /\ Pair!Ledger
      [] part = "three" -> Three!TypeOK /\ Three!Ledger
      [] part = "purse" -> Purse!TypeOK /\ Purse!Ledger
      [] part = "saved" -> Saved!TypeOK /\ Saved!AllSaved
      [] OTHER -> TRUE

\* Between two players with no third about, things change hands only on the very terms
\* that both confirmed.  With a third, who was confirmed with is not asked
\* (PlayerConnection.cpp:4216).
Consent == [][part = "pair" => Pair!OnTerms]_sectorVars



\* Up to the last window before the ticks wrap, a sector is parked only when the
\* window has really passed since it was last stamped (IdleSectorPoll).
ParksWhenIdle == [][part = "ticks" => Ticks!ParkedIdle]_sectorVars

\* The ticks tell the time: the idle poll has run within its period after every round
\* of the main loop, up to the last window before the wrap, and a timed mission
\* spoils exactly when its limit has passed, across the wrap (MissionTimedOut).
TicksTellTime == part = "ticks" => Ticks!TypeOK /\ Ticks!PollsOn /\ Ticks!SpoilsOnTime
=============================================================================
