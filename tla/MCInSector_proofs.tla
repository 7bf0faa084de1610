-------------------------- MODULE MCInSector_proofs --------------------------
(***************************************************************************)
(* The clock, the trades and the groups, next to the other parts.          *)
(***************************************************************************)
EXTENDS MCInSector, TLAPS

-----------------------------------------------------------------------------
(***************************************************************************)
(* The arithmetic of the ticks.                                            *)
(***************************************************************************)

LEMMA TickRange ==
    ASSUME NEW n \in Int
    PROVE  Ticks!U(n) \in 0..(Span - 1)
BY TicksAssumption DEF Ticks!U, Ticks!ClockAssumption

LEMMA TickSame ==
    ASSUME NEW n \in 0..(Span - 1)
    PROVE  Ticks!U(n) = n
BY TicksAssumption DEF Ticks!U, Ticks!ClockAssumption

\* The ticks of a time differ from it by whole laps.
LEMMA TickLaps ==
    ASSUME NEW n \in Int
    PROVE  Ticks!U(n) = n - Span * (n \div Span) /\ n \div Span \in Int
BY TicksAssumption, SMTT(30) DEF Ticks!U, Ticks!ClockAssumption

LEMMA TickNegative ==
    ASSUME NEW n \in Int, -Span <= n, n < 0
    PROVE  Ticks!U(n) = n + Span
BY TicksAssumption DEF Ticks!U, Ticks!ClockAssumption

\* The unsigned difference of two ticks less than a lap apart is the time between
\* them, wherever the wrap falls.
LEMMA TickDifference ==
    ASSUME NEW a \in Int, NEW b \in Int, 0 <= a - b, a - b < Span
    PROVE  Ticks!U(Ticks!U(a) - Ticks!U(b)) = a - b
<1> DEFINE ua == Ticks!U(a)
           ub == Ticks!U(b)
           k == (a \div Span) - (b \div Span)
<1>s. Span \in Nat \ {0}
  BY TicksAssumption DEF Ticks!ClockAssumption
<1>1. ua \in 0..(Span - 1) /\ ub \in 0..(Span - 1)
  BY TickRange
<1>2. k \in Int
  BY TickLaps
<1>3. a \div Span \in Int /\ b \div Span \in Int
  BY TickLaps
<1>4. ua - ub = (a - b) - Span * k
  <2>1. ua = a - Span * (a \div Span) /\ ub = b - Span * (b \div Span)
    BY TickLaps
  <2> QED
    BY <2>1, <1>3, <1>s
<1> HIDE DEF ua, ub, k
<1>5. k = 0 \/ k = 1
  <2>1. k < 0 => Span * k <= -Span
    BY <1>2, <1>s
  <2>2. k > 1 => Span * k >= 2 * Span
    BY <1>2, <1>s
  <2>3. -Span < Span * k /\ Span * k < 2 * Span
    BY <1>1, <1>2, <1>4, <1>s
  <2> QED
    BY <1>2, <1>s, <2>1, <2>2, <2>3
<1>6. CASE k = 0
  <2>1. ua - ub = a - b
    BY <1>4, <1>6, <1>s
  <2>2. a - b \in 0..(Span - 1)
    BY <1>s
  <2>3. Ticks!U(a - b) = a - b
    BY <2>2, TickSame
  <2> QED
    BY <2>1, <2>3 DEF ua, ub
<1>7. CASE k = 1
  <2>1. ua - ub = a - b - Span
    BY <1>4, <1>7, <1>s
  <2>2. a - b - Span \in Int /\ -Span <= a - b - Span /\ a - b - Span < 0
    BY <1>s
  <2>3. Ticks!U(a - b - Span) = a - b - Span + Span
    BY <2>2, TickNegative
  <2>4. a - b - Span + Span = a - b
    BY <1>s
  <2> QED
    BY <2>1, <2>3, <2>4 DEF ua, ub
<1> QED
  BY <1>5, <1>6, <1>7

-----------------------------------------------------------------------------
(***************************************************************************)
(* The clock.                                                              *)
(***************************************************************************)

TicksInv == part = "ticks" => Ticks!TypeOK /\ Ticks!PollsOn

\* A deadline that the ticks can still count to is passed when the time has passed
\* it: now > last + interval, for a stamp of the last lap.
LEMMA TickPassed ==
    ASSUME NEW t \in Nat, NEW s \in Nat, NEW w \in Nat, s + w < Span, t < Span
    PROVE  Ticks!U(t) > Ticks!U(Ticks!U(s) + w) <=> t - s > w
<1>s. Span \in Nat \ {0}
  BY TicksAssumption DEF Ticks!ClockAssumption
<1>1. Ticks!U(t) = t /\ Ticks!U(s) = s /\ Ticks!U(s + w) = s + w
  BY TickSame, <1>s
<1> QED
  BY <1>1

LEMMA TicksInit == SectorInit => TicksInv
<1> SUFFICES ASSUME SectorInit PROVE Ticks!TypeOK /\ Ticks!PollsOn
  BY DEF TicksInv
<1>1. Ticks!U(0) = 0
  BY TickSame, TicksAssumption DEF Ticks!ClockAssumption
<1>2. Ticks!Init
  BY DEF SectorInit
<1>3. Poll \in Nat /\ MaxTime \in Nat
  BY TicksAssumption DEF Ticks!ClockAssumption
<1>4. Ticks!TypeOK
  <2>1. /\ time = 0 /\ stamped = 0 /\ polled = 0 /\ last = 0 /\ lastPoll = 0
        /\ online = FALSE /\ occupied = FALSE /\ armed = 0 /\ accepted = -1
    BY <1>2 DEF Ticks!Init
  <2>2. online \in BOOLEAN /\ occupied \in BOOLEAN
    BY <2>1
  <2>3. 0 \in 0..MaxTime /\ 0 \in 0..0 /\ -1 \in -1..0
    BY <1>3
  <2>4. last = Ticks!U(stamped) /\ lastPoll = Ticks!U(polled)
    BY <1>1, <2>1
  <2> QED
    BY <2>1, <2>2, <2>3, <2>4 DEF Ticks!TypeOK
<1>5. Ticks!PollsOn
  BY <1>2, <1>3 DEF Ticks!Init, Ticks!PollsOn
<1> QED
  BY <1>4, <1>5

\* What a step of the sectors is for the clock.
LEMMA TicksMove ==
    ASSUME [SectorNext]_sectorVars
    PROVE  part' = part /\ (part = "ticks" => [Ticks!Next]_(Ticks!vars))
<1>1. part' = part
  BY DEF SectorNext, InGroup, InTrade, InWheel, InTicks, sectorVars
<1>2. part = "ticks" => Ticks!Next \/ UNCHANGED sectorVars
  BY DEF SectorNext, InGroup, InTrade, InWheel, InTicks
<1>3. UNCHANGED sectorVars => UNCHANGED Ticks!vars
  BY DEF sectorVars, clockVars, Ticks!vars, Ticks!sectorVars, Ticks!missionVars
<1> QED
  BY <1>1, <1>2, <1>3

\* A round of the main loop keeps the types; a poll that is not due has run within
\* its period.
LEMMA CheckStep ==
    ASSUME Ticks!TypeOK, Ticks!PollsOn, NEW d \in Steps, Ticks!ServerCheck(d)
    PROVE  Ticks!TypeOK' /\ Ticks!PollsOn'
<1> DEFINE t == time + d
<1>1. Poll \in Nat /\ Window \in Nat /\ MaxTime \in Nat /\ Span \in Nat /\ d \in Nat
  BY TicksAssumption DEF Ticks!ClockAssumption
<1>2. time \in Nat /\ polled \in Nat /\ polled <= time /\ stamped \in Nat /\ stamped <= time
  BY <1>1 DEF Ticks!TypeOK
<1>3. t \in Nat /\ time <= t /\ t <= MaxTime /\ time' = t
  BY <1>1, <1>2 DEF Ticks!ServerCheck
<1>4. \/ polled' = polled /\ lastPoll' = lastPoll
      \/ polled' = t /\ lastPoll' = Ticks!U(t)
  BY DEF Ticks!ServerCheck
<1>5. /\ \/ stamped' = stamped /\ last' = last
         \/ stamped' = t /\ last' = Ticks!U(t)
      /\ online' \in BOOLEAN /\ occupied' \in BOOLEAN
  BY DEF Ticks!ServerCheck, Ticks!IdleSectorPoll, Ticks!Stamp, Ticks!sectorVars, Ticks!TypeOK
<1>6. armed' = armed /\ accepted' = accepted
  BY DEF Ticks!ServerCheck, Ticks!missionVars
<1>7. lastPoll = Ticks!U(polled) /\ last = Ticks!U(stamped)
  BY DEF Ticks!TypeOK
<1>8. armed = (IF accepted = -1 THEN 0 ELSE Ticks!U(accepted)) /\ accepted \in -1..time
  BY DEF Ticks!TypeOK
<1>9. Ticks!TypeOK'
  <2>1. /\ time' \in 0..MaxTime /\ online' \in BOOLEAN /\ occupied' \in BOOLEAN
        /\ stamped' \in 0..time' /\ polled' \in 0..time'
    BY <1>2, <1>3, <1>4, <1>5
  <2>2. last' = Ticks!U(stamped') /\ lastPoll' = Ticks!U(polled')
    BY <1>4, <1>5, <1>7
  <2>3. armed' = (IF accepted' = -1 THEN 0 ELSE Ticks!U(accepted')) /\ accepted' \in -1..time'
    BY <1>2, <1>3, <1>6, <1>8
  <2> QED
    BY <2>1, <2>2, <2>3 DEF Ticks!TypeOK, Ticks!U
<1>10. Ticks!PollsOn'
  <2> SUFFICES ASSUME t + Poll < Span PROVE t - polled' <= Poll
    BY <1>3 DEF Ticks!PollsOn, Ticks!BeforeWrap
  <2>1. CASE polled' = t
    BY <2>1, <1>1, <1>3
  <2>2. CASE polled' # t
    <3>1. ~Ticks!Due(Ticks!U(t)) /\ polled' = polled
      BY <2>2, <1>4 DEF Ticks!ServerCheck
    <3>2. t < Span /\ polled + Poll < Span
      BY <1>1, <1>2, <1>3
    <3>3. ~(t - polled > Poll)
      BY <3>1, <3>2, <1>1, <1>2, <1>3, <1>7, TickPassed DEF Ticks!Due
    <3> QED
      BY <3>1, <3>3, <1>1, <1>2, <1>3
  <2> QED
    BY <2>1, <2>2
<1> QED
  BY <1>9, <1>10

\* The other steps take no time.
LEMMA OtherStep ==
    ASSUME Ticks!TypeOK, Ticks!PollsOn, 
           \/ Ticks!Enter \/ Ticks!Leave \/ Ticks!Accept
           \/ Ticks!ExpireStaleTimedMissions \/ UNCHANGED Ticks!vars
    PROVE  Ticks!TypeOK' /\ Ticks!PollsOn'
<1> USE DEF Ticks!sectorVars, Ticks!missionVars
<1>1. MaxTime \in Nat /\ time \in Nat /\ polled \in 0..time /\ stamped \in 0..time
  BY TicksAssumption DEF Ticks!ClockAssumption, Ticks!TypeOK
<1>2. time' = time /\ polled' = polled /\ lastPoll' = lastPoll
  BY DEF Ticks!Enter, Ticks!Leave, Ticks!Accept, Ticks!ExpireStaleTimedMissions, Ticks!vars
<1>3. /\ \/ stamped' = stamped /\ last' = last
         \/ stamped' = time /\ last' = Ticks!U(time)
      /\ online' \in BOOLEAN /\ occupied' \in BOOLEAN
  BY DEF Ticks!Enter, Ticks!Leave, Ticks!Accept, Ticks!ExpireStaleTimedMissions, Ticks!vars,
         Ticks!Stamp, Ticks!TypeOK
<1>4. \/ accepted' = accepted /\ armed' = armed
      \/ accepted' = time /\ armed' = Ticks!U(time)
      \/ accepted' = -1 /\ armed' = 0
  BY DEF Ticks!Enter, Ticks!Leave, Ticks!Accept, Ticks!ExpireStaleTimedMissions, Ticks!vars,
         Ticks!GetNet7TickCount
<1>5. /\ last = Ticks!U(stamped) /\ lastPoll = Ticks!U(polled) /\ time \in 0..MaxTime
      /\ armed = (IF accepted = -1 THEN 0 ELSE Ticks!U(accepted)) /\ accepted \in -1..time
  BY DEF Ticks!TypeOK
<1>6. last' = Ticks!U(stamped') /\ lastPoll' = Ticks!U(polled')
  BY <1>2, <1>3, <1>5
<1>7. armed' = (IF accepted' = -1 THEN 0 ELSE Ticks!U(accepted')) /\ accepted' \in -1..time'
  BY <1>1, <1>2, <1>4, <1>5
<1>8. stamped' \in 0..time' /\ polled' \in 0..time' /\ time' \in 0..MaxTime
  BY <1>1, <1>2, <1>3, <1>5
<1>9. Ticks!TypeOK'
  BY <1>3, <1>6, <1>7, <1>8 DEF Ticks!TypeOK, Ticks!U
<1>10. Ticks!PollsOn'
  BY <1>2 DEF Ticks!PollsOn, Ticks!BeforeWrap
<1> QED
  BY <1>9, <1>10

LEMMA TicksStep == TicksInv /\ [SectorNext]_sectorVars => TicksInv'
<1> SUFFICES ASSUME TicksInv, [SectorNext]_sectorVars, part = "ticks"
             PROVE  Ticks!TypeOK' /\ Ticks!PollsOn'
  BY TicksMove DEF TicksInv
<1>1. Ticks!TypeOK /\ Ticks!PollsOn
  BY DEF TicksInv
<1>2. [Ticks!Next]_(Ticks!vars)
  BY TicksMove
<1>3. CASE \E d \in Steps : Ticks!ServerCheck(d)
  BY <1>1, <1>3, CheckStep
<1>4. CASE ~\E d \in Steps : Ticks!ServerCheck(d)
  BY <1>1, <1>2, <1>4, OtherStep DEF Ticks!Next
<1> QED
  BY <1>3, <1>4

\* A mission clock that is armed tells the time since the mission began, as long as
\* that is less than a lap.
LEMMA Spoils == Ticks!TypeOK => Ticks!SpoilsOnTime
<1> SUFFICES ASSUME Ticks!TypeOK, accepted # -1, armed # 0, time - accepted < Span
             PROVE  Ticks!MissionTimedOut(Ticks!GetNet7TickCount)
                      <=> time - accepted >= Limit
  BY DEF Ticks!SpoilsOnTime
<1>1. time \in Int /\ accepted \in Int /\ 0 <= time - accepted
  BY TicksAssumption DEF Ticks!TypeOK, Ticks!ClockAssumption
<1>2. armed = Ticks!U(accepted)
  BY DEF Ticks!TypeOK
<1>3. Ticks!U(Ticks!U(time) - armed) = time - accepted
  BY <1>1, <1>2, TickDifference
<1> QED
  BY <1>3 DEF Ticks!MissionTimedOut, Ticks!GetNet7TickCount

\* For every width of the tick count, every idle window, poll period, time limit and
\* speed of the main loop: the ticks keep telling the real times they stand for, the
\* idle poll has run within its period until the last window before the wrap, and a
\* timed mission spoils exactly when its limit has passed, across the wrap
\* (ServerCheck, MissionTimedOut).
THEOREM TicksAreTime == SectorSpec => []TicksTellTime
<1>1. TicksInv => TicksTellTime
  BY Spoils DEF TicksInv, TicksTellTime
<1> QED
  BY <1>1, TicksInit, TicksStep, PTL DEF SectorSpec

\* Only the idle poll takes a sector off line, and it does so only past the window.
LEMMA ParkStep ==
    ASSUME TicksInv, [SectorNext]_sectorVars, part = "ticks"
    PROVE  Ticks!ParkedIdle
<1> SUFFICES ASSUME Ticks!BeforeWrap, online, ~online'
             PROVE  time' - stamped > Window
  BY DEF Ticks!ParkedIdle
<1> USE DEF Ticks!sectorVars
<1>1. Ticks!TypeOK /\ [Ticks!Next]_(Ticks!vars)
  BY TicksMove DEF TicksInv
<1>2. PICK d \in Steps : Ticks!ServerCheck(d)
  BY <1>1 DEF Ticks!Next, Ticks!Enter, Ticks!Leave, Ticks!Accept,
              Ticks!ExpireStaleTimedMissions, Ticks!vars
<1> DEFINE t == time + d
<1>3. time' = t /\ Ticks!Idle(Ticks!U(t))
  BY <1>2 DEF Ticks!ServerCheck, Ticks!IdleSectorPoll
<1>4. Window \in Nat /\ Span \in Nat /\ d \in Nat /\ MaxTime \in Nat
  BY TicksAssumption DEF Ticks!ClockAssumption
<1>5. /\ time \in Nat /\ stamped \in Nat /\ stamped <= time /\ last = Ticks!U(stamped)
      /\ time + Window < Span
  BY <1>1, <1>4 DEF Ticks!TypeOK, Ticks!BeforeWrap
<1>6. CASE t >= Span
  BY <1>3, <1>4, <1>5, <1>6
<1>7. CASE t < Span
  <2>1. t \in Nat /\ stamped + Window < Span
    BY <1>4, <1>5
  <2>2. t - stamped > Window
    BY <2>1, <1>3, <1>4, <1>5, <1>7, TickPassed DEF Ticks!Idle
  <2> QED
    BY <2>2, <1>3
<1> QED
  BY <1>4, <1>5, <1>6, <1>7

\* For every width of the tick count, window, period and speed of the main loop: up
\* to the last window before the wrap no sector is parked that was stamped within the
\* window (IdleSectorPoll).
THEOREM NoEarlyPark == SectorSpec => ParksWhenIdle
<1>1. TicksInv /\ [SectorNext]_sectorVars => [part = "ticks" => Ticks!ParkedIdle]_sectorVars
  BY ParkStep
<1> QED
  BY <1>1, TicksInit, TicksStep, PTL DEF SectorSpec, ParksWhenIdle

-----------------------------------------------------------------------------
(***************************************************************************)
(* Trades: every one is an instance of what Trade_proofs proves.           *)
(***************************************************************************)

\* What the four instances need.
LEMMA TradesGiven ==
    /\ Pair!Given /\ ~Pair!Keep /\ Pair!Couple
    /\ Three!Given /\ ~Three!Keep
    /\ Purse!Given /\ ~Purse!Keep
    /\ Saved!Given /\ Saved!Keep
<1>1. Pair!Given /\ ~Pair!Keep /\ Pair!Couple
  <2>1. \E a, b, c : {anna, bert} = {a, b, c}
    <3>1. {anna, bert} = {anna, bert, bert}
      OBVIOUS
    <3> QED
      BY <3>1
  <2> QED
    <3>1. Pair!Couple
      BY DEF Pair!Couple
    <3> QED
      BY <2>1, <3>1, InstancesAssumption DEF Pair!Given, Pair!Keep
<1>2. Three!Given /\ ~Three!Keep
  BY InstancesAssumption DEF Three!Given, Three!Keep
<1>3. Purse!Given /\ ~Purse!Keep
  BY InstancesAssumption DEF Purse!Given, Purse!Keep
<1>4. Saved!Given /\ Saved!Keep
  <2>1. \E a, b, c : {anna, bert} = {a, b, c}
    <3>1. {anna, bert} = {anna, bert, bert}
      OBVIOUS
    <3> QED
      BY <3>1
  <2> QED
    BY <2>1, InstancesAssumption DEF Saved!Given, Saved!Keep
<1> QED
  BY <1>1, <1>2, <1>3, <1>4

\* What is kept of each trade.
GoodsPartInv ==
    /\ part = "pair" => Pair!TradeInv /\ Pair!AgreeInv /\ Pair!Whole
    /\ part = "three" => Three!TradeInv
    /\ part = "purse" => Purse!TradeInv
    /\ part = "saved" => Saved!TradeInv

LEMMA GoodsStart == SectorInit => GoodsPartInv
<1> SUFFICES ASSUME SectorInit PROVE GoodsPartInv
  OBVIOUS
<1>1. ASSUME part = "pair" PROVE Pair!TradeInv /\ Pair!AgreeInv /\ Pair!Whole
  <2>1. Pair!Init
    BY <1>1 DEF SectorInit
  <2>2. Pair!TradeInv
    BY <2>1, TradesGiven, Pair!TradeBegins
  <2>3. Pair!Whole
    BY <2>1, TradesGiven, Pair!WholeBegins
  <2>4. Pair!AgreeInv
    BY <2>1, Pair!AgreedBegins
  <2> QED
    BY <2>2, <2>3, <2>4
<1>2. ASSUME part = "three" PROVE Three!TradeInv
  <2>1. Three!Init
    BY <1>2 DEF SectorInit
  <2> QED
    BY <2>1, TradesGiven, Three!TradeBegins
<1>3. ASSUME part = "purse" PROVE Purse!TradeInv
  <2>1. Purse!Init
    BY <1>3 DEF SectorInit
  <2> QED
    BY <2>1, TradesGiven, Purse!TradeBegins
<1>4. ASSUME part = "saved" PROVE Saved!TradeInv
  <2>1. Saved!Init
    BY <1>4 DEF SectorInit
  <2> QED
    BY <2>1, TradesGiven, Saved!TradeBegins
<1> QED
  BY <1>1, <1>2, <1>3, <1>4 DEF GoodsPartInv

\* What a step of the sectors is for each trade.
LEMMA GoodsMove ==
    ASSUME [SectorNext]_sectorVars
    PROVE  /\ part' = part
           /\ part = "pair" => [Pair!Next]_(Pair!vars)
           /\ part = "three" => [Three!Next]_(Three!vars)
           /\ part = "purse" => [Purse!Next]_(Purse!vars)
           /\ part = "saved" => [Saved!Next]_(Saved!vars)
<1>1. /\ part = "pair" => Pair!Next \/ UNCHANGED sectorVars
      /\ part = "three" => Three!Next \/ UNCHANGED sectorVars
      /\ part = "purse" => Purse!Next \/ UNCHANGED sectorVars
      /\ part = "saved" => Saved!Next \/ UNCHANGED sectorVars
  BY DEF SectorNext, InGroup, InTrade, InWheel, InTicks
<1>2. UNCHANGED sectorVars => /\ UNCHANGED Pair!vars /\ UNCHANGED Three!vars
                              /\ UNCHANGED Purse!vars /\ UNCHANGED Saved!vars
  BY DEF sectorVars, tradeVars, Pair!vars, Three!vars, Purse!vars, Saved!vars
<1>3. part' = part
  BY DEF SectorNext, InGroup, InTrade, InWheel, InTicks, sectorVars
<1> QED
  BY <1>1, <1>2, <1>3

LEMMA GoodsStep == GoodsPartInv /\ [SectorNext]_sectorVars => GoodsPartInv'
<1> SUFFICES ASSUME GoodsPartInv, [SectorNext]_sectorVars PROVE GoodsPartInv'
  OBVIOUS
<1>1. part' = part
  BY GoodsMove
<1>2. ASSUME part = "pair" PROVE Pair!TradeInv' /\ Pair!AgreeInv' /\ Pair!Whole'
  <2>1. [Pair!Next]_(Pair!vars) /\ Pair!TradeInv /\ Pair!AgreeInv /\ Pair!Whole
    BY <1>2, GoodsMove DEF GoodsPartInv
  <2>2. Pair!TradeInv'
    BY <2>1, TradesGiven, Pair!TradeGoesOn
  <2>3. Pair!RoomToCome
    BY <2>1, TradesGiven, Pair!AgreedRoom
  <2>4. Pair!Whole'
    BY <2>1, <2>3, TradesGiven, Pair!WholeGoesOn
  <2>5. Pair!AgreeInv'
    BY <2>1, TradesGiven, Pair!AgreedGoesOn
  <2> QED
    BY <2>2, <2>4, <2>5
<1>3. ASSUME part = "three" PROVE Three!TradeInv'
  BY <1>3, GoodsMove, TradesGiven, Three!TradeGoesOn DEF GoodsPartInv
<1>4. ASSUME part = "purse" PROVE Purse!TradeInv'
  BY <1>4, GoodsMove, TradesGiven, Purse!TradeGoesOn DEF GoodsPartInv
<1>5. ASSUME part = "saved" PROVE Saved!TradeInv'
  BY <1>5, GoodsMove, TradesGiven, Saved!TradeGoesOn DEF GoodsPartInv
<1> QED
  BY <1>1, <1>2, <1>3, <1>4, <1>5 DEF GoodsPartInv

\* For any goods, holds, windows, credits and logins of a pair, and for three players:
\* nothing that was in a hold or a window disappears (the pair), nothing is in two
\* places and no credit is made or destroyed; and a pair that saves has saved all of
\* it when the queue is empty, across a crash (HandleAction 20 to 24, MoveItem,
\* CancelTrade, AddSaveToQueue).
THEOREM GoodsAreKept == SectorSpec => []GoodsKept
<1>1. GoodsPartInv => GoodsKept
  <2>1. ASSUME GoodsPartInv, part = "pair" PROVE GoodsKept
    <3>1. Pair!TypeOK /\ Pair!Ledger /\ Pair!NothingLost
      BY <2>1, TradesGiven, Pair!TradeMeans DEF GoodsPartInv, Pair!Whole
    <3> QED
      BY <2>1, <3>1 DEF GoodsKept
  <2>2. ASSUME GoodsPartInv, part = "three" PROVE GoodsKept
    <3>1. Three!TypeOK /\ Three!Ledger
      BY <2>2, TradesGiven, Three!TradeMeans DEF GoodsPartInv
    <3> QED
      BY <2>2, <3>1 DEF GoodsKept
  <2>3. ASSUME GoodsPartInv, part = "purse" PROVE GoodsKept
    <3>1. Purse!TypeOK /\ Purse!Ledger
      BY <2>3, TradesGiven, Purse!TradeMeans DEF GoodsPartInv
    <3> QED
      BY <2>3, <3>1 DEF GoodsKept
  <2>4. ASSUME GoodsPartInv, part = "saved" PROVE GoodsKept
    <3>1. Saved!TypeOK /\ Saved!AllSaved
      BY <2>4, TradesGiven, Saved!TradeMeans DEF GoodsPartInv
    <3> QED
      BY <2>4, <3>1 DEF GoodsKept
  <2>5. CASE part \notin {"pair", "three", "purse", "saved"}
    BY <2>5 DEF GoodsKept
  <2> QED
    BY <2>1, <2>2, <2>3, <2>4, <2>5
<1> QED
  BY <1>1, GoodsStart, GoodsStep, PTL DEF SectorSpec

\* For any two players, goods, holds, windows and number of logins: nothing is
\* exchanged on other terms than those both players have confirmed (HandleAction,
\* cases 20 to 24).
THEOREM TradesHaveConsent == SectorSpec => Consent
<1>1. GoodsPartInv /\ [SectorNext]_sectorVars => [part = "pair" => Pair!OnTerms]_sectorVars
  BY TradesGiven, Pair!AgreedTerms DEF GoodsPartInv
<1> QED
  BY <1>1, GoodsStart, GoodsStep, PTL DEF SectorSpec, Consent

-----------------------------------------------------------------------------
(***************************************************************************)
(* The groups: the facts about one step of them are Group_proofs's.        *)
(***************************************************************************)
GroupsInv ==
    /\ part = "seats" => Seats!FullInv
    /\ part = "invited" => Invited!GuestInv

LEMMA GroupsGiven == Seats!Given /\ Seats!Settled /\ Invited!Given
BY GroupsAssumption
   DEF Seats!Given, Seats!Settled, Invited!Given, Seats!NoneIsNoAvatar, Invited!NoneIsNoAvatar

LEMMA GroupsInit == SectorInit => GroupsInv
<1> SUFFICES ASSUME SectorInit PROVE GroupsInv
  OBVIOUS
<1>1. part = "seats" => Seats!Init
  BY DEF SectorInit
<1>2. part = "invited" => Invited!Init
  BY DEF SectorInit
<1> QED
  BY <1>1, <1>2, GroupsGiven, Seats!HouseInit, Invited!GuestInit DEF GroupsInv

LEMMA GroupsStep == GroupsInv /\ [SectorNext]_sectorVars => GroupsInv'
<1> SUFFICES ASSUME GroupsInv, [SectorNext]_sectorVars PROVE GroupsInv'
  OBVIOUS
<1>1. part' = part
  BY DEF SectorNext, InGroup, InTrade, InWheel, InTicks, sectorVars
<1>2. ASSUME UNCHANGED groupVars PROVE UNCHANGED Seats!vars /\ UNCHANGED Invited!vars
  BY <1>2 DEF groupVars, Seats!vars, Invited!vars, Seats!directory, Invited!directory
<1>3. part = "seats" => [Seats!Next]_(Seats!vars)
  BY <1>2 DEF SectorNext, InGroup, InTrade, InWheel, InTicks, sectorVars
<1>4. part = "invited" => [Invited!Next]_(Invited!vars)
  BY <1>2 DEF SectorNext, InGroup, InTrade, InWheel, InTicks, sectorVars
<1>5. part = "seats" => Seats!FullInv'
  BY <1>3, GroupsGiven, Seats!HouseStep DEF GroupsInv
<1>6. part = "invited" => Invited!GuestInv'
  BY <1>4, GroupsGiven, Invited!GuestStep DEF GroupsInv
<1> QED
  BY <1>1, <1>5, <1>6 DEF GroupsInv

\* For any members, pool, seats and number of groups, within one lap of the pool: the
\* seats and the group ids agree as far as GroupsAgree says, from seat to id until a
\* group has lost its leader and from id to seat until one has a gap, when nobody is
\* dropped; and nobody is in a group without an invitation, also when players are
\* dropped (GroupManager.cpp).
THEOREM GroupsHold == SectorSpec => []GroupsAgree
<1>1. Seats!FullInv => Seats!TypeOK /\ Seats!SeatsAgree /\ Seats!HasSeat /\ Seats!InvitedOnly
  BY GroupsGiven, Seats!HouseMeans, Seats!GuestMeans DEF Seats!FullInv
<1>2. GroupsInv => GroupsAgree
  BY <1>1, Invited!GuestMeans DEF GroupsInv, GroupsAgree
<1> QED
  BY <1>2, GroupsInit, GroupsStep, PTL DEF SectorSpec

=============================================================================
