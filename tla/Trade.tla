------------------------------- MODULE Trade --------------------------------
(***************************************************************************)
(* Trading between players: the trade window, the offers of items and      *)
(* money, the two confirmations and the exchange, and the saves that each  *)
(* of these handlers queues.  (server/src/PlayerConnection.cpp,            *)
(* PlayerInventory.cpp, PlayerSaves.cpp)                                   *)
(*                                                                         *)
(* An item is a thing of its own that takes one slot: stacks, qualities    *)
(* and prices are left out, and so is the test for unique items, which     *)
(* only refuses.  A handler is one step; what it saves reaches the         *)
(* database later, in order, and a crash loses what has not.               *)
(***************************************************************************)
EXTENDS Integers, Sequences, FiniteSets, FiniteSetsExt

CONSTANTS
    Players,
    Items,
    StartCargo,   \* [Players -> SUBSET Items]: what they have at first
    StartCredits, \* the credits of each player at first
    CargoSpace,   \* GetCargoSpace: slots of a hold
    Slots,        \* slots of a trade window (6)
    None,
    Slash,        \* players also open trades with the /trade command
    Loot,         \* players pick things up while they trade
    MaxLogins,    \* bound on logins of a behaviour
    MaxCrashes,   \* bound on crashes of the server
    MaxSaves      \* bound on saves that wait to be written

TradeAssumption ==
    /\ None \notin Players /\ IsFiniteSet(Items)
    /\ StartCargo \in [Players -> SUBSET Items]
    /\ \A p \in Players : Cardinality(StartCargo[p]) <= CargoSpace
    /\ \A p, q \in Players : p # q => StartCargo[p] \cap StartCargo[q] = {}
    /\ {StartCredits, CargoSpace, Slots, MaxLogins, MaxCrashes, MaxSaves} \subseteq Nat

VARIABLES
    mem,      \* the avatars in memory: cargo, offer (TradeInv) and credits
    db,       \* the same in the database
    saves,    \* the states of the avatars that the queued saves lead to
    money,    \* GetTradeMoney: offered, not saved
    session,  \* the login a player is in, 0 for none
    logins,   \* logins so far
    trade,    \* m_TradeID: the player and the login it stands for, or None
    confirm,  \* m_TradeConfirm: None for 0, and for 1 the terms that were confirmed
    loose,    \* things nobody has picked up
    crashes

vars == <<mem, db, saves, money, session, logins, trade, confirm, loose,
          crashes>>
windowVars == <<money, session, logins, trade, confirm, crashes>>

Init ==
    /\ mem = [cargo   |-> StartCargo,
              offer   |-> [p \in Players |-> {}],
              credits |-> [p \in Players |-> StartCredits]]
    /\ db = mem /\ saves = <<>>
    /\ money = [p \in Players |-> 0]
    /\ session = [p \in Players |-> 0] /\ logins = 0
    /\ trade = [p \in Players |-> None]
    /\ confirm = [p \in Players |-> None]
    /\ loose = Items \ UNION {StartCargo[p] : p \in Players}
    /\ crashes = 0

Online(p) == session[p] # 0

\* GetPlayer(m_TradeID): the player traded with, if that login is still on.
Partner(p, q) == trade[p] # None /\ trade[p] = <<q, session[q]>>

\* What q and p would each give: what a confirmation agrees to.
Terms(p, q) ==
    [with |-> q, gives |-> mem.offer[p], pays |-> money[p],
     gets |-> mem.offer[q], paid |-> money[q]]

\* A confirmation that has had its exchange, and is still set.
Fulfilled == [with |-> None, gives |-> {}, pays |-> 0, gets |-> {}, paid |-> 0]

\* The saves of a handler, each with the state it leads to.  The queue is only
\* kept where the server may crash.
Queue(states) ==
    /\ mem' = states[Len(states)]
    /\ Len(saves) + Len(states) <= MaxSaves \/ MaxCrashes = 0
    /\ saves' = IF MaxCrashes = 0 THEN saves ELSE saves \o states

---------------------------------------------------------------------------
(***************************************************************************)
(* Holds.                                                                  *)
(***************************************************************************)

\* CargoFreeSpace.
CargoFreeSpace(m, p) == CargoSpace - Cardinality(m.cargo[p])

\* CargoAddItem for the things of a trade window: what does not fit is not added.
\* (Which slots come first is left open.)
CargoAddItems(m, p, things) ==
    {[m EXCEPT !.cargo[p] = @ \cup kept] :
        kept \in {k \in SUBSET things :
                    Cardinality(k) = Min({Cardinality(things), CargoFreeSpace(m, p)})}}

\* Mutant: the other player's window keeps its things.
ClearOwnWindow(m, p, q) == [m EXCEPT !.offer[p] = {}]

\* ClearTradeWindowForBoth.
ClearTradeWindowForBoth(m, p, q) == [m EXCEPT !.offer[p] = {}, !.offer[q] = {}]

---------------------------------------------------------------------------
(***************************************************************************)
(* The trade window.                                                       *)
(***************************************************************************)

\* Both windows are set to each other and nobody has confirmed.
OpenWindows(p, q) ==
    /\ trade' = [trade EXCEPT ![p] = <<q, session[q]>>, ![q] = <<p, session[p]>>]
    /\ confirm' = [confirm EXCEPT ![p] = None, ![q] = None]

\* HandleAction, case 20.  A player who is already trading gets a message sent
\* about it, and the window is opened all the same.
Open(p, q) ==
    /\ Online(p) /\ Online(q) /\ p # q
    /\ OpenWindows(p, q)
    /\ UNCHANGED <<mem, db, saves, money, session, logins, loose, crashes>>

\* The /trade command refuses a player who is trading, and empties both windows.
OpenSlash(p, q) ==
    /\ Slash
    /\ Online(p) /\ Online(q) /\ p # q
    /\ trade[q] = None
    /\ Queue(<<ClearTradeWindowForBoth(mem, p, q)>>)
    /\ OpenWindows(p, q)
    /\ UNCHANGED <<db, money, session, logins, loose, crashes>>

\* Mutant: only the mover's confirmation is taken back.
UnconfirmOwn(p, q) == confirm' = [confirm EXCEPT ![p] = None]

\* A change of an offer takes back both confirmations.
Unconfirm(p, q) == confirm' = [confirm EXCEPT ![p] = None, ![q] = None]

\* MoveItem, cargo to trade: thing i goes into the window, into an empty slot or
\* in exchange for thing j.  The hold is saved, then the window.
Offer(p, q, i, back) ==
    /\ Online(p) /\ Partner(p, q)
    /\ i \in mem.cargo[p] /\ back \subseteq mem.offer[p]
    /\ back = {} => Cardinality(mem.offer[p]) < Slots
    /\ LET m == [mem EXCEPT !.cargo[p] = (@ \ {i}) \cup back] IN
         Queue(<<m, [m EXCEPT !.offer[p] = (@ \ back) \cup {i}]>>)
    /\ Unconfirm(p, q)
    /\ UNCHANGED <<db, money, session, logins, trade, loose, crashes>>

\* Mutant: the window is not saved.
WithdrawHoldSaved(p, q, i, back) ==
    /\ Online(p) /\ Partner(p, q)
    /\ i \in mem.offer[p] /\ back \subseteq mem.cargo[p]
    /\ back = {} => CargoFreeSpace(mem, p) > 0
    /\ LET m == [mem EXCEPT !.cargo[p] = (@ \ back) \cup {i}] IN
         /\ Len(saves) < MaxSaves
         /\ saves' = Append(saves, m)
         /\ mem' = [m EXCEPT !.offer[p] = (@ \ {i}) \cup back]
    /\ Unconfirm(p, q)
    /\ UNCHANGED <<db, money, session, logins, trade, loose, crashes>>

\* MoveItem, trade to cargo, the other way round.
Withdraw(p, q, i, back) ==
    /\ Online(p) /\ Partner(p, q)
    /\ i \in mem.offer[p] /\ back \subseteq mem.cargo[p]
    /\ back = {} => CargoFreeSpace(mem, p) > 0
    /\ LET m == [mem EXCEPT !.cargo[p] = (@ \ back) \cup {i}] IN
         Queue(<<m, [m EXCEPT !.offer[p] = (@ \ {i}) \cup back]>>)
    /\ Unconfirm(p, q)
    /\ UNCHANGED <<db, money, session, logins, trade, loose, crashes>>

\* HandleAction, case 24.  The client offers no more than the player has.
OfferMoney(p, q, n) ==
    /\ Online(p) /\ Partner(p, q)
    /\ n \in 0..mem.credits[p]
    /\ money' = [money EXCEPT ![p] = n]
    /\ Unconfirm(p, q)
    /\ UNCHANGED <<mem, db, saves, session, logins, trade, loose, crashes>>

\* Mutant: the room is not checked.
MayConfirmNoRoom(p, q) == Online(p) /\ Partner(p, q)

\* HandleAction, case 21, up to the test of the other confirmation: the confirming
\* player must have room for what comes.
MayConfirm(p, q) ==
    /\ Online(p) /\ Partner(p, q)
    /\ Cardinality(mem.offer[q]) <= CargoFreeSpace(mem, p)

Confirm(p, q) ==
    /\ MayConfirm(p, q) /\ confirm[q] = None
    /\ confirm' = [confirm EXCEPT ![p] = Terms(p, q)]
    /\ UNCHANGED <<mem, db, saves, money, session, logins, trade, loose, crashes>>

\* SetCredits of the exchange.
Paid(m, p, q) == [m EXCEPT !.credits[p] = @ + money[q] - money[p]]

\* ... and the exchange when the other has confirmed.  The money moves, both get
\* the other's things, both windows are emptied; the confirmations stay set.
Exchange(p, q) ==
    /\ MayConfirm(p, q) /\ confirm[q] # None
    /\ LET m1 == Paid(mem, p, q)
           m2 == Paid(m1, q, p) IN
       \E m3 \in CargoAddItems(m2, p, mem.offer[q]) :
       \E m4 \in CargoAddItems(m3, q, mem.offer[p]) :
         Queue(<<m1, m2, m3, m4, ClearTradeWindowForBoth(m4, p, q)>>)
    /\ trade' = [trade EXCEPT ![p] = None, ![q] = None]
    /\ confirm' = [confirm EXCEPT ![p] = Fulfilled, ![q] = Fulfilled]
    /\ money' = [money EXCEPT ![p] = 0, ![q] = 0]
    /\ UNCHANGED <<db, session, logins, loose, crashes>>

\* CancelTrade: by either player, and by one who docks or leaves a station.
CancelTrade(p, q) ==
    /\ Online(p) /\ Partner(p, q)
    /\ \E m1 \in CargoAddItems(mem, p, mem.offer[p]) :
       \E m2 \in CargoAddItems(m1, q, mem.offer[q]) :
         Queue(<<m1, m2, ClearTradeWindowForBoth(m2, p, q)>>)
    /\ trade' = [trade EXCEPT ![p] = None, ![q] = None]
    /\ confirm' = [confirm EXCEPT ![p] = None, ![q] = None]
    /\ money' = [money EXCEPT ![p] = 0, ![q] = 0]
    /\ UNCHANGED <<db, session, logins, loose, crashes>>

---------------------------------------------------------------------------
(***************************************************************************)
(* Around the trade.                                                       *)
(***************************************************************************)

\* The avatar is loaded, the things in its trade window included.
Login(p) ==
    /\ ~Online(p) /\ logins < MaxLogins
    /\ logins' = logins + 1
    /\ session' = [session EXCEPT ![p] = logins + 1]
    /\ UNCHANGED <<mem, db, saves, money, trade, confirm, loose, crashes>>

\* A logoff does not cancel the trade; the player who stays keeps the window.  (The
\* player's own fields are reset by ResetPlayer before anyone can see them again.)
Logoff(p) ==
    /\ Online(p)
    /\ session' = [session EXCEPT ![p] = 0]
    /\ trade' = [trade EXCEPT ![p] = None]
    /\ confirm' = [confirm EXCEPT ![p] = None]
    /\ money' = [money EXCEPT ![p] = 0]
    /\ UNCHANGED <<mem, db, saves, logins, loose, crashes>>

\* Something is put into the hold: looting, mining, buying.
PickUp(p, i) ==
    /\ Loot
    /\ Online(p) /\ i \in loose /\ CargoFreeSpace(mem, p) > 0
    /\ loose' = loose \ {i}
    /\ Queue(<<[mem EXCEPT !.cargo[p] = @ \cup {i}]>>)
    /\ UNCHANGED <<db, windowVars>>

\* The save thread writes the next queued save.
WriteSave ==
    /\ saves # <<>>
    /\ db' = Head(saves) /\ saves' = Tail(saves)
    /\ UNCHANGED <<mem, windowVars, loose>>

\* The server dies; what is left is what was written.
Crash ==
    /\ crashes < MaxCrashes
    /\ crashes' = crashes + 1
    /\ mem' = db /\ saves' = <<>>
    /\ session' = [p \in Players |-> 0]
    /\ trade' = [p \in Players |-> None]
    /\ confirm' = [p \in Players |-> None]
    /\ money' = [p \in Players |-> 0]
    /\ UNCHANGED <<db, logins, loose>>

Next ==
    \/ \E p, q \in Players :
         \/ Open(p, q) \/ OpenSlash(p, q)
         \/ \E i \in Items :
              \/ \E back \in {{}} \cup {{j} : j \in mem.offer[p]} : Offer(p, q, i, back)
              \/ \E back \in {{}} \cup {{j} : j \in mem.cargo[p]} : Withdraw(p, q, i, back)
         \/ \E n \in 0..mem.credits[p] : OfferMoney(p, q, n)
         \/ Confirm(p, q) \/ Exchange(p, q) \/ CancelTrade(p, q)
    \/ \E p \in Players :
         \/ Login(p) \/ Logoff(p)
         \/ \E i \in Items : PickUp(p, i)
    \/ WriteSave \/ Crash

Spec == Init /\ [][Next]_vars

---------------------------------------------------------------------------
(***************************************************************************)
(* Properties.                                                             *)
(***************************************************************************)

Avatars ==
    [cargo : [Players -> SUBSET Items], offer : [Players -> SUBSET Items],
     credits : [Players -> 0..(StartCredits * Cardinality(Players))]]

\* The type of the variables; no hold and no window has more than its slots.
TypeOK ==
    /\ mem \in Avatars /\ db \in Avatars
    /\ \A p \in Players :
         /\ Cardinality(mem.cargo[p]) <= CargoSpace
         /\ Cardinality(mem.offer[p]) <= Slots
    /\ session \in [Players -> 0..MaxLogins]
    /\ loose \subseteq Items
    /\ \A p \in Players : trade[p] # None => trade[p] \in Players \X (1..MaxLogins)

Held(m) == UNION {m.cargo[p] \cup m.offer[p] : p \in Players}

\* Nothing disappears: a thing that was in somebody's hold or window is in one,
\* through every offer, exchange, cancellation, logoff and relogin.  (case 21 checks
\* "that we have the space to store the other players items"; CancelTrade is to
\* "return player's items"; case 20 does not empty the windows "for crash recovery".)
NothingLost == Items = Held(mem) \cup loose

\* Nothing is in two places, and no credit is made or destroyed, whoever opens a
\* trade with whom.
Places(m, i) ==
    Cardinality({p \in Players : i \in m.cargo[p]})
      + Cardinality({p \in Players : i \in m.offer[p]})
Ledger ==
    /\ \A i \in Items : Places(mem, i) <= 1
    /\ FoldSet(LAMBDA p, s : s + mem.credits[p], 0, Players)
         = StartCredits * Cardinality(Players)

\* Things change hands only between two players who confirmed a trade with each
\* other, and on the very terms that both confirmed.
OnTerms == \A p, q \in Players : Exchange(p, q) => confirm[q] = Terms(q, p)
Consent == [][OnTerms]_vars

\* When every save has been written, the database has what the players have: every
\* handler saves all it changed.
AllSaved == MaxCrashes # 0 /\ saves = <<>> => db = mem

\* What a crash leaves is complete: everything is in a hold or a window.
CrashKeeps == Items = Held(db) \cup loose
=============================================================================
