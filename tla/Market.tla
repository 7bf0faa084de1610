------------------------------- MODULE Market -------------------------------
(***************************************************************************)
(* Freya Online: auction house, item mail and vault transfer on the tables *)
(* that the game server also reads and writes.                             *)
(*                                                                         *)
(* Every operation runs in one SERIALIZABLE transaction that is retried    *)
(* from scratch when it loses a conflict (serialTx), so it is one action,  *)
(* enabled when the transaction commits; a refused request changes         *)
(* nothing.  The web requests of all accounts, the two sweepers, the       *)
(* auction bot and the game server interleave freely.                      *)
(*                                                                         *)
(* An item is a set of units, so that a unit which is in two rows, or in   *)
(* none, can be told from one that moved.  Listing and message numbers are *)
(* reused once the row is settled or deleted: no operation reads a row in  *)
(* that state, and the numbers bound how many are open at once.            *)
(***************************************************************************)
EXTENDS Integers, FiniteSets

CONSTANTS
    Avatars,       \* avatar ids: account * 5 + slot + 1, so they order by slot
    Owner,         \* Owner[a]: account of avatar a
    Gamers,        \* avatars that also log in to the game
    Deletable,     \* avatars that their player may delete
    Bot,           \* ahBotAccountID
    Units,         \* single pieces of goods
    NoTrade,       \* units of a no-trade item
    Vendor,        \* Vendor[u]: buying_price of the item u is a piece of
    BotMult,       \* botPriceMultiplier of the faucet's items
    BotTarget,     \* botTargetActive
    VaultSlots,    \* vaultSlotCount
    HoldSlots,     \* slots of avatar_inventory_items
    MaxMailItems,  \* maxMailItems
    Prices,        \* minBid and buyout values a seller may ask for
    Stock,         \* Stock[a][s]: units an avatar starts with
    Purse,         \* Purse[a]: credits an avatar starts with
    XpSpent,       \* may the game save a trade_stack below the stack_level?
    MaxListings,   \* bound: listings open at once
    MaxMail        \* bound: messages kept at once

None == 0
Slots == 1 .. (VaultSlots + HoldSlots)
Vault == 1 .. VaultSlots
ListIds == 1 .. MaxListings
MsgIds == 1 .. MaxMail
\* Attachments are keyed by the vault slot they came from, which is their
\* order in the message; 0 is the only attachment of an automatic delivery.
Keys == {0} \cup Vault
Accounts == {Owner[a] : a \in Avatars} \cup {Bot}

ASSUME AvatarAssumption == /\ IsFiniteSet(Avatars) /\ Avatars \subseteq Nat \ {None}
                           /\ Owner \in [Avatars -> Nat \ {None}]
                           /\ Bot \in Nat \ {None}
                           /\ \A a \in Avatars : Owner[a] # Bot
ASSUME SlotAssumption == VaultSlots \in Nat /\ HoldSlots \in Nat
ASSUME BoundAssumption == MaxListings \in Nat /\ MaxMail \in Nat /\ MaxMailItems \in Nat
ASSUME PriceAssumption == /\ Vendor \in [Units -> Nat]
                          /\ Prices \subseteq Nat
                          /\ BotMult \in Nat \ {0}
                          /\ BotTarget \in Nat
ASSUME StockAssumption == /\ Stock \in [Avatars -> [Slots -> SUBSET Units]]
                          /\ Purse \in [Avatars -> Nat]
                          /\ \A a, b \in Avatars : \A s, t \in Slots :
                                 Stock[a][s] \cap Stock[b][t] # {} => a = b /\ s = t
ASSUME UnitAssumption == IsFiniteSet(Units)
ASSUME XpAssumption == XpSpent \in BOOLEAN

VARIABLES
    live,          \* avatars that exist (deleted_at IS NULL)
    online,        \* avatars with last_login > last_logout
    wallet,        \* avatar_level_info.credits
    stack,         \* stack[a][s]: the units of a storage row (stack_level)
    trade,         \* those of them that still award trade XP (trade_stack)
    listing,       \* auction_listings
    mail,          \* mailbox_messages with their mailbox_attachments
    faucet,        \* units the bot has not put up yet
    gone,          \* units forfeited on purpose: deleted mail, deleted avatar
    issued         \* credits put into circulation so far, less those retired

goods == <<stack, trade, faucet, gone>>
vars == <<live, online, wallet, goods, listing, mail, issued>>

NoListing == [active |-> FALSE, seller |-> None, units |-> {}, value |-> 0, start |-> 0,
              bid |-> 0, buyout |-> 0, deposit |-> 0, bidder |-> None,
              lapsed |-> FALSE, due |-> FALSE]
NoMail == [acct |-> None, to |-> None, items |-> [k \in Keys |-> {}],
           credits |-> 0, looted |-> {}]

Init ==
    /\ live = Avatars
    /\ online = {}
    /\ wallet = Purse
    /\ stack = Stock
    /\ trade = Stock
    /\ listing = [l \in ListIds |-> NoListing]
    /\ mail = [m \in MsgIds |-> NoMail]
    /\ faucet = Units \ UNION {Stock[a][s] : a \in Avatars, s \in Slots}
    /\ gone = {}
    /\ issued = 0

-----------------------------------------------------------------------------
(* Helpers shared by the operations. *)

MayActOnline(a) == a \in live

\* ownedAvatarByName and assertAvatarOffline: the avatar the request acts as.
MayAct(a) == a \in live /\ a \notin online

OverDebit(a, n) == wallet' = [wallet EXCEPT ![a] = @ - n]

\* debitAvatar
Debit(a, n) == /\ wallet[a] >= n
               /\ wallet' = [wallet EXCEPT ![a] = @ - n]

\* freeVaultSlot: the lowest vault slot that carries no item.
FreeSlots(a) == {s \in Vault : stack[a][s] = {}}
FirstFree(a) == {s \in FreeSlots(a) : \A t \in FreeSlots(a) : s <= t}

\* A storage row is written, or deleted when us is empty.
PutRow(rows, a, s, us) == [rows EXCEPT ![a][s] = us]

\* insertVaultItem: stack_level and trade_stack are written equal.
InsertItem(a, s, us) == /\ stack' = PutRow(stack, a, s, us)
                        /\ trade' = PutRow(trade, a, s, us)

\* lockVaultSlot: how many of a row's units a transfer or a mail takes along.
Locked(a, s) == IF trade[a][s] # {} THEN trade[a][s] ELSE stack[a][s]

\* PostListing goes by trade_stack alone: a row that has none counts as one unit.
Listable(a, s, us) == IF trade[a][s] # {} THEN us \subseteq trade[a][s]
                      ELSE us \subseteq stack[a][s] /\ Cardinality(us) = 1
EveryRow(a, s, us) == TRUE
WholeRow(a, s, us) == trade[a][s] \subseteq us

CeilDiv(n, d) == (n + d - 1) \div d
Value(us) == IF us = {} THEN 0 ELSE Vendor[CHOOSE u \in us : TRUE] * Cardinality(us)
Deposit(v) == CeilDiv(v, 10)
Refund(d) == (95 * d) \div 100

TruncatedIncrement(v) == v \div 100

\* minIncrement: 1% of the value, at least 1.
MinIncrement(v) == IF CeilDiv(v, 100) < 1 THEN 1 ELSE CeilDiv(v, 100)

\* botPostOne: 110% and 200% of the value times the category's multiplier,
\* the first rounded to the nearest credit.
BotStart(v) == LET b == (11 * v * BotMult + 5) \div 10 IN IF b < 1 THEN 1 ELSE b
BotBuyout(v) == LET b == 2 * v * BotMult IN IF b <= BotStart(v) THEN BotStart(v) + 1 ELSE b

\* deliverItem and deliverCredits: the message each of them inserts.
ItemMail(acct, to, us) ==
    [acct |-> acct, to |-> to, items |-> [k \in Keys |-> IF k = 0 THEN us ELSE {}],
     credits |-> 0, looted |-> {}]
CreditMail(acct, n) == IF n > 0 THEN [NoMail EXCEPT !.acct = acct, !.credits = n]
                                ELSE NoMail

FreeIds == {m \in MsgIds : mail[m] = NoMail}
\* The n lowest unused message numbers, in order (one function, or none).
Fresh(n) == {ids \in [1 .. n -> FreeIds] :
                \A i \in 1 .. n : \A m \in FreeIds :
                    (m < ids[i]) <=> (\E j \in 1 .. (i - 1) : ids[j] = m)}

Open == {l \in ListIds : listing[l].active}
\* Bound: n more messages still leave room to settle every listing in ls.
Room(n, ls) == Cardinality(FreeIds) >= n + 2 * Cardinality(ls)

Credits(m) == IF 0 \in mail[m].looted THEN 0 ELSE mail[m].credits

-----------------------------------------------------------------------------
(* The auction house. *)

PutUp(l, acct, us, v, start, buyout, deposit) ==
    listing' = [listing EXCEPT ![l] =
        [active |-> TRUE, seller |-> acct, units |-> us, value |-> v, start |-> start,
         bid |-> start, buyout |-> buyout, deposit |-> deposit, bidder |-> None,
         lapsed |-> FALSE, due |-> FALSE]]

\* The seller lists the units us of row s; when that is all the row is
\* believed to hold the row is deleted, else its two counts are lowered.
PostListing(a, s, us, minBid, buyout, l) ==
    LET start == IF minBid < 1 THEN 1 ELSE minBid
    IN  /\ MayAct(a)
        /\ l \notin Open /\ Room(0, Open \cup {l})
        /\ stack[a][s] # {}
        /\ us # {} /\ Listable(a, s, us)
        /\ us \cap NoTrade = {}
        /\ buyout > 0 => buyout > start
        /\ Debit(a, Deposit(Value(us)))
        /\ stack' = PutRow(stack, a, s, IF WholeRow(a, s, us) THEN {} ELSE stack[a][s] \ us)
        /\ trade' = PutRow(trade, a, s, IF WholeRow(a, s, us) THEN {} ELSE trade[a][s] \ us)
        /\ PutUp(l, Owner[a], us, Value(us), start, buyout, Deposit(Value(us)))
        /\ issued' = issued - Deposit(Value(us))
        /\ UNCHANGED <<live, online, mail, faucet, gone>>

NextBid(l) == IF listing[l].bidder = None
              THEN listing[l].start
              ELSE listing[l].bid + MinIncrement(listing[l].value)

RefundNewBid(l) == IF listing[l].bidder = None THEN NoMail
                   ELSE CreditMail(listing[l].bidder, NextBid(l))
RefundSeller(l) == IF listing[l].bidder = None THEN NoMail
                   ELSE CreditMail(listing[l].seller, listing[l].bid)

\* What a standing bidder gets back when the bid is beaten or bought out.
BidRefund(l) == IF listing[l].bidder = None THEN NoMail
                ELSE CreditMail(listing[l].bidder, listing[l].bid)

PlaceBid(a, l) ==
    /\ MayAct(a)
    /\ l \in Open /\ ~listing[l].lapsed
    /\ listing[l].seller # Owner[a]
    /\ Room(1, Open)
    /\ Debit(a, NextBid(l))
    /\ \E ids \in Fresh(1) : mail' = [mail EXCEPT ![ids[1]] = BidRefund(l)]
    /\ listing' = [listing EXCEPT ![l] = [@ EXCEPT !.bid = NextBid(l), !.bidder = Owner[a]]]
    /\ UNCHANGED <<live, online, goods, issued>>

\* The bot bids first or not at all, at up to 120% of its own price, and
\* pays nothing: the bid is new money.
BotPlaceBid(l) ==
    /\ l \in Open /\ ~listing[l].lapsed
    /\ listing[l].seller # Bot
    /\ listing[l].bidder = None
    /\ 10 * listing[l].bid <= 12 * BotStart(listing[l].value)
    /\ listing' = [listing EXCEPT ![l] = [@ EXCEPT !.bid = listing[l].start, !.bidder = Bot]]
    /\ issued' = issued + listing[l].start
    /\ UNCHANGED <<live, online, wallet, goods, mail>>

Buyout(a, l) ==
    /\ MayAct(a)
    /\ l \in Open /\ ~listing[l].lapsed
    /\ listing[l].buyout > 0
    /\ listing[l].seller # Owner[a]
    /\ Room(1, Open)
    /\ Debit(a, listing[l].buyout)
    /\ \E ids \in Fresh(3) :
           mail' = [mail EXCEPT ![ids[1]] = BidRefund(l),
                                ![ids[2]] = ItemMail(Owner[a], a, listing[l].units),
                                ![ids[3]] = CreditMail(listing[l].seller, listing[l].buyout)]
    /\ listing' = [listing EXCEPT ![l] = NoListing]
    /\ UNCHANGED <<live, online, goods, issued>>

ResolvePaysWinner(l) ==
    /\ l \in Open /\ listing[l].due
    /\ listing[l].bidder # None
    /\ \E ids \in Fresh(2) :
           mail' = [mail EXCEPT ![ids[1]] = ItemMail(listing[l].bidder, None, listing[l].units),
                                ![ids[2]] = CreditMail(listing[l].bidder, listing[l].bid)]
    /\ listing' = [listing EXCEPT ![l] = NoListing]
    /\ UNCHANGED <<live, online, wallet, goods, issued>>

\* resolveOneExpired: the standing bid wins; without one the item and 95% of
\* the deposit go back.
ResolveSold(l) ==
    /\ l \in Open /\ listing[l].due
    /\ listing[l].bidder # None
    /\ \E ids \in Fresh(2) :
           mail' = [mail EXCEPT ![ids[1]] = ItemMail(listing[l].bidder, None, listing[l].units),
                                ![ids[2]] = CreditMail(listing[l].seller, listing[l].bid)]
    /\ listing' = [listing EXCEPT ![l] = NoListing]
    /\ UNCHANGED <<live, online, wallet, goods, issued>>

ResolveUnsold(l) ==
    /\ l \in Open /\ listing[l].due
    /\ listing[l].bidder = None
    /\ \E ids \in Fresh(2) :
           mail' = [mail EXCEPT ![ids[1]] = ItemMail(listing[l].seller, None, listing[l].units),
                                ![ids[2]] = CreditMail(listing[l].seller, Refund(listing[l].deposit))]
    /\ listing' = [listing EXCEPT ![l] = NoListing]
    /\ issued' = issued + Refund(listing[l].deposit)
    /\ UNCHANGED <<live, online, wallet, goods>>

\* Bids are refused by the web server's clock, read inside the transaction;
\* the sweeper goes by the database's, fixed when its transaction began.  A
\* bid may therefore still commit on a listing that is already due.
Lapse(l) == /\ l \in Open /\ ~listing[l].lapsed
            /\ listing' = [listing EXCEPT ![l].lapsed = TRUE]
            /\ UNCHANGED <<live, online, wallet, goods, mail, issued>>

Due(l) == /\ l \in Open /\ ~listing[l].due
          /\ listing' = [listing EXCEPT ![l].due = TRUE]
          /\ UNCHANGED <<live, online, wallet, goods, mail, issued>>

\* The faucet stocks the house up to its target: no deposit, no storage row.
BotPostOne(us, l) ==
    /\ us # {} /\ us \subseteq faucet /\ us \cap NoTrade = {}
    /\ Value(us) > 0
    /\ l \notin Open /\ Room(0, Open \cup {l})
    /\ Cardinality({k \in Open : listing[k].seller = Bot}) < BotTarget
    /\ PutUp(l, Bot, us, Value(us), BotStart(Value(us)), BotBuyout(Value(us)), 0)
    /\ faucet' = faucet \ us
    /\ UNCHANGED <<live, online, wallet, stack, trade, gone, mail, issued>>

-----------------------------------------------------------------------------
(* Mail and vault transfer. *)

\* Only the sender is guarded: delivery writes nothing the game holds.
SendMail(a, b, ss) ==
    /\ MayAct(a) /\ b \in live /\ a # b
    /\ ss \subseteq Vault /\ Cardinality(ss) <= MaxMailItems
    /\ \A s \in ss : stack[a][s] # {} /\ stack[a][s] \cap NoTrade = {}
    /\ Room(1, Open)
    /\ \E ids \in Fresh(1) :
           mail' = [mail EXCEPT ![ids[1]] =
               [acct |-> Owner[b], to |-> b, credits |-> 0, looted |-> {},
                items |-> [k \in Keys |-> IF k \in ss THEN Locked(a, k) ELSE {}]]]
    /\ stack' = [stack EXCEPT ![a] = [s \in Slots |-> IF s \in ss THEN {} ELSE @[s]]]
    /\ trade' = [trade EXCEPT ![a] = [s \in Slots |-> IF s \in ss THEN {} ELSE @[s]]]
    /\ UNCHANGED <<live, online, wallet, listing, faucet, gone, issued>>

\* lootAttachmentTx: the acting avatar if the account owns it, else the
\* addressee if it still exists, else the account's lowest slot.
LootTargets(m, acting) ==
    LET mine == {a \in live : Owner[a] = mail[m].acct}
    IN  IF acting \in mine THEN {acting}
        ELSE IF mail[m].to \in live THEN {mail[m].to}
        ELSE {a \in mine : \A b \in mine : a <= b}

Unlooted(m, k) == mail[m].acct # None /\ k \notin mail[m].looted

\* The attachment's looted flag is set; the message stays.
MarkLooted(m, k) == [mail EXCEPT ![m].looted = @ \cup {k}]

LootCredits(m, acting) ==
    /\ Unlooted(m, 0) /\ mail[m].credits > 0
    /\ \E a \in LootTargets(m, acting) :
           /\ a \notin online
           /\ wallet' = [wallet EXCEPT ![a] = @ + mail[m].credits]
    /\ mail' = MarkLooted(m, 0)
    /\ UNCHANGED <<live, online, goods, listing, issued>>

LootItemAgain(m, k, acting) ==
    /\ Unlooted(m, k) /\ mail[m].items[k] # {}
    /\ \E a \in LootTargets(m, acting) :
           /\ a \notin online
           /\ \E s \in FirstFree(a) : InsertItem(a, s, mail[m].items[k])
    /\ UNCHANGED <<live, online, wallet, listing, mail, faucet, gone, issued>>

LootItem(m, k, acting) ==
    /\ Unlooted(m, k) /\ mail[m].items[k] # {}
    /\ \E a \in LootTargets(m, acting) :
           /\ a \notin online
           /\ \E s \in FirstFree(a) : InsertItem(a, s, mail[m].items[k])
    /\ mail' = MarkLooted(m, k)
    /\ UNCHANGED <<live, online, wallet, listing, faucet, gone, issued>>

\* Deleting a message cascades to its attachments; what was not looted is
\* forfeited.
Discard(m) ==
    /\ mail[m].acct # None
    /\ gone' = gone \cup UNION {mail[m].items[k] : k \in Keys \ mail[m].looted}
    /\ issued' = issued - Credits(m)
    /\ mail' = [mail EXCEPT ![m] = NoMail]
    /\ UNCHANGED <<live, online, wallet, stack, trade, faucet, listing>>

DeleteMessage(m) == Discard(m)

SweepLootedMail(m) == mail[m].looted # {} /\ Discard(m)
SweepExpiredMail(m) == Discard(m)   \* 90 days after delivery

TransferToAnyone(a, b, s) ==
    /\ MayAct(a) /\ MayAct(b) /\ a # b
    /\ stack[a][s] # {}
    /\ \E t \in FirstFree(b) :
           /\ stack' = PutRow(PutRow(stack, a, s, {}), b, t, Locked(a, s))
           /\ trade' = PutRow(PutRow(trade, a, s, {}), b, t, Locked(a, s))
    /\ UNCHANGED <<live, online, wallet, listing, mail, faucet, gone, issued>>

\* Both avatars are guarded, the whole stack moves to the first free slot.
TransferVaultItem(a, b, s) ==
    /\ MayAct(a) /\ MayAct(b) /\ a # b /\ Owner[a] = Owner[b]
    /\ stack[a][s] # {}
    /\ \E t \in FirstFree(b) :
           /\ stack' = PutRow(PutRow(stack, a, s, {}), b, t, Locked(a, s))
           /\ trade' = PutRow(PutRow(trade, a, s, {}), b, t, Locked(a, s))
    /\ UNCHANGED <<live, online, wallet, listing, mail, faucet, gone, issued>>

-----------------------------------------------------------------------------
(* The game server, as far as the tables show it. *)

HandleLogin(a) == /\ a \in (Gamers \cap live) \ online
                  /\ online' = online \cup {a}
                  /\ UNCHANGED <<live, wallet, goods, listing, mail, issued>>

HandleLogout(a) == /\ a \in online
                   /\ online' = online \ {a}
                   /\ UNCHANGED <<live, wallet, goods, listing, mail, issued>>

\* The player exchanges the contents of two slots and both rows are saved.
UpsertInventorySlot(a, s, t) ==
    /\ a \in online /\ s # t
    /\ stack' = PutRow(PutRow(stack, a, s, stack[a][t]), a, t, stack[a][s])
    /\ trade' = PutRow(PutRow(trade, a, s, trade[a][t]), a, t, trade[a][s])
    /\ UNCHANGED <<live, online, wallet, listing, mail, faucet, gone, issued>>

\* trade_stack counts the units that still award trade XP: awarding it, or
\* adding manufactured units to a stack, leaves it below stack_level.
SpendTradeXP(a, s, us) ==
    /\ XpSpent /\ a \in online
    /\ us # {} /\ us \subseteq trade[a][s]
    /\ trade' = PutRow(trade, a, s, trade[a][s] \ us)
    /\ UNCHANGED <<live, online, wallet, stack, listing, mail, faucet, gone, issued>>

\* DeleteCharacter and the full wipe it queues.
DeleteCharacter(a) ==
    /\ a \in Deletable \cap live /\ a \notin online
    /\ live' = live \ {a}
    /\ gone' = gone \cup UNION {stack[a][s] : s \in Slots}
    /\ stack' = [stack EXCEPT ![a] = [s \in Slots |-> {}]]
    /\ trade' = [trade EXCEPT ![a] = [s \in Slots |-> {}]]
    /\ issued' = issued - wallet[a]
    /\ wallet' = [wallet EXCEPT ![a] = 0]
    /\ UNCHANGED <<online, listing, mail, faucet>>

-----------------------------------------------------------------------------
Auction ==
    \/ \E a \in Avatars, s \in Slots, us \in SUBSET Units, p, q \in Prices, l \in ListIds :
           PostListing(a, s, us, p, q, l)
    \/ \E a \in Avatars, l \in ListIds : PlaceBid(a, l)
    \/ \E a \in Avatars, l \in ListIds : Buyout(a, l)
    \/ \E l \in ListIds : ResolveSold(l)
    \/ \E l \in ListIds : ResolveUnsold(l)
    \/ \E l \in ListIds : Lapse(l)
    \/ \E l \in ListIds : Due(l)
    \/ \E l \in ListIds : BotPlaceBid(l)
    \/ \E us \in SUBSET Units, l \in ListIds : BotPostOne(us, l)

MailAndVault ==
    \/ \E a, b \in Avatars, ss \in SUBSET Vault : SendMail(a, b, ss)
    \/ \E m \in MsgIds, acting \in Avatars \cup {None} : LootCredits(m, acting)
    \/ \E m \in MsgIds, k \in Keys, acting \in Avatars \cup {None} : LootItem(m, k, acting)
    \/ \E m \in MsgIds : DeleteMessage(m)
    \/ \E m \in MsgIds : SweepExpiredMail(m)
    \/ \E a, b \in Avatars, s \in Vault : TransferVaultItem(a, b, s)

Game ==
    \/ \E a \in Avatars : HandleLogin(a)
    \/ \E a \in Avatars : HandleLogout(a)
    \/ \E a \in Avatars, s, t \in Slots : UpsertInventorySlot(a, s, t)
    \/ \E a \in Avatars, s \in Slots, us \in SUBSET Units : SpendTradeXP(a, s, us)
    \/ \E a \in Avatars : DeleteCharacter(a)

Next == Auction \/ MailAndVault \/ Game

Spec == Init /\ [][Next]_vars

\* Time passes for every listing, the auction sweeper runs at start-up and
\* every five minutes, and the mail sweeper removes mail after 90 days.
Fairness ==
    /\ \A l \in ListIds : WF_vars(Due(l)) /\ WF_vars(ResolveSold(l) \/ ResolveUnsold(l))
    /\ \A m \in MsgIds : WF_vars(SweepExpiredMail(m))

FairSpec == Spec /\ Fairness

-----------------------------------------------------------------------------
(* Properties. *)

ListingType ==
    [active : BOOLEAN, seller : Nat, units : SUBSET Units, value : Nat, start : Nat,
     bid : Nat, buyout : Nat, deposit : Nat, bidder : Nat, lapsed : BOOLEAN, due : BOOLEAN]
MailType ==
    [acct : Nat, to : Nat, items : [Keys -> SUBSET Units], credits : Nat, looted : SUBSET Keys]

\* Type invariant: a balance never goes negative, a trade_stack never counts
\* units that are not in the stack, a bidder is standing only on an open listing.
TypeOK ==
    /\ live \subseteq Avatars /\ online \subseteq live
    /\ wallet \in [Avatars -> Nat]
    /\ stack \in [Avatars -> [Slots -> SUBSET Units]]
    /\ trade \in [Avatars -> [Slots -> SUBSET Units]]
    /\ \A a \in Avatars : \A s \in Slots : trade[a][s] \subseteq stack[a][s]
    /\ listing \in [ListIds -> ListingType]
    /\ mail \in [MsgIds -> MailType]
    /\ faucet \subseteq Units /\ gone \subseteq Units
    /\ issued \in Int

\* The rows that can hold a unit, and the units each of them holds: a settled
\* listing and a looted attachment hold nothing any more.
Places == ({"slot"} \X Avatars \X Slots) \cup ({"mail"} \X MsgIds \X Keys)
              \cup ({"listing"} \X ListIds \X {0}) \cup {<<"faucet", 0, 0>>, <<"gone", 0, 0>>}
Held(p) == CASE p[1] = "slot" -> stack[p[2]][p[3]]
             [] p[1] = "mail" -> IF p[3] \in mail[p[2]].looted THEN {} ELSE mail[p[2]].items[p[3]]
             [] p[1] = "listing" -> listing[p[2]].units
             [] p[1] = "faucet" -> faucet
             [] p[1] = "gone" -> gone

\* No duplication: whatever the requests, sweeps and saves do to each other, a
\* unit is never in two rows at once (serialTx: "can never dup an item").
NoDupe == \A u \in Units : \A p, q \in {r \in Places : u \in Held(r)} : p = q

\* No loss: a unit only disappears when its owner deletes the mail or the avatar
\* that holds it, or lets the mail expire (TransferVaultItem, SendMail: an item
\* can not "vanish").
NothingLost == \A u \in Units : \E p \in Places : u \in Held(p)

\* A no-trade item stays in the storage of the account it started with until its
\* avatar is deleted: no chain of transfers, listings and mails moves it out
\* (PostListing and SendMail refuse it, TransferVaultItem stays in the account).
NoTradeStays ==
    \A a \in Avatars : \A s \in Slots : \A u \in NoTrade \cap Stock[a][s] :
        \/ u \in gone
        \/ \E b \in Avatars : Owner[b] = Owner[a] /\ \E t \in Slots : u \in stack[b][t]

\* While an avatar is online the game is the authority: no request changes its
\* credits or brings an item into or out of its storage (assertAvatarOffline on
\* every path that ends in a debit, a row removal or a loot).
Carried(a) == UNION {stack[a][s] : s \in Slots}
OnlineUntouched ==
    [][\A a \in online : wallet'[a] = wallet[a] /\ Carried(a)' = Carried(a)]_vars

NewMail(m) == mail[m] = NoMail /\ mail'[m] # NoMail

\* A bid that stops standing is settled in the same transaction, with the account
\* that placed it: the bid comes back as credits, or the item arrives (PlaceBid,
\* Buyout and resolveOneExpired, in any order and with any accounts involved).
BidderSettled ==
    [][\A l \in Open :
          (listing[l].bidder # None /\ (listing'[l].bid # listing[l].bid \/ ~listing'[l].active)) =>
              \E m \in MsgIds : /\ NewMail(m)
                                /\ mail'[m].acct = listing[l].bidder
                                /\ \/ mail'[m].credits = listing[l].bid
                                   \/ mail'[m].items[0] = listing[l].units]_vars

\* A listing that closes leaves its seller with the item, or with the buyout or
\* the standing bid in full (Buyout and both branches of resolveOneExpired).
SellerSettled ==
    [][\A l \in Open :
          ~listing'[l].active =>
              \E m \in MsgIds : /\ NewMail(m)
                                /\ mail'[m].acct = listing[l].seller
                                /\ \/ mail'[m].items[0] = listing[l].units
                                   \/ mail'[m].credits = listing[l].buyout
                                   \/ /\ listing[l].bidder # None
                                      /\ mail'[m].credits = listing[l].bid]_vars

\* On one listing, each bid is higher than the one it beats (minIncrement).
BidsRise ==
    [][\A l \in Open :
          (listing'[l].active /\ listing[l].bidder \notin {None, listing'[l].bidder}) =>
              listing'[l].bid > listing[l].bid]_vars

\* Goods in escrow do not stay there: a unit in a listing or in a mail reaches a
\* storage row or is forfeited (startSweepers settles every overdue auction and
\* removes every expired mail).
InEscrow(u) == \/ \E l \in ListIds : u \in listing[l].units
               \/ \E m \in MsgIds : \E k \in Keys \ mail[m].looted : u \in mail[m].items[k]
EscrowEnds == \A u \in Units : InEscrow(u) ~> ~InEscrow(u)

=============================================================================
