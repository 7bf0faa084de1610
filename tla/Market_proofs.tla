---------------------------- MODULE Market_proofs ----------------------------
(***************************************************************************)
(* Proofs about Market, for every set of avatars, accounts and goods, every*)
(* price and every bound on listings and mail.                             *)
(***************************************************************************)
EXTENDS MCMarket, FiniteSetTheorems, TLAPS

-----------------------------------------------------------------------------
(* Types of the helpers. *)

\* The vendor value of a set of units is a natural number.
LEMMA ValueType == ASSUME NEW us \in SUBSET Units PROVE Value(us) \in Nat
<1>1. CASE us = {}
  BY <1>1 DEF Value
<1>2. CASE us # {}
  <2>1. (CHOOSE u \in us : TRUE) \in Units
    BY <1>2
  <2>2. Vendor[CHOOSE u \in us : TRUE] \in Nat
    BY <2>1, PriceAssumption
  <2>3. Cardinality(us) \in Nat
    BY UnitAssumption, FS_Subset, FS_CardinalityType
  <2>4. \A x, y \in Nat : x * y \in Nat
    OBVIOUS
  <2> QED
    BY <1>2, <2>2, <2>3, <2>4 DEF Value
<1> QED
  BY <1>1, <1>2

\* Deposits, refunds, increments and the bot's prices are natural numbers, and
\* an increment is at least one credit.
LEMMA AmountTypes ==
  ASSUME NEW v \in Nat
  PROVE  /\ Deposit(v) \in Nat /\ Refund(v) \in Nat /\ MinIncrement(v) \in Nat
         /\ MinIncrement(v) >= 1
         /\ BotStart(v) \in Nat /\ BotStart(v) >= 1 /\ BotBuyout(v) \in Nat
<1>1. Deposit(v) \in Nat /\ Refund(v) \in Nat
  BY DEF Deposit, Refund, CeilDiv
<1>2. MinIncrement(v) \in Nat /\ MinIncrement(v) >= 1
  BY DEF MinIncrement, CeilDiv
<1>3. v * BotMult \in Nat /\ 11 * v * BotMult \in Nat /\ 2 * v * BotMult \in Nat
  <2>1. \A x, y \in Nat : x * y \in Nat
    OBVIOUS
  <2>2. 11 * v \in Nat /\ 2 * v \in Nat
    OBVIOUS
  <2> QED
    BY <2>1, <2>2, PriceAssumption
<1>4. BotStart(v) \in Nat /\ BotStart(v) >= 1
  BY <1>3 DEF BotStart
<1>5. BotBuyout(v) \in Nat
  BY <1>3, <1>4 DEF BotBuyout
<1> QED
  BY <1>1, <1>2, <1>4, <1>5

\* The rows the mail writers insert are message rows.
LEMMA MailTypes ==
  /\ NoMail \in MailType
  /\ \A acct, to \in Nat : \A us \in SUBSET Units : ItemMail(acct, to, us) \in MailType
  /\ \A acct, n \in Nat : CreditMail(acct, n) \in MailType
BY DEF NoMail, ItemMail, CreditMail, MailType, None

\* A free listing id holds a listing row.
LEMMA NoListingType == NoListing \in ListingType
BY DEF NoListing, ListingType, None

\* Message numbers drawn for a delivery are distinct and unused.
LEMMA FreshIds ==
  ASSUME NEW n \in Nat, NEW ids \in Fresh(n)
  PROVE  /\ \A i \in 1 .. n : ids[i] \in MsgIds /\ mail[ids[i]] = NoMail
         /\ \A i, j \in 1 .. n : i # j => ids[i] # ids[j]
<1>1. \A i \in 1 .. n : ids[i] \in MsgIds /\ mail[ids[i]] = NoMail
  BY DEF Fresh, FreeIds
<1>2. \A i, j \in 1 .. n : j < i => ids[j] < ids[i]
  BY DEF Fresh
<1>3. \A i \in 1 .. n : ids[i] \in Nat
  BY <1>1, BoundAssumption DEF MsgIds
<1> QED
  BY <1>1, <1>2, <1>3

-----------------------------------------------------------------------------
(* Type correctness. *)

\* The initial tables are typed.
LEMMA InitType == Init => TypeOK
<1> SUFFICES ASSUME Init PROVE TypeOK
  OBVIOUS
<1>1. listing \in [ListIds -> ListingType]
  BY NoListingType DEF Init
<1>2. mail \in [MsgIds -> MailType]
  BY MailTypes DEF Init
<1> QED
  BY <1>1, <1>2, StockAssumption DEF Init, TypeOK

\* The smallest acceptable bid is a natural number, and the refund of the
\* standing bid is a message row.
LEMMA NextBidType ==
  ASSUME TypeOK, NEW l \in ListIds
  PROVE  NextBid(l) \in Nat /\ BidRefund(l) \in MailType
<1>1. listing[l] \in ListingType
  BY DEF TypeOK
<1>2. MinIncrement(listing[l].value) \in Nat
  BY <1>1, AmountTypes DEF ListingType
<1>3. NextBid(l) \in Nat
  BY <1>1, <1>2 DEF NextBid, ListingType
<1>4. BidRefund(l) \in MailType
  BY <1>1, MailTypes DEF BidRefund, ListingType
<1> QED
  BY <1>3, <1>4

\* Inserting an auction row keeps the auction table typed.
LEMMA PutUpType ==
  ASSUME TypeOK, NEW l \in ListIds, NEW acct \in Nat, NEW us \in SUBSET Units, NEW v \in Nat,
         NEW start \in Nat, NEW buyout \in Nat, NEW deposit \in Nat,
         PutUp(l, acct, us, v, start, buyout, deposit)
  PROVE  listing' \in [ListIds -> ListingType]
BY DEF PutUp, TypeOK, ListingType, None

\* Avatar and account ids are natural numbers.
LEMMA OwnerType == \A a \in Avatars : Owner[a] \in Nat /\ a \in Nat
BY AvatarAssumption

\* Loot only ever goes to a character that exists.
LEMMA LootTargetType ==
  ASSUME TypeOK, NEW m, NEW acting
  PROVE  LootTargets(m, acting) \subseteq live
BY DEF LootTargets

\* The slot a delivery picks is a free slot of the vault.
LEMMA FirstFreeType == \A a \in Avatars : FirstFree(a) \subseteq FreeSlots(a) /\ FreeSlots(a) \subseteq Slots
BY SlotAssumption DEF FirstFree, FreeSlots, Vault, Slots

\* What marking an attachment as looted does to the mailbox.
LEMMA LootedType ==
  ASSUME TypeOK, NEW m \in MsgIds, NEW k \in Keys,
         mail' = MarkLooted(m, k)
  PROVE  /\ mail' \in [MsgIds -> MailType]
         /\ \A n \in MsgIds : \A j \in Keys :
                /\ mail'[n].items[j] = mail[n].items[j]
                /\ j \in mail'[n].looted <=> j \in mail[n].looted \/ (n = m /\ j = k)
         /\ \A n \in MsgIds : mail'[n].credits = mail[n].credits
<1> DEFINE r == [mail[m] EXCEPT !.looted = mail[m].looted \cup {k}]
<1>1. mail[m] \in MailType
  BY DEF TypeOK
<1>2. /\ r \in MailType /\ r.items = mail[m].items /\ r.credits = mail[m].credits
      /\ r.looted = mail[m].looted \cup {k}
  BY <1>1 DEF MailType
<1>3. mail' = [mail EXCEPT ![m] = r]
  BY DEF MarkLooted
<1>4. \A n \in MsgIds : mail'[n] = IF n = m THEN r ELSE mail[n]
  BY <1>3 DEF TypeOK
<1> HIDE DEF r
<1>5. mail' \in [MsgIds -> MailType]
  BY <1>2, <1>3 DEF TypeOK
<1> QED
  BY <1>2, <1>4, <1>5

Storage == [Avatars -> [Slots -> SUBSET Units]]

\* Both columns of every storage row hold units, and so does what FOR UPDATE
\* reads of it.
LEMMA StorageType ==
  ASSUME TypeOK
  PROVE  /\ stack \in Storage /\ trade \in Storage
         /\ \A a \in Avatars : \A s \in Slots :
                /\ stack[a][s] \in SUBSET Units /\ trade[a][s] \in SUBSET Units
                /\ Locked(a, s) \in SUBSET Units
BY DEF TypeOK, Storage, Locked

\* What writing one row does to the storage.
LEMMA OneRow ==
  ASSUME NEW rows \in Storage, NEW a \in Avatars, NEW s \in Slots, NEW us \in SUBSET Units
  PROVE  /\ PutRow(rows, a, s, us) \in Storage
         /\ \A c \in Avatars : \A r \in Slots :
                PutRow(rows, a, s, us)[c][r] = IF c = a /\ r = s THEN us ELSE rows[c][r]
BY DEF PutRow, Storage

\* What writing two rows does to the storage.
LEMMA TwoRows ==
  ASSUME NEW rows \in Storage, NEW a \in Avatars, NEW s \in Slots, NEW us \in SUBSET Units,
         NEW b \in Avatars, NEW t \in Slots, NEW ut \in SUBSET Units
  PROVE  /\ PutRow(PutRow(rows, a, s, us), b, t, ut) \in Storage
         /\ \A c \in Avatars : \A r \in Slots :
                PutRow(PutRow(rows, a, s, us), b, t, ut)[c][r] =
                    IF c = b /\ r = t THEN ut ELSE IF c = a /\ r = s THEN us ELSE rows[c][r]
<1>1. PutRow(rows, a, s, us) \in Storage
  BY OneRow
<1> QED
  BY <1>1, OneRow

\* Every auction operation keeps the tables typed.
LEMMA TypeAuction ==
  ASSUME TypeOK, Auction
  PROVE  TypeOK'
<1> USE OwnerType
<1>1. ASSUME NEW a \in Avatars, NEW s \in Slots, NEW us \in SUBSET Units,
             NEW p \in Prices, NEW q \in Prices, NEW l \in ListIds,
             PostListing(a, s, us, p, q, l)
      PROVE  TypeOK'
  <2>1. Value(us) \in Nat /\ Deposit(Value(us)) \in Nat
    BY ValueType, AmountTypes
  <2>2. p \in Nat /\ q \in Nat
    BY PriceAssumption
  <2>3. listing' \in [ListIds -> ListingType]
    <3>1. (IF p < 1 THEN 1 ELSE p) \in Nat
      BY <2>2
    <3> QED
      BY <1>1, <2>1, <2>2, <3>1, PutUpType DEF PostListing
  <2>4. wallet' \in [Avatars -> Nat] /\ issued' \in Int
    BY <1>1, <2>1 DEF PostListing, Debit, TypeOK
  <2>5. /\ stack' \in [Avatars -> [Slots -> SUBSET Units]]
        /\ trade' \in [Avatars -> [Slots -> SUBSET Units]]
        /\ \A b \in Avatars : \A t \in Slots : trade'[b][t] \subseteq stack'[b][t]
    BY <1>1 DEF PostListing, TypeOK, PutRow
  <2> QED
    BY <1>1, <2>3, <2>4, <2>5 DEF PostListing, TypeOK
<1>2. ASSUME NEW a \in Avatars, NEW l \in ListIds, PlaceBid(a, l)
      PROVE  TypeOK'
  <2>1. NextBid(l) \in Nat /\ BidRefund(l) \in MailType
    BY NextBidType
  <2>2. mail' \in [MsgIds -> MailType]
    BY <1>2, <2>1, FreshIds, SMTT(30) DEF PlaceBid, TypeOK
  <2>3. listing' \in [ListIds -> ListingType]
    <3> DEFINE r == [listing[l] EXCEPT !.bid = NextBid(l), !.bidder = Owner[a]]
    <3>1. r \in ListingType
      BY <2>1, ZenonT(40) DEF TypeOK, ListingType
    <3>2. listing' = [listing EXCEPT ![l] = r]
      BY <1>2 DEF PlaceBid
    <3> HIDE DEF r
    <3> QED
      BY <3>1, <3>2 DEF TypeOK
  <2>4. wallet' \in [Avatars -> Nat]
    BY <1>2, <2>1 DEF PlaceBid, Debit, TypeOK
  <2> QED
    BY <1>2, <2>2, <2>3, <2>4 DEF PlaceBid, TypeOK, goods
<1>3. ASSUME NEW a \in Avatars, NEW l \in ListIds, Buyout(a, l)
      PROVE  TypeOK'
  <2>1. BidRefund(l) \in MailType
    BY NextBidType
  <2>2. listing[l] \in ListingType
    BY DEF TypeOK
  <2>3. /\ ItemMail(Owner[a], a, listing[l].units) \in MailType
        /\ CreditMail(listing[l].seller, listing[l].buyout) \in MailType
    BY <2>2, MailTypes DEF ListingType
  <2>4. mail' \in [MsgIds -> MailType]
    BY <1>3, <2>1, <2>3, FreshIds DEF Buyout, TypeOK
  <2>5. listing' \in [ListIds -> ListingType]
    BY <1>3, NoListingType DEF Buyout, TypeOK
  <2>6. wallet' \in [Avatars -> Nat]
    BY <1>3, <2>2 DEF Buyout, Debit, TypeOK, ListingType
  <2> QED
    BY <1>3, <2>4, <2>5, <2>6 DEF Buyout, TypeOK, goods
<1>4. ASSUME NEW l \in ListIds, ResolveSold(l)
      PROVE  TypeOK'
  <2>1. listing[l] \in ListingType
    BY DEF TypeOK
  <2>2. /\ ItemMail(listing[l].bidder, None, listing[l].units) \in MailType
        /\ CreditMail(listing[l].seller, listing[l].bid) \in MailType
    BY <2>1, MailTypes DEF ListingType, None
  <2>3. mail' \in [MsgIds -> MailType]
    BY <1>4, <2>2, FreshIds DEF ResolveSold, TypeOK
  <2>4. listing' \in [ListIds -> ListingType]
    BY <1>4, NoListingType DEF ResolveSold, TypeOK
  <2> QED
    BY <1>4, <2>3, <2>4 DEF ResolveSold, TypeOK, goods
<1>5. ASSUME NEW l \in ListIds, ResolveUnsold(l)
      PROVE  TypeOK'
  <2>1. listing[l] \in ListingType
    BY DEF TypeOK
  <2>2. Refund(listing[l].deposit) \in Nat
    BY <2>1, AmountTypes DEF ListingType
  <2>3. /\ ItemMail(listing[l].seller, None, listing[l].units) \in MailType
        /\ CreditMail(listing[l].seller, Refund(listing[l].deposit)) \in MailType
    BY <2>1, <2>2, MailTypes DEF ListingType, None
  <2>4. mail' \in [MsgIds -> MailType]
    BY <1>5, <2>3, FreshIds DEF ResolveUnsold, TypeOK
  <2>5. listing' \in [ListIds -> ListingType]
    BY <1>5, NoListingType DEF ResolveUnsold, TypeOK
  <2>6. issued' \in Int
    BY <1>5, <2>2 DEF ResolveUnsold, TypeOK
  <2> QED
    BY <1>5, <2>4, <2>5, <2>6 DEF ResolveUnsold, TypeOK, goods
<1>6. ASSUME NEW l \in ListIds, Lapse(l) \/ Due(l) \/ BotPlaceBid(l)
      PROVE  TypeOK'
  <2>1. listing[l] \in ListingType
    BY DEF TypeOK
  <2>2. listing' \in [ListIds -> ListingType]
    <3> DEFINE r1 == [listing[l] EXCEPT !.lapsed = TRUE]
               r2 == [listing[l] EXCEPT !.due = TRUE]
               r3 == [listing[l] EXCEPT !.bid = listing[l].start, !.bidder = Bot]
    <3>1. r1 \in ListingType /\ r2 \in ListingType
      BY <2>1 DEF ListingType
    <3>2. r3 \in ListingType
      BY <2>1, AvatarAssumption DEF ListingType
    <3>3. PICK r \in {r1, r2, r3} : listing' = [listing EXCEPT ![l] = r]
      BY <1>6 DEF Lapse, Due, BotPlaceBid
    <3> HIDE DEF r1, r2, r3
    <3> QED
      BY <3>1, <3>2, <3>3 DEF TypeOK
  <2>3. issued' \in Int
    BY <1>6, <2>1 DEF Lapse, Due, BotPlaceBid, TypeOK, ListingType
  <2> QED
    BY <1>6, <2>2, <2>3 DEF Lapse, Due, BotPlaceBid, TypeOK, goods
<1>7. ASSUME NEW us \in SUBSET Units, NEW l \in ListIds, BotPostOne(us, l)
      PROVE  TypeOK'
  <2>1. Value(us) \in Nat /\ BotStart(Value(us)) \in Nat /\ BotBuyout(Value(us)) \in Nat
    BY ValueType, AmountTypes
  <2>2. listing' \in [ListIds -> ListingType]
    BY <1>7, <2>1, PutUpType, AvatarAssumption DEF BotPostOne
  <2> QED
    BY <1>7, <2>2 DEF BotPostOne, TypeOK
<1> QED
  BY <1>1, <1>2, <1>3, <1>4, <1>5, <1>6, <1>7 DEF Auction

\* Every mail and vault operation keeps the tables typed.
LEMMA TypeMail ==
  ASSUME TypeOK, MailAndVault
  PROVE  TypeOK'
<1> USE OwnerType
<1>1. ASSUME NEW a \in Avatars, NEW b \in Avatars, NEW ss \in SUBSET Vault, SendMail(a, b, ss)
      PROVE  TypeOK'
  <2>1. Vault \subseteq Slots
    BY SlotAssumption DEF Vault, Slots
  <2>2. \A k \in ss : Locked(a, k) \subseteq Units
    BY <2>1 DEF Locked, TypeOK
  <2>3. [acct |-> Owner[b], to |-> b, credits |-> 0, looted |-> {},
         items |-> [k \in Keys |-> IF k \in ss THEN Locked(a, k) ELSE {}]] \in MailType
    BY <2>2 DEF MailType
  <2>4. mail' \in [MsgIds -> MailType]
    BY <1>1, <2>3, FreshIds DEF SendMail, TypeOK
  <2>5. /\ stack' \in [Avatars -> [Slots -> SUBSET Units]]
        /\ trade' \in [Avatars -> [Slots -> SUBSET Units]]
        /\ \A c \in Avatars : \A t \in Slots : trade'[c][t] \subseteq stack'[c][t]
    BY <1>1 DEF SendMail, TypeOK
  <2> QED
    BY <1>1, <2>4, <2>5 DEF SendMail, TypeOK
<1>2. ASSUME NEW m \in MsgIds, NEW acting \in Avatars \cup {None}, LootCredits(m, acting)
      PROVE  TypeOK'
  <2>1. mail' \in [MsgIds -> MailType] /\ mail[m].credits \in Nat
    BY <1>2, LootedType DEF LootCredits, TypeOK, MailType, Keys
  <2>2. wallet' \in [Avatars -> Nat]
    BY <1>2, <2>1, LootTargetType DEF LootCredits, TypeOK
  <2> QED
    BY <1>2, <2>1, <2>2 DEF LootCredits, TypeOK, goods
<1>3. ASSUME NEW m \in MsgIds, NEW k \in Keys, NEW acting \in Avatars \cup {None},
             LootItem(m, k, acting)
      PROVE  TypeOK'
  <2>1. mail' \in [MsgIds -> MailType] /\ mail[m].items[k] \in SUBSET Units
    <3>1. mail[m] \in MailType
      BY DEF TypeOK
    <3>2. mail' \in [MsgIds -> MailType]
      BY <1>3, LootedType DEF LootItem
    <3> QED
      BY <3>1, <3>2 DEF MailType
  <2>2. /\ stack' \in [Avatars -> [Slots -> SUBSET Units]]
        /\ trade' \in [Avatars -> [Slots -> SUBSET Units]]
        /\ \A c \in Avatars : \A t \in Slots : trade'[c][t] \subseteq stack'[c][t]
    BY <1>3, <2>1, LootTargetType, FirstFreeType DEF LootItem, InsertItem, TypeOK, PutRow
  <2> QED
    BY <1>3, <2>1, <2>2 DEF LootItem, TypeOK
<1>4. ASSUME NEW m \in MsgIds, Discard(m)
      PROVE  TypeOK'
  <2>1. mail' \in [MsgIds -> MailType] /\ mail[m] \in MailType
    BY <1>4, MailTypes DEF Discard, TypeOK
  <2>2. gone' \subseteq Units /\ issued' \in Int
    BY <1>4, <2>1 DEF Discard, Credits, TypeOK, MailType
  <2> QED
    BY <1>4, <2>1, <2>2 DEF Discard, TypeOK
<1>5. ASSUME NEW a \in Avatars, NEW b \in Avatars, NEW s \in Vault, TransferVaultItem(a, b, s)
      PROVE  TypeOK'
  <2>1. s \in Slots
    BY SlotAssumption DEF Vault, Slots
  <2>2. PICK t \in Slots :
            /\ stack' = PutRow(PutRow(stack, a, s, {}), b, t, Locked(a, s))
            /\ trade' = PutRow(PutRow(trade, a, s, {}), b, t, Locked(a, s))
    BY <1>5, FirstFreeType DEF TransferVaultItem
  <2>3. {} \in SUBSET Units /\ Locked(a, s) \in SUBSET Units
    BY <2>1, StorageType
  <2>4. /\ stack' \in Storage
        /\ \A c \in Avatars : \A r \in Slots : stack'[c][r] =
               IF c = b /\ r = t THEN Locked(a, s) ELSE IF c = a /\ r = s THEN {} ELSE stack[c][r]
    BY <2>1, <2>2, <2>3, TwoRows, StorageType
  <2>5. /\ trade' \in Storage
        /\ \A c \in Avatars : \A r \in Slots : trade'[c][r] =
               IF c = b /\ r = t THEN Locked(a, s) ELSE IF c = a /\ r = s THEN {} ELSE trade[c][r]
    BY <2>1, <2>2, <2>3, TwoRows, StorageType
  <2>6. \A c \in Avatars : \A r \in Slots : trade'[c][r] \subseteq stack'[c][r]
    BY <2>4, <2>5 DEF TypeOK
  <2> QED
    BY <1>5, <2>4, <2>5, <2>6 DEF TransferVaultItem, TypeOK, Storage
<1> QED
  BY <1>1, <1>2, <1>3, <1>4, <1>5 DEF MailAndVault, DeleteMessage, SweepExpiredMail

\* Every step of the game server keeps the tables typed.
LEMMA TypeGame ==
  ASSUME TypeOK, Game
  PROVE  TypeOK'
<1>1. ASSUME NEW a \in Avatars, HandleLogin(a) \/ HandleLogout(a)
      PROVE  TypeOK'
  BY <1>1 DEF HandleLogin, HandleLogout, TypeOK, goods
<1>2. ASSUME NEW a \in Avatars, NEW s \in Slots, NEW t \in Slots, UpsertInventorySlot(a, s, t)
      PROVE  TypeOK'
  <2>1. /\ stack[a][t] \in SUBSET Units /\ stack[a][s] \in SUBSET Units
        /\ trade[a][t] \in SUBSET Units /\ trade[a][s] \in SUBSET Units
    BY StorageType
  <2>2. /\ stack' = PutRow(PutRow(stack, a, s, stack[a][t]), a, t, stack[a][s])
        /\ trade' = PutRow(PutRow(trade, a, s, trade[a][t]), a, t, trade[a][s])
    BY <1>2 DEF UpsertInventorySlot
  <2>3. /\ stack' \in Storage
        /\ \A c \in Avatars : \A r \in Slots : stack'[c][r] =
               IF c = a /\ r = t THEN stack[a][s]
               ELSE IF c = a /\ r = s THEN stack[a][t] ELSE stack[c][r]
    BY <2>1, <2>2, TwoRows, StorageType
  <2>4. /\ trade' \in Storage
        /\ \A c \in Avatars : \A r \in Slots : trade'[c][r] =
               IF c = a /\ r = t THEN trade[a][s]
               ELSE IF c = a /\ r = s THEN trade[a][t] ELSE trade[c][r]
    BY <2>1, <2>2, TwoRows, StorageType
  <2>5. \A c \in Avatars : \A r \in Slots : trade'[c][r] \subseteq stack'[c][r]
    BY <2>3, <2>4 DEF TypeOK
  <2> QED
    BY <1>2, <2>3, <2>4, <2>5 DEF UpsertInventorySlot, TypeOK, Storage
<1>3. ASSUME NEW a \in Avatars, NEW s \in Slots, NEW us \in SUBSET Units, SpendTradeXP(a, s, us)
      PROVE  TypeOK'
  BY <1>3 DEF SpendTradeXP, TypeOK, PutRow
<1>4. ASSUME NEW a \in Avatars, DeleteCharacter(a)
      PROVE  TypeOK'
  BY <1>4 DEF DeleteCharacter, TypeOK
<1> QED
  BY <1>1, <1>2, <1>3, <1>4 DEF Game

\* Whatever is requested, swept, saved or deleted, no balance goes negative and
\* no trade_stack outgrows its stack.
THEOREM MarketTypeCorrect == Spec => []TypeOK
<1>1. TypeOK /\ [Next]_vars => TypeOK'
  <2> SUFFICES ASSUME TypeOK, [Next]_vars PROVE TypeOK'
    OBVIOUS
  <2>1. CASE UNCHANGED vars
    BY <2>1 DEF vars, goods, TypeOK
  <2> QED
    BY <2>1, TypeAuction, TypeMail, TypeGame DEF Next
<1> QED
  BY <1>1, InitType, PTL DEF Spec

-----------------------------------------------------------------------------
(* Where the goods are.  Att and On are what a message's attachment and a  *)
(* listing still hold; the lemmas below say what each operation does to    *)
(* them and to the storage rows.                                           *)

AttOf(x, k) == IF k \in x.looted THEN {} ELSE x.items[k]
Att(m, k) == AttOf(mail[m], k)
On(l) == listing[l].units

InStore(u) == \E a \in Avatars : \E s \in Slots : u \in stack[a][s]
InMail(u) == \E m \in MsgIds : \E k \in Keys : u \in Att(m, k)
InHouse(u) == \E l \in ListIds : u \in On(l)

\* A unit is in at most one row.
Apart(u) ==
    /\ \A a, b \in Avatars : \A s, t \in Slots :
           u \in stack[a][s] /\ u \in stack[b][t] => a = b /\ s = t
    /\ \A m, n \in MsgIds : \A j, k \in Keys : u \in Att(m, j) /\ u \in Att(n, k) => m = n /\ j = k
    /\ \A k, l \in ListIds : u \in On(k) /\ u \in On(l) => k = l
    /\ ~(InStore(u) /\ InMail(u)) /\ ~(InStore(u) /\ InHouse(u)) /\ ~(InMail(u) /\ InHouse(u))
    /\ u \in faucet => ~InStore(u) /\ ~InMail(u) /\ ~InHouse(u) /\ u \notin gone
    /\ u \in gone => ~InStore(u) /\ ~InMail(u) /\ ~InHouse(u)

\* A unit is in at least one row.
Present(u) == InStore(u) \/ InMail(u) \/ InHouse(u) \/ u \in faucet \/ u \in gone

\* A message of credits carries nothing, a settled listing holds nothing.
Plain(x) == x.credits > 0 => \A k \in Keys : AttOf(x, k) = {}
EmptyInv ==
    /\ \A m \in MsgIds : Plain(mail[m])
    /\ \A l \in ListIds : ~listing[l].active => On(l) = {}

SameStore == \A a \in Avatars : \A s \in Slots : stack'[a][s] = stack[a][s]
SameMail == \A m \in MsgIds : \A k \in Keys : Att(m, k)' = Att(m, k)
SameHouse == \A l \in ListIds : On(l)' = On(l)
SamePools == faucet' = faucet /\ gone' = gone

\* A message of credits carries no goods; an item message carries its goods as
\* attachment 0.
LEMMA AttFacts ==
  /\ \A k \in Keys : AttOf(NoMail, k) = {}
  /\ \A acct, n \in Nat : \A k \in Keys : AttOf(CreditMail(acct, n), k) = {}
  /\ \A acct, to, us : \A k \in Keys :
         AttOf(ItemMail(acct, to, us), k) = IF k = 0 THEN us ELSE {}
BY DEF AttOf, NoMail, CreditMail, ItemMail

\* The message that refunds an outbid bidder carries no goods.
LEMMA RefundAtt ==
  ASSUME TypeOK, NEW l \in ListIds
  PROVE  \A k \in Keys : AttOf(BidRefund(l), k) = {}
<1>1. listing[l].bidder \in Nat /\ listing[l].bid \in Nat
  BY DEF TypeOK, ListingType
<1> QED
  BY <1>1, AttFacts DEF BidRefund

\* A listing is settled: its goods are in message i, which was unused.
Settled(l, i) ==
    /\ SameStore /\ SamePools
    /\ \A k \in ListIds : On(k)' = IF k = l THEN {} ELSE On(k)
    /\ \A m \in MsgIds : \A k \in Keys : Att(m, k)' = IF m = i /\ k = 0 THEN On(l) ELSE Att(m, k)
    /\ \A k \in Keys : Att(i, k) = {}

\* Closing a listing takes its goods off the house and no other listing's.
LEMMA ClosedHouse ==
  ASSUME TypeOK, NEW l \in ListIds, listing' = [listing EXCEPT ![l] = NoListing]
  PROVE  \A k \in ListIds : On(k)' = IF k = l THEN {} ELSE On(k)
<1>1. \A k \in ListIds : listing'[k] = IF k = l THEN NoListing ELSE listing[k]
  BY DEF TypeOK
<1>2. NoListing.units = {}
  BY DEF NoListing
<1> QED
  BY <1>1, <1>2 DEF On

\* A buyout moves the goods of its listing into one new message.
LEMMA BuyoutEffect ==
  ASSUME TypeOK, NEW a \in Avatars, NEW l \in ListIds, Buyout(a, l)
  PROVE  \E i \in MsgIds : Settled(l, i)
<1> DEFINE x == BidRefund(l)
           y == ItemMail(Owner[a], a, listing[l].units)
           z == CreditMail(listing[l].seller, listing[l].buyout)
<1>1. PICK ids \in Fresh(3) : mail' = [mail EXCEPT ![ids[1]] = x, ![ids[2]] = y, ![ids[3]] = z]
  BY DEF Buyout
<1>2. /\ ids[1] \in MsgIds /\ ids[2] \in MsgIds /\ ids[3] \in MsgIds
      /\ ids[1] # ids[2] /\ ids[1] # ids[3] /\ ids[2] # ids[3]
      /\ mail[ids[1]] = NoMail /\ mail[ids[2]] = NoMail /\ mail[ids[3]] = NoMail
  BY FreshIds
<1>3. listing[l].seller \in Nat /\ listing[l].buyout \in Nat
  BY DEF TypeOK, ListingType
<1>4. \A k \in Keys : /\ AttOf(x, k) = {} /\ AttOf(z, k) = {}
                      /\ AttOf(y, k) = IF k = 0 THEN On(l) ELSE {}
                      /\ AttOf(NoMail, k) = {}
  BY <1>3, AttFacts, RefundAtt DEF On
<1> HIDE DEF x, y, z
<1>5. \A m \in MsgIds : mail'[m] = IF m = ids[3] THEN z ELSE IF m = ids[2] THEN y
                                   ELSE IF m = ids[1] THEN x ELSE mail[m]
  BY <1>1, <1>2 DEF TypeOK
<1>6. \A m \in MsgIds : \A k \in Keys :
          Att(m, k)' = IF m = ids[2] /\ k = 0 THEN On(l) ELSE Att(m, k)
  BY <1>2, <1>4, <1>5 DEF Att
<1>7. \A k \in ListIds : On(k)' = IF k = l THEN {} ELSE On(k)
  BY ClosedHouse DEF Buyout
<1>8. \A k \in Keys : Att(ids[2], k) = {}
  BY <1>2, <1>4 DEF Att
<1> QED
  BY <1>2, <1>6, <1>7, <1>8 DEF Settled, SameStore, SamePools, Buyout, goods

\* Resolving an auction moves the goods of its listing into one new message, to
\* the winner or back to the seller.
LEMMA ResolveEffect ==
  ASSUME TypeOK, NEW l \in ListIds, ResolveSold(l) \/ ResolveUnsold(l)
  PROVE  \E i \in MsgIds : Settled(l, i)
<1>1. listing[l] \in ListingType
  BY DEF TypeOK
<1>2. PICK acct \in Nat, n \in Nat, ids \in Fresh(2) :
          mail' = [mail EXCEPT ![ids[1]] = ItemMail(acct, None, listing[l].units),
                               ![ids[2]] = CreditMail(listing[l].seller, n)]
  <2>1. Refund(listing[l].deposit) \in Nat
    BY <1>1, AmountTypes DEF ListingType
  <2>2. listing[l].bidder \in Nat /\ listing[l].seller \in Nat /\ listing[l].bid \in Nat
    BY <1>1 DEF ListingType
  <2> QED
    BY <2>1, <2>2 DEF ResolveSold, ResolveUnsold
<1> DEFINE y == ItemMail(acct, None, listing[l].units)
           z == CreditMail(listing[l].seller, n)
<1>3. /\ ids[1] \in MsgIds /\ ids[2] \in MsgIds /\ ids[1] # ids[2]
      /\ mail[ids[1]] = NoMail /\ mail[ids[2]] = NoMail
  BY FreshIds
<1>4. \A k \in Keys : /\ AttOf(z, k) = {} /\ AttOf(NoMail, k) = {}
                      /\ AttOf(y, k) = IF k = 0 THEN On(l) ELSE {}
  BY <1>1, AttFacts DEF On, ListingType
<1>5. mail' = [mail EXCEPT ![ids[1]] = y, ![ids[2]] = z]
  BY <1>2
<1> HIDE DEF y, z
<1>6. \A m \in MsgIds : mail'[m] = IF m = ids[2] THEN z ELSE IF m = ids[1] THEN y ELSE mail[m]
  BY <1>3, <1>5 DEF TypeOK
<1>7. \A m \in MsgIds : \A k \in Keys :
          Att(m, k)' = IF m = ids[1] /\ k = 0 THEN On(l) ELSE Att(m, k)
  BY <1>3, <1>4, <1>6 DEF Att
<1>8. \A k \in ListIds : On(k)' = IF k = l THEN {} ELSE On(k)
  BY ClosedHouse DEF ResolveSold, ResolveUnsold
<1>9. \A k \in Keys : Att(ids[1], k) = {}
  BY <1>3, <1>4 DEF Att
<1> QED
  BY <1>3, <1>7, <1>8, <1>9 DEF Settled, SameStore, SamePools, ResolveSold, ResolveUnsold, goods

\* Bids, the clock, sessions and the XP counter leave every unit where it is.
Still == SameStore /\ SameMail /\ SameHouse /\ SamePools

\* Bids, the passing of a listing's time and its falling due move no goods.
LEMMA BidEffect ==
  ASSUME TypeOK, NEW l \in ListIds,
         Lapse(l) \/ Due(l) \/ BotPlaceBid(l) \/ (\E a \in Avatars : PlaceBid(a, l))
  PROVE  Still
<1>1. SameHouse
  <2> DEFINE r1 == [listing[l] EXCEPT !.lapsed = TRUE]
             r2 == [listing[l] EXCEPT !.due = TRUE]
             r3 == [listing[l] EXCEPT !.bid = listing[l].start, !.bidder = Bot]
             r4(a) == [listing[l] EXCEPT !.bid = NextBid(l), !.bidder = Owner[a]]
             same(r) == r.units = listing[l].units
  <2>1. listing[l] \in ListingType
    BY DEF TypeOK
  <2>2. same(r1) /\ same(r2) /\ same(r3) /\ \A a \in Avatars : same(r4(a))
    BY <2>1 DEF ListingType
  <2>3. PICK r \in {r1, r2, r3} \cup {r4(a) : a \in Avatars} : listing' = [listing EXCEPT ![l] = r]
    BY DEF Lapse, Due, BotPlaceBid, PlaceBid
  <2>4. same(r)
    BY <2>2, <2>3
  <2>5. \A k \in ListIds : listing'[k] = IF k = l THEN r ELSE listing[k]
    BY <2>3 DEF TypeOK
  <2> QED
    BY <2>4, <2>5 DEF SameHouse, On
<1>2. SameMail
  <2>1. CASE mail' = mail
    BY <2>1 DEF SameMail, Att
  <2>2. ASSUME NEW a \in Avatars, PlaceBid(a, l)
        PROVE  SameMail
    <3> DEFINE x == BidRefund(l)
    <3>1. PICK ids \in Fresh(1) : mail' = [mail EXCEPT ![ids[1]] = x]
      BY <2>2 DEF PlaceBid
    <3>2. ids[1] \in MsgIds /\ mail[ids[1]] = NoMail
      BY FreshIds
    <3>3. \A k \in Keys : AttOf(x, k) = {} /\ AttOf(NoMail, k) = {}
      BY AttFacts, RefundAtt
    <3> HIDE DEF x
    <3>4. \A m \in MsgIds : mail'[m] = IF m = ids[1] THEN x ELSE mail[m]
      BY <3>1, <3>2 DEF TypeOK
    <3> QED
      BY <3>2, <3>3, <3>4 DEF SameMail, Att
  <2> QED
    BY <2>1, <2>2 DEF Lapse, Due, BotPlaceBid
<1> QED
  BY <1>1, <1>2 DEF Still, SameStore, SamePools, Lapse, Due, BotPlaceBid, PlaceBid, goods

\* Looting the credits of a message moves no goods: such a message carries
\* none.
LEMMA LootCreditsEffect ==
  ASSUME TypeOK, EmptyInv, NEW m \in MsgIds, NEW acting, LootCredits(m, acting)
  PROVE  Still
<1>1. \A n \in MsgIds : \A j \in Keys :
          /\ mail'[n].items[j] = mail[n].items[j]
          /\ j \in mail'[n].looted <=> j \in mail[n].looted \/ (n = m /\ j = 0)
  <2>1. PICK k \in Keys : k = 0
    BY DEF Keys
  <2>2. mail' = MarkLooted(m, k)
    BY <2>1 DEF LootCredits
  <2>3. \A n \in MsgIds : \A j \in Keys :
            /\ mail'[n].items[j] = mail[n].items[j]
            /\ j \in mail'[n].looted <=> j \in mail[n].looted \/ (n = m /\ j = k)
    BY <2>2, LootedType
  <2> QED
    BY <2>1, <2>3
<1>2. \A k \in Keys : Att(m, k) = {}
  BY DEF LootCredits, EmptyInv, Plain, Att
<1>3. SameMail
  BY <1>1, <1>2 DEF SameMail, Att, AttOf
<1> QED
  BY <1>3 DEF Still, SameStore, SameHouse, SamePools, On, LootCredits, goods

\* Login, logout and spending trade experience move no goods.
LEMMA GameStill ==
  ASSUME NEW a, NEW s, NEW us, HandleLogin(a) \/ HandleLogout(a) \/ SpendTradeXP(a, s, us)
  PROVE  Still
BY DEF HandleLogin, HandleLogout, SpendTradeXP, goods, Still, SameStore, SameMail, SameHouse,
       SamePools, On, Att

\* Goods go into listing l: from a storage row, or from the faucet.
PutOn(l, us) == \A k \in ListIds : On(k)' = IF k = l THEN us ELSE On(k)

\* Inserting an auction row puts its goods on the house and leaves every other
\* listing alone.
LEMMA PutUpEffect ==
  ASSUME TypeOK, NEW l \in ListIds, NEW acct, NEW us, NEW v, NEW start, NEW buyout, NEW deposit,
         PutUp(l, acct, us, v, start, buyout, deposit)
  PROVE  PutOn(l, us) /\ \A k \in ListIds : k # l => listing'[k] = listing[k]
<1> DEFINE r == [active |-> TRUE, seller |-> acct, units |-> us, value |-> v, start |-> start,
                 bid |-> start, buyout |-> buyout, deposit |-> deposit, bidder |-> None,
                 lapsed |-> FALSE, due |-> FALSE]
<1>1. \A k \in ListIds : listing'[k] = IF k = l THEN r ELSE listing[k]
  BY DEF PutUp, TypeOK
<1>2. r.units = us
  OBVIOUS
<1> HIDE DEF r
<1> QED
  BY <1>1, <1>2 DEF PutOn, On

\* Posting moves goods from one row of the poster to the new listing.
LEMMA PostEffect ==
  ASSUME TypeOK, NEW a \in Avatars, NEW s \in Slots, NEW us \in SUBSET Units,
         NEW p \in Prices, NEW q \in Prices, NEW l \in ListIds, PostListing(a, s, us, p, q, l)
  PROVE  /\ us \subseteq stack[a][s]
         /\ \A c \in Avatars : \A r \in Slots : stack'[c][r] =
                IF c = a /\ r = s THEN (IF WholeRow(a, s, us) THEN {} ELSE stack[a][s] \ us)
                ELSE stack[c][r]
         /\ PutOn(l, us) /\ SameMail /\ SamePools
<1>1. us \subseteq stack[a][s]
  BY DEF PostListing, Listable, TypeOK
<1>2. (IF WholeRow(a, s, us) THEN {} ELSE stack[a][s] \ us) \in SUBSET Units
  BY StorageType
<1>3. stack' = PutRow(stack, a, s, IF WholeRow(a, s, us) THEN {} ELSE stack[a][s] \ us)
  BY DEF PostListing
<1>4. \A c \in Avatars : \A r \in Slots : stack'[c][r] =
          IF c = a /\ r = s THEN (IF WholeRow(a, s, us) THEN {} ELSE stack[a][s] \ us)
          ELSE stack[c][r]
  BY <1>2, <1>3, OneRow, StorageType
<1>5. PutOn(l, us)
  BY PutUpEffect DEF PostListing
<1> QED
  BY <1>1, <1>4, <1>5 DEF SameMail, SamePools, Att, PostListing

\* The bot's posting moves goods from what it may still create to the new
\* listing.
LEMMA BotPostEffect ==
  ASSUME TypeOK, NEW us \in SUBSET Units, NEW l \in ListIds, BotPostOne(us, l)
  PROVE  /\ us \subseteq faucet /\ faucet' = faucet \ us /\ gone' = gone
         /\ PutOn(l, us) /\ SameMail /\ SameStore
<1>1. PutOn(l, us)
  BY PutUpEffect DEF BotPostOne
<1> QED
  BY <1>1 DEF SameMail, SameStore, Att, BotPostOne

\* The rows ss of avatar a are in message i, which was unused.
Sent(a, ss, i) ==
    /\ \A m \in MsgIds : \A k \in Keys :
           /\ Att(m, k)' = IF m = i /\ k \in ss THEN Locked(a, k) ELSE Att(m, k)
           /\ Att(i, k) = {}
    /\ \A c \in Avatars : \A r \in Slots :
           stack'[c][r] = IF c = a /\ r \in ss THEN {} ELSE stack[c][r]
    /\ SameHouse /\ SamePools

\* Sending mail moves the goods of the chosen vault slots into one new message.
LEMMA SendEffect ==
  ASSUME TypeOK, NEW a \in Avatars, NEW b \in Avatars, NEW ss \in SUBSET Vault, SendMail(a, b, ss)
  PROVE  \E i \in MsgIds : Sent(a, ss, i)
<1> DEFINE x == [acct |-> Owner[b], to |-> b, credits |-> 0, looted |-> {},
                 items |-> [k \in Keys |-> IF k \in ss THEN Locked(a, k) ELSE {}]]
<1>1. PICK ids \in Fresh(1) : mail' = [mail EXCEPT ![ids[1]] = x]
  BY DEF SendMail
<1>2. ids[1] \in MsgIds /\ mail[ids[1]] = NoMail
  BY FreshIds
<1>3. \A k \in Keys : /\ AttOf(x, k) = IF k \in ss THEN Locked(a, k) ELSE {}
                      /\ AttOf(NoMail, k) = {}
  BY AttFacts DEF AttOf
<1> HIDE DEF x
<1>4. \A m \in MsgIds : mail'[m] = IF m = ids[1] THEN x ELSE mail[m]
  BY <1>1, <1>2 DEF TypeOK
<1>5. \A m \in MsgIds : \A k \in Keys :
          /\ Att(m, k)' = IF m = ids[1] /\ k \in ss THEN Locked(a, k) ELSE Att(m, k)
          /\ Att(ids[1], k) = {}
  BY <1>2, <1>3, <1>4 DEF Att
<1>6. \A c \in Avatars : \A r \in Slots :
          stack'[c][r] = IF c = a /\ r \in ss THEN {} ELSE stack[c][r]
  BY DEF SendMail, TypeOK
<1> QED
  BY <1>2, <1>5, <1>6 DEF Sent, SameHouse, SamePools, On, SendMail

\* Attachment k of message m is in row s of avatar a, which was free.
Taken(m, k, a, s) ==
    /\ stack[a][s] = {}
    /\ \A n \in MsgIds : \A j \in Keys : Att(n, j)' = IF n = m /\ j = k THEN {} ELSE Att(n, j)
    /\ \A c \in Avatars : \A r \in Slots :
           stack'[c][r] = IF c = a /\ r = s THEN Att(m, k) ELSE stack[c][r]
    /\ SameHouse /\ SamePools

\* Looting an item moves one attachment into one empty slot of the receiver.
LEMMA LootItemEffect ==
  ASSUME TypeOK, NEW m \in MsgIds, NEW k \in Keys, NEW acting \in Avatars \cup {None},
         LootItem(m, k, acting)
  PROVE  \E a \in Avatars : \E s \in Slots : Taken(m, k, a, s)
<1>1. \A n \in MsgIds : \A j \in Keys :
          /\ mail'[n].items[j] = mail[n].items[j]
          /\ j \in mail'[n].looted <=> j \in mail[n].looted \/ (n = m /\ j = k)
  <2>1. mail' = MarkLooted(m, k)
    BY DEF LootItem
  <2> QED
    BY <2>1, LootedType
<1>2. \A n \in MsgIds : \A j \in Keys : Att(n, j)' = IF n = m /\ j = k THEN {} ELSE Att(n, j)
  BY <1>1 DEF Att, AttOf
<1>0. PICK a \in live : \E s \in FirstFree(a) : stack' = PutRow(stack, a, s, mail[m].items[k])
  BY LootTargetType DEF LootItem, InsertItem
<1>3. PICK s \in FirstFree(a) : stack' = PutRow(stack, a, s, mail[m].items[k])
  BY <1>0
<1>4. a \in Avatars /\ s \in Slots /\ stack[a][s] = {}
  BY <1>0, <1>3, FirstFreeType DEF TypeOK, FreeSlots
<1>5. mail[m].items[k] = Att(m, k) /\ Att(m, k) \in SUBSET Units
  <2>1. mail[m] \in MailType
    BY DEF TypeOK
  <2> QED
    BY <2>1 DEF LootItem, Unlooted, Att, AttOf, MailType
<1>6. \A c \in Avatars : \A r \in Slots :
          stack'[c][r] = IF c = a /\ r = s THEN Att(m, k) ELSE stack[c][r]
  BY <1>3, <1>4, <1>5, OneRow, StorageType
<1> QED
  BY <1>2, <1>4, <1>6 DEF Taken, SameHouse, SamePools, On, LootItem

\* Deleting a message, by hand or by the sweep, destroys what it still carries
\* and nothing else.
LEMMA DiscardEffect ==
  ASSUME TypeOK, NEW m \in MsgIds, Discard(m)
  PROVE  /\ \A n \in MsgIds : \A k \in Keys : Att(n, k)' = IF n = m THEN {} ELSE Att(n, k)
         /\ \A u : u \in gone' <=> u \in gone \/ \E k \in Keys : u \in Att(m, k)
         /\ SameStore /\ SameHouse /\ faucet' = faucet
<1>1. \A n \in MsgIds : mail'[n] = IF n = m THEN NoMail ELSE mail[n]
  BY DEF Discard, TypeOK
<1>2. \A n \in MsgIds : \A k \in Keys : Att(n, k)' = IF n = m THEN {} ELSE Att(n, k)
  BY <1>1, AttFacts DEF Att
<1>3. \A u : u \in gone' <=> u \in gone \/ \E k \in Keys : u \in Att(m, k)
  BY DEF Discard, Att, AttOf
<1> QED
  BY <1>2, <1>3 DEF SameStore, SameHouse, On, Discard

\* Row s of avatar a is in row t of avatar b, which was free.
Moved(a, s, b, t) ==
    /\ a # b /\ s \in Slots
    /\ stack[b][t] = {}
    /\ \A c \in Avatars : \A r \in Slots : stack'[c][r] =
           IF c = b /\ r = t THEN Locked(a, s) ELSE IF c = a /\ r = s THEN {} ELSE stack[c][r]
    /\ SameMail /\ SameHouse /\ SamePools

\* A vault transfer moves one slot of the giver to one empty slot of the
\* receiver.
LEMMA TransferEffect ==
  ASSUME TypeOK, NEW a \in Avatars, NEW b \in Avatars, NEW s \in Vault, TransferVaultItem(a, b, s)
  PROVE  \E t \in Slots : Moved(a, s, b, t)
<1>1. s \in Slots
  BY SlotAssumption DEF Vault, Slots
<1>2. PICK t \in FirstFree(b) : stack' = PutRow(PutRow(stack, a, s, {}), b, t, Locked(a, s))
  BY DEF TransferVaultItem
<1>3. t \in Slots /\ stack[b][t] = {}
  BY <1>2, FirstFreeType DEF FreeSlots
<1>4. {} \in SUBSET Units /\ Locked(a, s) \in SUBSET Units
  BY <1>1, StorageType
<1>5. \A c \in Avatars : \A r \in Slots : stack'[c][r] =
          IF c = b /\ r = t THEN Locked(a, s) ELSE IF c = a /\ r = s THEN {} ELSE stack[c][r]
  BY <1>1, <1>2, <1>3, <1>4, TwoRows, StorageType
<1> QED
  BY <1>1, <1>3, <1>5 DEF Moved, SameMail, SameHouse, SamePools, Att, On, TransferVaultItem

\* The game's move of a stack exchanges two rows of one avatar.
LEMMA SwapEffect ==
  ASSUME TypeOK, NEW a \in Avatars, NEW s \in Slots, NEW t \in Slots, UpsertInventorySlot(a, s, t)
  PROVE  /\ \A c \in Avatars : \A r \in Slots : stack'[c][r] =
                IF c = a /\ r = t THEN stack[a][s]
                ELSE IF c = a /\ r = s THEN stack[a][t] ELSE stack[c][r]
         /\ SameMail /\ SameHouse /\ SamePools
<1>1. stack[a][t] \in SUBSET Units /\ stack[a][s] \in SUBSET Units
  BY StorageType
<1>2. stack' = PutRow(PutRow(stack, a, s, stack[a][t]), a, t, stack[a][s])
  BY DEF UpsertInventorySlot
<1>3. \A c \in Avatars : \A r \in Slots : stack'[c][r] =
          IF c = a /\ r = t THEN stack[a][s]
          ELSE IF c = a /\ r = s THEN stack[a][t] ELSE stack[c][r]
  BY <1>1, <1>2, TwoRows, StorageType
<1> QED
  BY <1>3 DEF SameMail, SameHouse, SamePools, Att, On, UpsertInventorySlot

\* Deleting a character destroys the goods of its rows and nothing else.
LEMMA DeleteEffect ==
  ASSUME TypeOK, NEW a \in Avatars, DeleteCharacter(a)
  PROVE  /\ \A c \in Avatars : \A r \in Slots : stack'[c][r] = IF c = a THEN {} ELSE stack[c][r]
         /\ \A u : u \in gone' <=> u \in gone \/ \E s \in Slots : u \in stack[a][s]
         /\ SameMail /\ SameHouse /\ faucet' = faucet
<1>1. \A c \in Avatars : \A r \in Slots : stack'[c][r] = IF c = a THEN {} ELSE stack[c][r]
  BY DEF DeleteCharacter, TypeOK
<1>2. \A u : u \in gone' <=> u \in gone \/ \E s \in Slots : u \in stack[a][s]
  BY DEF DeleteCharacter
<1> QED
  BY <1>1, <1>2 DEF SameMail, SameHouse, Att, On, DeleteCharacter

-----------------------------------------------------------------------------
(* Messages of credits and settled listings hold no goods. *)

\* Of the rows a mail writer inserts, none carries both credits and goods.
LEMMA PlainFacts ==
  /\ Plain(NoMail)
  /\ \A acct, to, us : Plain(ItemMail(acct, to, us))
  /\ \A acct, n \in Nat : Plain(CreditMail(acct, n))
<1>1. \A acct, to, us : ItemMail(acct, to, us).credits = 0
  BY DEF ItemMail
<1>2. NoMail.credits = 0
  BY DEF NoMail
<1> QED
  BY <1>1, <1>2, AttFacts DEF Plain

\* Marking an attachment looted leaves no message with both credits and goods.
LEMMA PlainLooted ==
  ASSUME TypeOK, EmptyInv, NEW m \in MsgIds, NEW k \in Keys, mail' = MarkLooted(m, k)
  PROVE  \A n \in MsgIds : Plain(mail'[n])
<1>1. \A n \in MsgIds :
          /\ mail'[n].credits = mail[n].credits
          /\ \A j \in Keys :
                 /\ mail'[n].items[j] = mail[n].items[j]
                 /\ j \in mail'[n].looted <=> j \in mail[n].looted \/ (n = m /\ j = k)
  BY LootedType
<1> QED
  BY <1>1 DEF EmptyInv, Plain, AttOf

EmptyHouse == \A l \in ListIds : ~listing[l].active => On(l) = {}

\* A listing that is written active, or without goods, keeps closed listings
\* empty.
LEMMA EmptyListing ==
  ASSUME TypeOK, EmptyInv, NEW l \in ListIds, NEW r, listing' = [listing EXCEPT ![l] = r],
         r.active \/ r.units = {}
  PROVE  EmptyHouse'
<1>1. \A k \in ListIds : listing'[k] = IF k = l THEN r ELSE listing[k]
  BY DEF TypeOK
<1> QED
  BY <1>1 DEF EmptyInv, EmptyHouse, On

\* No auction operation leaves goods on a closed listing.
LEMMA EmptyAuctionHouse ==
  ASSUME TypeOK, EmptyInv, Auction
  PROVE  EmptyHouse'
<1>1. ASSUME NEW l \in ListIds, NEW acct, NEW us, NEW v, NEW start, NEW buyout, NEW deposit,
             PutUp(l, acct, us, v, start, buyout, deposit)
      PROVE  EmptyHouse'
  <2> DEFINE r == [active |-> TRUE, seller |-> acct, units |-> us, value |-> v, start |-> start,
                   bid |-> start, buyout |-> buyout, deposit |-> deposit, bidder |-> None,
                   lapsed |-> FALSE, due |-> FALSE]
  <2>1. listing' = [listing EXCEPT ![l] = r] /\ r.active
    BY <1>1 DEF PutUp
  <2> HIDE DEF r
  <2> QED
    BY <2>1, EmptyListing
<1>2. ASSUME NEW l \in ListIds, listing' = [listing EXCEPT ![l] = NoListing]
      PROVE  EmptyHouse'
  <2>1. NoListing.units = {}
    BY DEF NoListing
  <2> QED
    BY <1>2, <2>1, EmptyListing
<1>3. ASSUME NEW l \in ListIds, Lapse(l) \/ Due(l) \/ BotPlaceBid(l)
                                  \/ (\E a \in Avatars : PlaceBid(a, l))
      PROVE  EmptyHouse'
  <2> DEFINE r1 == [listing[l] EXCEPT !.lapsed = TRUE]
             r2 == [listing[l] EXCEPT !.due = TRUE]
             r3 == [listing[l] EXCEPT !.bid = listing[l].start, !.bidder = Bot]
             r4(a) == [listing[l] EXCEPT !.bid = NextBid(l), !.bidder = Owner[a]]
             open(r) == r.active
  <2>1. listing[l] \in ListingType /\ listing[l].active
    BY <1>3 DEF TypeOK, Lapse, Due, BotPlaceBid, PlaceBid, Open
  <2>2. open(r1) /\ open(r2) /\ open(r3) /\ \A a \in Avatars : open(r4(a))
    BY <2>1 DEF ListingType
  <2>3. PICK r \in {r1, r2, r3} \cup {r4(a) : a \in Avatars} : listing' = [listing EXCEPT ![l] = r]
    BY <1>3 DEF Lapse, Due, BotPlaceBid, PlaceBid
  <2>4. open(r)
    BY <2>2, <2>3
  <2> QED
    BY <2>3, <2>4, EmptyListing
<1>4. ASSUME NEW a \in Avatars, NEW s \in Slots, NEW us \in SUBSET Units,
             NEW p \in Prices, NEW q \in Prices, NEW l \in ListIds,
             PostListing(a, s, us, p, q, l)
      PROVE  EmptyHouse'
  BY <1>1, <1>4 DEF PostListing
<1>5. ASSUME NEW us \in SUBSET Units, NEW l \in ListIds, BotPostOne(us, l)
      PROVE  EmptyHouse'
  BY <1>1, <1>5 DEF BotPostOne
<1>6. ASSUME NEW l \in ListIds, ResolveSold(l) \/ ResolveUnsold(l) \/ (\E a \in Avatars : Buyout(a, l))
      PROVE  EmptyHouse'
  BY <1>2, <1>6 DEF ResolveSold, ResolveUnsold, Buyout
<1> QED
  BY <1>3, <1>4, <1>5, <1>6 DEF Auction

\* No step leaves goods on a closed listing, or in a message of credits.
LEMMA EmptyStep ==
  ASSUME TypeOK, EmptyInv, Next
  PROVE  EmptyInv'
<1> DEFINE PlainMail == \A m \in MsgIds : Plain(mail[m])
<1>1. EmptyHouse'
  <2>1. CASE listing' = listing
    BY <2>1 DEF EmptyHouse, EmptyInv, On
  <2> QED
    BY <2>1, EmptyAuctionHouse DEF Next, MailAndVault, Game, SendMail, LootCredits, LootItem,
       DeleteMessage, SweepExpiredMail, Discard, TransferVaultItem, HandleLogin, HandleLogout,
       UpsertInventorySlot, SpendTradeXP, DeleteCharacter
<1>2. ASSUME NEW i \in MsgIds, NEW x, mail' = [mail EXCEPT ![i] = x], Plain(x)
      PROVE  PlainMail'
  <2>1. \A m \in MsgIds : mail'[m] = IF m = i THEN x ELSE mail[m]
    BY <1>2 DEF TypeOK
  <2> QED
    BY <1>2, <2>1 DEF EmptyInv
<1>3. \A l \in ListIds : Plain(BidRefund(l))
  BY PlainFacts DEF BidRefund, TypeOK, ListingType
<1>4. ASSUME NEW a \in Avatars, NEW l \in ListIds, PlaceBid(a, l)
      PROVE  PlainMail'
  <2>1. PICK ids \in Fresh(1) : mail' = [mail EXCEPT ![ids[1]] = BidRefund(l)]
    BY <1>4 DEF PlaceBid
  <2>2. ids[1] \in MsgIds
    BY FreshIds
  <2> QED
    BY <1>2, <1>3, <2>1, <2>2
<1>5. ASSUME NEW a \in Avatars, NEW l \in ListIds, Buyout(a, l)
      PROVE  PlainMail'
  <2> DEFINE x == BidRefund(l)
             y == ItemMail(Owner[a], a, listing[l].units)
             z == CreditMail(listing[l].seller, listing[l].buyout)
  <2>1. PICK ids \in Fresh(3) : mail' = [mail EXCEPT ![ids[1]] = x, ![ids[2]] = y, ![ids[3]] = z]
    BY <1>5 DEF Buyout
  <2>2. ids[1] \in MsgIds /\ ids[2] \in MsgIds /\ ids[3] \in MsgIds
    BY FreshIds
  <2>3. Plain(x) /\ Plain(y) /\ Plain(z)
    BY <1>3, PlainFacts DEF TypeOK, ListingType
  <2> HIDE DEF x, y, z
  <2>4. \A m \in MsgIds : mail'[m] \in {x, y, z, mail[m]}
    BY <2>1, <2>2 DEF TypeOK
  <2> QED
    BY <2>3, <2>4 DEF EmptyInv
<1>6. ASSUME NEW l \in ListIds, ResolveSold(l) \/ ResolveUnsold(l)
      PROVE  PlainMail'
  <2>1. listing[l] \in ListingType
    BY DEF TypeOK
  <2>2. Refund(listing[l].deposit) \in Nat
    BY <2>1, AmountTypes DEF ListingType
  <2>3. PICK acct \in Nat, n \in Nat, ids \in Fresh(2) :
            mail' = [mail EXCEPT ![ids[1]] = ItemMail(acct, None, listing[l].units),
                                 ![ids[2]] = CreditMail(listing[l].seller, n)]
    BY <1>6, <2>1, <2>2 DEF ResolveSold, ResolveUnsold, ListingType
  <2> DEFINE y == ItemMail(acct, None, listing[l].units)
             z == CreditMail(listing[l].seller, n)
  <2>4. ids[1] \in MsgIds /\ ids[2] \in MsgIds
    BY FreshIds
  <2>5. Plain(y) /\ Plain(z)
    BY <2>1, PlainFacts DEF ListingType
  <2>6. mail' = [mail EXCEPT ![ids[1]] = y, ![ids[2]] = z]
    BY <2>3
  <2> HIDE DEF y, z
  <2>7. \A m \in MsgIds : mail'[m] \in {y, z, mail[m]}
    BY <2>4, <2>6 DEF TypeOK
  <2> QED
    BY <2>5, <2>7 DEF EmptyInv
<1>7. ASSUME NEW a \in Avatars, NEW b \in Avatars, NEW ss \in SUBSET Vault, SendMail(a, b, ss)
      PROVE  PlainMail'
  <2> DEFINE x == [acct |-> Owner[b], to |-> b, credits |-> 0, looted |-> {},
                   items |-> [k \in Keys |-> IF k \in ss THEN Locked(a, k) ELSE {}]]
  <2>1. PICK ids \in Fresh(1) : mail' = [mail EXCEPT ![ids[1]] = x]
    BY <1>7 DEF SendMail
  <2>2. Plain(x)
    BY DEF Plain
  <2>3. ids[1] \in MsgIds
    BY FreshIds
  <2> HIDE DEF x
  <2> QED
    BY <1>2, <2>1, <2>2, <2>3
<1>8. ASSUME NEW m \in MsgIds, NEW k \in Keys, NEW acting,
             LootItem(m, k, acting) \/ (k = 0 /\ LootCredits(m, acting))
      PROVE  PlainMail'
  <2>1. mail' = MarkLooted(m, k)
    BY <1>8 DEF LootItem, LootCredits
  <2> QED
    BY <2>1, PlainLooted
<1>9. ASSUME NEW m \in MsgIds, Discard(m)
      PROVE  PlainMail'
  BY <1>2, <1>9, PlainFacts DEF Discard
<1>10. ASSUME mail' = mail PROVE PlainMail'
  BY <1>10 DEF EmptyInv
<1>11. PlainMail'
  <2>1. CASE Auction
    <3>1. ASSUME NEW l \in ListIds, Lapse(l) \/ Due(l) \/ BotPlaceBid(l)
                                    \/ (\E us \in SUBSET Units : BotPostOne(us, l))
          PROVE  mail' = mail
      BY <3>1 DEF Lapse, Due, BotPlaceBid, BotPostOne
    <3>2. ASSUME NEW a \in Avatars, NEW s \in Slots, NEW us \in SUBSET Units,
                 NEW p \in Prices, NEW q \in Prices, NEW l \in ListIds,
                 PostListing(a, s, us, p, q, l)
          PROVE  mail' = mail
      BY <3>2 DEF PostListing
    <3> QED
      BY <2>1, <1>4, <1>5, <1>6, <1>10, <3>1, <3>2 DEF Auction
  <2>2. CASE MailAndVault
    <3>1. 0 \in Keys
      BY DEF Keys
    <3>2. ASSUME NEW m \in MsgIds, NEW acting, LootCredits(m, acting)
          PROVE  PlainMail'
      BY <1>8, <3>1, <3>2
    <3> QED
      BY <2>2, <1>7, <1>8, <1>9, <1>10, <3>2
         DEF MailAndVault, DeleteMessage, SweepExpiredMail, TransferVaultItem
  <2>3. CASE Game
    BY <2>3, <1>10 DEF Game, HandleLogin, HandleLogout, UpsertInventorySlot, SpendTradeXP,
       DeleteCharacter
  <2> QED
    BY <2>1, <2>2, <2>3 DEF Next
<1> QED
  BY <1>1, <1>11 DEF EmptyInv, EmptyHouse

-----------------------------------------------------------------------------
(* No duplication. *)

(* A vault slot is a slot of the row store and a key an attachment may carry. *)
LEMMA VaultSlot ==
  ASSUME NEW s \in Vault
  PROVE  s \in Slots /\ s \in Keys
BY SlotAssumption DEF Vault, Slots, Keys

\* What FOR UPDATE reads of a row is part of the row's stack.
LEMMA LockedIn ==
  ASSUME TypeOK, NEW a \in Avatars, NEW s \in Slots
  PROVE  Locked(a, s) \subseteq stack[a][s]
BY DEF Locked, TypeOK

\* A step that moves no goods keeps every unit in at most one place.
LEMMA ApartStill ==
  ASSUME NEW u, Apart(u), Still
  PROVE  Apart(u)'
BY DEF Still, SameStore, SameMail, SameHouse, SamePools, Apart, InStore, InMail, InHouse

\* No auction operation puts a unit in two places.
LEMMA ApartAuction ==
  ASSUME TypeOK, NEW u \in Units, Apart(u), Auction
  PROVE  Apart(u)'
<1>1. ASSUME NEW a \in Avatars, NEW s \in Slots, NEW us \in SUBSET Units,
             NEW p \in Prices, NEW q \in Prices, NEW l \in ListIds,
             PostListing(a, s, us, p, q, l)
      PROVE  Apart(u)'
  <2>1. /\ us \subseteq stack[a][s]
        /\ \A c \in Avatars : \A r \in Slots : stack'[c][r] =
               IF c = a /\ r = s THEN (IF WholeRow(a, s, us) THEN {} ELSE stack[a][s] \ us)
               ELSE stack[c][r]
        /\ PutOn(l, us) /\ SameMail /\ SamePools
    BY <1>1, PostEffect
  <2>2. /\ \A c \in Avatars : \A r \in Slots : u \in stack'[c][r] => u \in stack[c][r]
        /\ u \in us => ~InStore(u)'
    BY <2>1 DEF Apart, InStore
  <2> QED
    BY <2>1, <2>2 DEF PutOn, SameMail, SamePools, Apart, InStore, InMail, InHouse
<1>2. ASSUME NEW l \in ListIds, ResolveSold(l) \/ ResolveUnsold(l) \/ (\E a \in Avatars : Buyout(a, l))
      PROVE  Apart(u)'
  <2>1. PICK i \in MsgIds : Settled(l, i)
    BY <1>2, BuyoutEffect, ResolveEffect
  <2> QED
    BY <2>1 DEF Settled, SameStore, SamePools, Apart, InStore, InMail, InHouse
<1>3. ASSUME NEW us \in SUBSET Units, NEW l \in ListIds, BotPostOne(us, l)
      PROVE  Apart(u)'
  <2>1. /\ us \subseteq faucet /\ faucet' = faucet \ us /\ gone' = gone
        /\ PutOn(l, us) /\ SameMail /\ SameStore
    BY <1>3, BotPostEffect
  <2> QED
    BY <2>1 DEF PutOn, SameMail, SameStore, Apart, InStore, InMail, InHouse
<1>4. ASSUME NEW l \in ListIds, Lapse(l) \/ Due(l) \/ BotPlaceBid(l)
                                \/ (\E a \in Avatars : PlaceBid(a, l))
      PROVE  Apart(u)'
  BY <1>4, BidEffect, ApartStill
<1> QED
  BY <1>1, <1>2, <1>3, <1>4 DEF Auction

\* No mail or vault operation puts a unit in two places.
LEMMA ApartMail ==
  ASSUME TypeOK, EmptyInv, NEW u \in Units, Apart(u), MailAndVault
  PROVE  Apart(u)'
<1>1. ASSUME NEW a \in Avatars, NEW b \in Avatars, NEW ss \in SUBSET Vault, SendMail(a, b, ss)
      PROVE  Apart(u)'
  <2>1. PICK i \in MsgIds : Sent(a, ss, i)
    BY <1>1, SendEffect
  <2>2. \A k \in ss : k \in Slots /\ k \in Keys
    BY VaultSlot
  <2>3. \A k \in ss : Locked(a, k) \subseteq stack[a][k]
    BY <2>2, LockedIn
  <2> QED
    BY <2>1, <2>2, <2>3 DEF Sent, SameHouse, SamePools, Apart, InStore, InMail, InHouse
<1>2. ASSUME NEW m \in MsgIds, NEW acting, LootCredits(m, acting)
      PROVE  Apart(u)'
  BY <1>2, LootCreditsEffect, ApartStill
<1>3. ASSUME NEW m \in MsgIds, NEW k \in Keys, NEW acting \in Avatars \cup {None},
             LootItem(m, k, acting)
      PROVE  Apart(u)'
  <2>1. PICK a \in Avatars, s \in Slots : Taken(m, k, a, s)
    BY <1>3, LootItemEffect
  <2> QED
    BY <2>1 DEF Taken, SameHouse, SamePools, Apart, InStore, InMail, InHouse
<1>4. ASSUME NEW m \in MsgIds, Discard(m)
      PROVE  Apart(u)'
  <2>1. /\ \A n \in MsgIds : \A k \in Keys : Att(n, k)' = IF n = m THEN {} ELSE Att(n, k)
        /\ u \in gone' <=> u \in gone \/ \E k \in Keys : u \in Att(m, k)
        /\ SameStore /\ SameHouse /\ faucet' = faucet
    BY <1>4, DiscardEffect
  <2> QED
    BY <2>1 DEF SameStore, SameHouse, Apart, InStore, InMail, InHouse
<1>5. ASSUME NEW a \in Avatars, NEW b \in Avatars, NEW s \in Vault, TransferVaultItem(a, b, s)
      PROVE  Apart(u)'
  <2>1. PICK t \in Slots : Moved(a, s, b, t)
    BY <1>5, TransferEffect
  <2>2. Locked(a, s) \subseteq stack[a][s]
    BY <2>1, LockedIn DEF Moved
  <2> QED
    BY <2>1, <2>2 DEF Moved, SameMail, SameHouse, SamePools, Apart, InStore, InMail, InHouse
<1> QED
  BY <1>1, <1>2, <1>3, <1>4, <1>5 DEF MailAndVault, DeleteMessage, SweepExpiredMail

\* No step of the game server puts a unit in two places.
LEMMA ApartGame ==
  ASSUME TypeOK, NEW u \in Units, Apart(u), Game
  PROVE  Apart(u)'
<1>1. ASSUME NEW a, NEW s, NEW us, HandleLogin(a) \/ HandleLogout(a) \/ SpendTradeXP(a, s, us)
      PROVE  Apart(u)'
  BY <1>1, GameStill, ApartStill
<1>2. ASSUME NEW a \in Avatars, NEW s \in Slots, NEW t \in Slots, UpsertInventorySlot(a, s, t)
      PROVE  Apart(u)'
  <2>1. /\ \A c \in Avatars : \A r \in Slots : stack'[c][r] =
               IF c = a /\ r = t THEN stack[a][s]
               ELSE IF c = a /\ r = s THEN stack[a][t] ELSE stack[c][r]
        /\ SameMail /\ SameHouse /\ SamePools
    BY <1>2, SwapEffect
  <2> QED
    BY <2>1 DEF SameMail, SameHouse, SamePools, Apart, InStore, InMail, InHouse
<1>3. ASSUME NEW a \in Avatars, DeleteCharacter(a)
      PROVE  Apart(u)'
  <2>1. /\ \A c \in Avatars : \A r \in Slots : stack'[c][r] = IF c = a THEN {} ELSE stack[c][r]
        /\ u \in gone' <=> u \in gone \/ \E s \in Slots : u \in stack[a][s]
        /\ SameMail /\ SameHouse /\ faucet' = faucet
    BY <1>3, DeleteEffect
  <2> QED
    BY <2>1 DEF SameMail, SameHouse, Apart, InStore, InMail, InHouse
<1> QED
  BY <1>1, <1>2, <1>3 DEF Game

\* The places of Market are the rows of Apart.
LEMMA HeldIs ==
  /\ \A a \in Avatars : \A s \in Slots : Held(<<"slot", a, s>>) = stack[a][s]
  /\ \A m \in MsgIds : \A k \in Keys : Held(<<"mail", m, k>>) = Att(m, k)
  /\ \A l \in ListIds : Held(<<"listing", l, 0>>) = On(l)
  /\ Held(<<"faucet", 0, 0>>) = faucet
  /\ Held(<<"gone", 0, 0>>) = gone
BY DEF Held, Att, AttOf, On

\* The places a unit can be are rows, attachments, listings, the faucet and the
\* units destroyed.
LEMMA PlaceIs ==
  ASSUME NEW p \in Places
  PROVE  \/ \E a \in Avatars : \E s \in Slots : p = <<"slot", a, s>>
         \/ \E m \in MsgIds : \E k \in Keys : p = <<"mail", m, k>>
         \/ \E l \in ListIds : p = <<"listing", l, 0>>
         \/ p = <<"faucet", 0, 0>>
         \/ p = <<"gone", 0, 0>>
BY DEF Places

\* Units kept apart, place by place, are the NoDupe of the runs.
LEMMA ApartMeansNoDupe ==
  ASSUME \A u \in Units : Apart(u)
  PROVE  NoDupe
<1> SUFFICES ASSUME NEW u \in Units, NEW p \in Places, NEW q \in Places,
                    u \in Held(p), u \in Held(q)
             PROVE  p = q
  BY DEF NoDupe
<1> DEFINE In(r) == \/ \E a \in Avatars : \E s \in Slots : r = <<"slot", a, s>> /\ u \in stack[a][s]
                    \/ \E m \in MsgIds : \E k \in Keys : r = <<"mail", m, k>> /\ u \in Att(m, k)
                    \/ \E l \in ListIds : r = <<"listing", l, 0>> /\ u \in On(l)
                    \/ r = <<"faucet", 0, 0>> /\ u \in faucet
                    \/ r = <<"gone", 0, 0>> /\ u \in gone
<1>1. ASSUME NEW r \in Places, u \in Held(r) PROVE In(r)
  BY <1>1, HeldIs, PlaceIs
<1>2. In(p) /\ In(q)
  BY <1>1
<1> QED
  BY <1>2 DEF Apart, InStore, InMail, InHouse

\* At the start every unit is in at most one place.
LEMMA InitApart == Init => EmptyInv /\ \A u \in Units : Apart(u)
<1> SUFFICES ASSUME Init PROVE EmptyInv /\ \A u \in Units : Apart(u)
  OBVIOUS
<1>1. \A m \in MsgIds : mail[m] = NoMail
  BY DEF Init
<1>2. \A l \in ListIds : listing[l] = NoListing
  BY DEF Init
<1>3. EmptyInv
  BY <1>1, <1>2, PlainFacts DEF EmptyInv, On, NoListing
<1>4. ASSUME NEW u \in Units PROVE Apart(u)
  <2>1. ~InMail(u)
    BY <1>1, AttFacts DEF InMail, Att
  <2>2. ~InHouse(u)
    BY <1>2 DEF InHouse, On, NoListing
  <2>3. InStore(u) => u \notin faucet
    BY DEF Init, InStore
  <2>4. gone = {}
    BY DEF Init
  <2>5. \A a, b \in Avatars : \A s, t \in Slots :
            u \in stack[a][s] /\ u \in stack[b][t] => a = b /\ s = t
    BY StockAssumption DEF Init
  <2> QED
    BY <2>1, <2>2, <2>3, <2>4, <2>5 DEF Apart, InMail, InHouse
<1> QED
  BY <1>3, <1>4

ApartInv == TypeOK /\ EmptyInv /\ \A u \in Units : Apart(u)

\* The inductive invariant behind NothingDuplicated.
LEMMA ApartInductive == Spec => []ApartInv
<1>1. Init => ApartInv
  BY InitType, InitApart DEF ApartInv
<1>2. ApartInv /\ [Next]_vars => ApartInv'
  <2> SUFFICES ASSUME ApartInv, [Next]_vars PROVE ApartInv'
    OBVIOUS
  <2>1. CASE UNCHANGED vars
    BY <2>1 DEF vars, goods, ApartInv, TypeOK, EmptyInv, Apart, InStore, InMail, InHouse, Att, On
  <2>2. CASE Next
    <3>1. TypeOK'
      BY <2>2, TypeAuction, TypeMail, TypeGame DEF Next, ApartInv
    <3>2. EmptyInv'
      BY <2>2, EmptyStep DEF ApartInv
    <3>3. ASSUME NEW u \in Units PROVE Apart(u)'
      BY <2>2, ApartAuction, ApartMail, ApartGame DEF Next, ApartInv
    <3> QED
      BY <3>1, <3>2, <3>3 DEF ApartInv
  <2> QED
    BY <2>1, <2>2
<1> QED
  BY <1>1, <1>2, PTL DEF Spec

\* Whatever the web requests, the sweepers, the bot and the game server do to
\* each other, no unit is ever in two rows at once.
THEOREM NothingDuplicated == Spec => []NoDupe
<1>1. ApartInv => NoDupe
  BY ApartMeansNoDupe DEF ApartInv
<1> QED
  BY <1>1, ApartInductive, PTL

-----------------------------------------------------------------------------
(* No loss, as long as the game saves trade_stack equal to stack_level. *)

\* A step that moves no goods loses none.
LEMMA PresentStill ==
  ASSUME NEW u, Present(u), Still
  PROVE  Present(u)'
BY DEF Still, SameStore, SameMail, SameHouse, SamePools, Present, InStore, InMail, InHouse

\* No auction operation loses a unit, as long as trade_stack equals
\* stack_level.
LEMMA PresentAuction ==
  ASSUME TypeOK, EmptyInv, trade = stack, NEW u \in Units, Present(u), Auction
  PROVE  Present(u)'
<1>1. ASSUME NEW a \in Avatars, NEW s \in Slots, NEW us \in SUBSET Units,
             NEW p \in Prices, NEW q \in Prices, NEW l \in ListIds,
             PostListing(a, s, us, p, q, l)
      PROVE  Present(u)'
  <2>1. /\ us \subseteq stack[a][s]
        /\ \A c \in Avatars : \A r \in Slots : stack'[c][r] =
               IF c = a /\ r = s THEN (IF WholeRow(a, s, us) THEN {} ELSE stack[a][s] \ us)
               ELSE stack[c][r]
        /\ PutOn(l, us) /\ SameMail /\ SamePools
    BY <1>1, PostEffect
  <2>2. On(l) = {}
    BY <1>1 DEF PostListing, Open, EmptyInv
  <2>3. WholeRow(a, s, us) => stack[a][s] = us
    BY <2>1 DEF WholeRow
  <2> QED
    BY <2>1, <2>2, <2>3 DEF PutOn, SameMail, SamePools, Present, InStore, InMail, InHouse
<1>2. ASSUME NEW l \in ListIds, ResolveSold(l) \/ ResolveUnsold(l) \/ (\E a \in Avatars : Buyout(a, l))
      PROVE  Present(u)'
  <2>1. PICK i \in MsgIds : Settled(l, i)
    BY <1>2, BuyoutEffect, ResolveEffect
  <2>2. 0 \in Keys
    BY DEF Keys
  <2>3. CASE InHouse(u) /\ u \in On(l)
    BY <2>1, <2>2, <2>3 DEF Settled, Present, InMail
  <2>4. CASE ~(InHouse(u) /\ u \in On(l))
    BY <2>1, <2>4 DEF Settled, SameStore, SamePools, Present, InStore, InMail, InHouse
  <2> QED
    BY <2>3, <2>4
<1>3. ASSUME NEW us \in SUBSET Units, NEW l \in ListIds, BotPostOne(us, l)
      PROVE  Present(u)'
  <2>1. /\ us \subseteq faucet /\ faucet' = faucet \ us /\ gone' = gone
        /\ PutOn(l, us) /\ SameMail /\ SameStore
    BY <1>3, BotPostEffect
  <2>2. On(l) = {}
    BY <1>3 DEF BotPostOne, Open, EmptyInv
  <2> QED
    BY <2>1, <2>2 DEF PutOn, SameMail, SameStore, Present, InStore, InMail, InHouse
<1>4. ASSUME NEW l \in ListIds, Lapse(l) \/ Due(l) \/ BotPlaceBid(l)
                                \/ (\E a \in Avatars : PlaceBid(a, l))
      PROVE  Present(u)'
  BY <1>4, BidEffect, PresentStill
<1> QED
  BY <1>1, <1>2, <1>3, <1>4 DEF Auction

\* No mail or vault operation loses a unit, as long as trade_stack equals
\* stack_level.
LEMMA PresentMail ==
  ASSUME TypeOK, EmptyInv, trade = stack, NEW u \in Units, Present(u), MailAndVault
  PROVE  Present(u)'
<1>1. ASSUME NEW a \in Avatars, NEW b \in Avatars, NEW ss \in SUBSET Vault, SendMail(a, b, ss)
      PROVE  Present(u)'
  <2>1. PICK i \in MsgIds : Sent(a, ss, i)
    BY <1>1, SendEffect
  <2>2. \A k \in ss : k \in Slots /\ k \in Keys
    BY VaultSlot
  <2>3. \A k \in ss : Locked(a, k) = stack[a][k]
    BY DEF Locked
  <2> QED
    BY <2>1, <2>2, <2>3 DEF Sent, SameHouse, SamePools, Present, InStore, InMail, InHouse
<1>2. ASSUME NEW m \in MsgIds, NEW acting, LootCredits(m, acting)
      PROVE  Present(u)'
  BY <1>2, LootCreditsEffect, PresentStill
<1>3. ASSUME NEW m \in MsgIds, NEW k \in Keys, NEW acting \in Avatars \cup {None},
             LootItem(m, k, acting)
      PROVE  Present(u)'
  <2>1. PICK a \in Avatars, s \in Slots : Taken(m, k, a, s)
    BY <1>3, LootItemEffect
  <2> QED
    BY <2>1 DEF Taken, SameHouse, SamePools, Present, InStore, InMail, InHouse
<1>4. ASSUME NEW m \in MsgIds, Discard(m)
      PROVE  Present(u)'
  <2>1. /\ \A n \in MsgIds : \A k \in Keys : Att(n, k)' = IF n = m THEN {} ELSE Att(n, k)
        /\ u \in gone' <=> u \in gone \/ \E k \in Keys : u \in Att(m, k)
        /\ SameStore /\ SameHouse /\ faucet' = faucet
    BY <1>4, DiscardEffect
  <2> QED
    BY <2>1 DEF SameStore, SameHouse, Present, InStore, InMail, InHouse
<1>5. ASSUME NEW a \in Avatars, NEW b \in Avatars, NEW s \in Vault, TransferVaultItem(a, b, s)
      PROVE  Present(u)'
  <2>1. PICK t \in Slots : Moved(a, s, b, t)
    BY <1>5, TransferEffect
  <2>2. Locked(a, s) = stack[a][s]
    BY DEF Locked
  <2>3. InStore(u) => InStore(u)'
    BY <2>1, <2>2 DEF Moved, InStore
  <2> QED
    BY <2>1, <2>3 DEF Moved, SameMail, SameHouse, SamePools, Present, InMail, InHouse
<1> QED
  BY <1>1, <1>2, <1>3, <1>4, <1>5 DEF MailAndVault, DeleteMessage, SweepExpiredMail

\* No step of the game server loses a unit.
LEMMA PresentGame ==
  ASSUME TypeOK, NEW u \in Units, Present(u), Game
  PROVE  Present(u)'
<1>1. ASSUME NEW a, NEW s, NEW us, HandleLogin(a) \/ HandleLogout(a) \/ SpendTradeXP(a, s, us)
      PROVE  Present(u)'
  BY <1>1, GameStill, PresentStill
<1>2. ASSUME NEW a \in Avatars, NEW s \in Slots, NEW t \in Slots, UpsertInventorySlot(a, s, t)
      PROVE  Present(u)'
  <2>1. /\ \A c \in Avatars : \A r \in Slots : stack'[c][r] =
               IF c = a /\ r = t THEN stack[a][s]
               ELSE IF c = a /\ r = s THEN stack[a][t] ELSE stack[c][r]
        /\ SameMail /\ SameHouse /\ SamePools
    BY <1>2, SwapEffect
  <2>2. InStore(u) => InStore(u)'
    BY <2>1 DEF InStore
  <2> QED
    BY <2>1, <2>2 DEF SameMail, SameHouse, SamePools, Present, InMail, InHouse
<1>3. ASSUME NEW a \in Avatars, DeleteCharacter(a)
      PROVE  Present(u)'
  <2>1. /\ \A c \in Avatars : \A r \in Slots : stack'[c][r] = IF c = a THEN {} ELSE stack[c][r]
        /\ u \in gone' <=> u \in gone \/ \E s \in Slots : u \in stack[a][s]
        /\ SameMail /\ SameHouse /\ faucet' = faucet
    BY <1>3, DeleteEffect
  <2> QED
    BY <2>1 DEF SameMail, SameHouse, Present, InStore, InMail, InHouse
<1> QED
  BY <1>1, <1>2, <1>3 DEF Game

\* Every unit being in some place is the NothingLost of the runs.
LEMMA PresentMeansNothingLost ==
  ASSUME \A u \in Units : Present(u)
  PROVE  NothingLost
<1> SUFFICES ASSUME NEW u \in Units PROVE \E p \in Places : u \in Held(p)
  BY DEF NothingLost
<1>1. CASE InStore(u)
  <2>1. PICK a \in Avatars, s \in Slots : u \in stack[a][s]
    BY <1>1 DEF InStore
  <2>2. <<"slot", a, s>> \in Places
    BY DEF Places
  <2> QED
    BY <2>1, <2>2, HeldIs
<1>2. CASE InMail(u)
  <2>1. PICK m \in MsgIds, k \in Keys : u \in Att(m, k)
    BY <1>2 DEF InMail
  <2>2. <<"mail", m, k>> \in Places
    BY DEF Places
  <2> QED
    BY <2>1, <2>2, HeldIs
<1>3. CASE InHouse(u)
  <2>1. PICK l \in ListIds : u \in On(l)
    BY <1>3 DEF InHouse
  <2>2. <<"listing", l, 0>> \in Places
    BY DEF Places
  <2> QED
    BY <2>1, <2>2, HeldIs
<1>4. CASE u \in faucet \/ u \in gone
  <2>1. <<"faucet", 0, 0>> \in Places /\ <<"gone", 0, 0>> \in Places
    BY DEF Places
  <2> QED
    BY <1>4, <2>1, HeldIs
<1> QED
  BY <1>1, <1>2, <1>3, <1>4 DEF Present

\* The two counts of a row stay equal: every operation writes them alike.
LEMMA SameCounts ==
  ASSUME ~XpSpent, trade = stack, Next
  PROVE  trade' = stack'
<1>1. ASSUME UNCHANGED <<stack, trade>> PROVE trade' = stack'
  BY <1>1
<1>2. CASE Auction
  <2>1. ASSUME NEW a, NEW s, NEW us, NEW p, NEW q, NEW l, PostListing(a, s, us, p, q, l)
        PROVE  trade' = stack'
    BY <2>1 DEF PostListing
  <2>2. ASSUME NEW l, \/ ResolveSold(l) \/ ResolveUnsold(l) \/ Lapse(l) \/ Due(l) \/ BotPlaceBid(l)
                      \/ \E a \in Avatars : PlaceBid(a, l) \/ Buyout(a, l)
                      \/ \E us \in SUBSET Units : BotPostOne(us, l)
        PROVE  UNCHANGED <<stack, trade>>
    BY <2>2 DEF PlaceBid, Buyout, ResolveSold, ResolveUnsold, Lapse, Due, BotPlaceBid, BotPostOne, goods
  <2> QED
    BY <1>1, <1>2, <2>1, <2>2 DEF Auction
<1>3. CASE MailAndVault
  <2>1. ASSUME NEW a, NEW b, NEW ss, SendMail(a, b, ss) PROVE trade' = stack'
    BY <2>1 DEF SendMail
  <2>2. ASSUME NEW m, NEW k, NEW acting, LootItem(m, k, acting) PROVE trade' = stack'
    BY <2>2 DEF LootItem, InsertItem
  <2>3. ASSUME NEW a, NEW b, NEW s, TransferVaultItem(a, b, s) PROVE trade' = stack'
    BY <2>3 DEF TransferVaultItem
  <2>4. ASSUME NEW m, NEW acting, LootCredits(m, acting) \/ Discard(m)
        PROVE  UNCHANGED <<stack, trade>>
    BY <2>4 DEF LootCredits, Discard, goods
  <2> QED
    BY <1>1, <1>3, <2>1, <2>2, <2>3, <2>4 DEF MailAndVault, DeleteMessage, SweepExpiredMail
<1>4. CASE Game
  <2>1. ASSUME NEW a, NEW s, NEW t, UpsertInventorySlot(a, s, t) PROVE trade' = stack'
    BY <2>1 DEF UpsertInventorySlot
  <2>2. ASSUME NEW a, DeleteCharacter(a) PROVE trade' = stack'
    BY <2>2 DEF DeleteCharacter
  <2>3. ASSUME NEW a, HandleLogin(a) \/ HandleLogout(a) PROVE UNCHANGED <<stack, trade>>
    BY <2>3 DEF HandleLogin, HandleLogout, goods
  <2>4. \A a, s, us : ~SpendTradeXP(a, s, us)
    BY DEF SpendTradeXP
  <2> QED
    BY <1>1, <1>4, <2>1, <2>2, <2>3, <2>4 DEF Game
<1> QED
  BY <1>2, <1>3, <1>4 DEF Next

PresentInv == trade = stack /\ \A u \in Units : Present(u)

\* As long as the game never saves a trade_stack below the stack_level, a unit is
\* always in some row: requests, sweeps and saves lose nothing.
THEOREM NoUnitVanishes == ASSUME XpSpent = FALSE PROVE Spec => []NothingLost
<1>1. Init => PresentInv
  BY DEF Init, PresentInv, Present, InStore
<1>2. ApartInv /\ PresentInv /\ [Next]_vars => PresentInv'
  <2> SUFFICES ASSUME ApartInv, PresentInv, [Next]_vars PROVE PresentInv'
    OBVIOUS
  <2>1. CASE UNCHANGED vars
    BY <2>1 DEF vars, goods, PresentInv, Present, InStore, InMail, InHouse, Att, On
  <2>2. CASE Next
    <3>1. trade' = stack'
      BY <2>2, SameCounts DEF PresentInv
    <3>2. ASSUME NEW u \in Units PROVE Present(u)'
      BY <2>2, PresentAuction, PresentMail, PresentGame DEF Next, ApartInv, PresentInv
    <3> QED
      BY <3>1, <3>2 DEF PresentInv
  <2> QED
    BY <2>1, <2>2
<1>3. PresentInv => NothingLost
  BY PresentMeansNothingLost DEF PresentInv
<1> QED
  BY <1>1, <1>2, <1>3, ApartInductive, PTL DEF Spec

-----------------------------------------------------------------------------
(* No-trade goods. *)

\* The account of avatar a still stores u.
Stored(u, a) == \E b \in Avatars : Owner[b] = Owner[a] /\ \E t \in Slots : u \in stack[b][t]

\* A no-trade unit stays in its avatar's rows or is destroyed with them.
LEMMA StoredStep ==
  ASSUME TypeOK, EmptyInv, trade = stack, Next, NEW u \in NoTrade, NEW x \in Avatars, Stored(u, x)
  PROVE  Stored(u, x)' \/ u \in gone'
<1>1. PICK y \in Avatars, z \in Slots : Owner[y] = Owner[x] /\ u \in stack[y][z]
  BY DEF Stored
<1>2. ASSUME u \in stack'[y][z] PROVE Stored(u, x)'
  BY <1>1, <1>2 DEF Stored
<1>3. CASE Auction
  <2>1. ASSUME NEW a \in Avatars, NEW s \in Slots, NEW us \in SUBSET Units,
               NEW p \in Prices, NEW q \in Prices, NEW l \in ListIds,
               PostListing(a, s, us, p, q, l)
        PROVE  u \in stack'[y][z]
    <3>1. u \notin us
      BY <2>1 DEF PostListing
    <3>2. /\ us \subseteq stack[a][s]
          /\ \A c \in Avatars : \A r \in Slots : stack'[c][r] =
                 IF c = a /\ r = s THEN (IF WholeRow(a, s, us) THEN {} ELSE stack[a][s] \ us)
                 ELSE stack[c][r]
          /\ PutOn(l, us) /\ SameMail /\ SamePools
      BY <2>1, PostEffect
    <3> QED
      BY <1>1, <3>1, <3>2 DEF WholeRow
  <2>2. ASSUME NEW l \in ListIds,
               \/ ResolveSold(l) \/ ResolveUnsold(l) \/ Lapse(l) \/ Due(l) \/ BotPlaceBid(l)
               \/ \E a \in Avatars : PlaceBid(a, l) \/ Buyout(a, l)
               \/ \E us \in SUBSET Units : BotPostOne(us, l)
        PROVE  stack' = stack
    BY <2>2 DEF PlaceBid, Buyout, ResolveSold, ResolveUnsold, Lapse, Due, BotPlaceBid, BotPostOne, goods
  <2> QED
    BY <1>1, <1>2, <1>3, <2>1, <2>2 DEF Auction
<1>4. CASE MailAndVault
  <2>1. ASSUME NEW a \in Avatars, NEW b \in Avatars, NEW ss \in SUBSET Vault, SendMail(a, b, ss)
        PROVE  u \in stack'[y][z]
    <3>1. ~(y = a /\ z \in ss)
      BY <1>1, <2>1 DEF SendMail
    <3>2. PICK i \in MsgIds : Sent(a, ss, i)
      BY <2>1, SendEffect
    <3> QED
      BY <1>1, <3>1, <3>2 DEF Sent
  <2>2. ASSUME NEW m \in MsgIds, NEW k \in Keys, NEW acting \in Avatars \cup {None},
               LootItem(m, k, acting)
        PROVE  u \in stack'[y][z]
    <3>1. PICK a \in Avatars, s \in Slots : Taken(m, k, a, s)
      BY <2>2, LootItemEffect
    <3> QED
      BY <1>1, <3>1 DEF Taken
  <2>3. ASSUME NEW a \in Avatars, NEW b \in Avatars, NEW s \in Vault, TransferVaultItem(a, b, s)
        PROVE  Stored(u, x)'
    <3>1. PICK t \in Slots : Moved(a, s, b, t)
      BY <2>3, TransferEffect
    <3>2. Owner[a] = Owner[b] /\ Locked(a, s) = stack[a][s]
      BY <2>3 DEF TransferVaultItem, Locked
    <3>3. CASE y = a /\ z = s
      <4>1. u \in stack'[b][t] /\ Owner[b] = Owner[x]
        BY <1>1, <3>1, <3>2, <3>3 DEF Moved
      <4> QED
        BY <4>1 DEF Stored
    <3>4. CASE ~(y = a /\ z = s)
      <4>1. u \in stack'[y][z]
        BY <1>1, <3>1, <3>4 DEF Moved
      <4> QED
        BY <1>2, <4>1
    <3> QED
      BY <3>3, <3>4
  <2>4. ASSUME NEW m, NEW acting, LootCredits(m, acting) \/ Discard(m)
        PROVE  stack' = stack
    BY <2>4 DEF LootCredits, Discard, goods
  <2> QED
    BY <1>1, <1>2, <1>4, <2>1, <2>2, <2>3, <2>4 DEF MailAndVault, DeleteMessage, SweepExpiredMail
<1>5. CASE Game
  <2>1. ASSUME NEW a \in Avatars, NEW s \in Slots, NEW t \in Slots, UpsertInventorySlot(a, s, t)
        PROVE  Stored(u, x)'
    <3>1. /\ \A c \in Avatars : \A r \in Slots : stack'[c][r] =
                 IF c = a /\ r = t THEN stack[a][s]
                 ELSE IF c = a /\ r = s THEN stack[a][t] ELSE stack[c][r]
          /\ SameMail /\ SameHouse /\ SamePools
      BY <2>1, SwapEffect
    <3>2. \E r \in Slots : u \in stack'[y][r]
      BY <1>1, <3>1
    <3> QED
      BY <1>1, <3>2 DEF Stored
  <2>2. ASSUME NEW a \in Avatars, DeleteCharacter(a) PROVE Stored(u, x)' \/ u \in gone'
    <3>1. /\ stack'[y][z] = IF y = a THEN {} ELSE stack[y][z]
          /\ u \in gone' <=> u \in gone \/ \E s \in Slots : u \in stack[a][s]
      BY <2>2, DeleteEffect
    <3> QED
      BY <1>1, <1>2, <3>1
  <2>3. ASSUME NEW a, NEW s, NEW us, HandleLogin(a) \/ HandleLogout(a) \/ SpendTradeXP(a, s, us)
        PROVE  stack' = stack
    BY <2>3 DEF HandleLogin, HandleLogout, SpendTradeXP, goods
  <2> QED
    BY <1>1, <1>2, <1>5, <2>1, <2>2, <2>3 DEF Game
<1> QED
  BY <1>3, <1>4, <1>5 DEF Next

\* No step brings a destroyed unit back.
LEMMA GoneForGood ==
  ASSUME Next
  PROVE  gone \subseteq gone'
<1>1. CASE Auction
  <2>1. ASSUME NEW a, NEW s, NEW us, NEW p, NEW q, NEW l, PostListing(a, s, us, p, q, l)
        PROVE  gone' = gone
    BY <2>1 DEF PostListing
  <2>2. ASSUME NEW l, \/ ResolveSold(l) \/ ResolveUnsold(l) \/ Lapse(l) \/ Due(l) \/ BotPlaceBid(l)
                      \/ \E a \in Avatars : PlaceBid(a, l) \/ Buyout(a, l)
                      \/ \E us \in SUBSET Units : BotPostOne(us, l)
        PROVE  gone' = gone
    BY <2>2 DEF PlaceBid, Buyout, ResolveSold, ResolveUnsold, Lapse, Due, BotPlaceBid, BotPostOne, goods
  <2> QED
    BY <1>1, <2>1, <2>2 DEF Auction
<1>2. CASE MailAndVault
  BY <1>2 DEF MailAndVault, SendMail, LootItem, TransferVaultItem, LootCredits, Discard,
     DeleteMessage, SweepExpiredMail, goods
<1>3. CASE Game
  BY <1>3 DEF Game, UpsertInventorySlot, DeleteCharacter, HandleLogin, HandleLogout,
     SpendTradeXP, goods
<1> QED
  BY <1>1, <1>2, <1>3 DEF Next

\* No chain of transfers, listings, mails and loots moves a no-trade unit out of
\* the account it started in; only deleting its avatar removes it.
THEOREM NoTradeKept == ASSUME XpSpent = FALSE PROVE Spec => []NoTradeStays
<1> DEFINE I == trade = stack /\ NoTradeStays
<1>1. Init => I
  BY DEF Init, NoTradeStays
<1>2. ApartInv /\ I /\ [Next]_vars => I'
  <2> SUFFICES ASSUME ApartInv, I, [Next]_vars PROVE I'
    OBVIOUS
  <2>1. CASE UNCHANGED vars
    BY <2>1 DEF vars, goods, NoTradeStays
  <2>2. CASE Next
    <3>1. trade' = stack'
      BY <2>2, SameCounts
    <3>2. ASSUME NEW a \in Avatars, NEW s \in Slots, NEW u \in NoTrade \cap Stock[a][s]
          PROVE  u \in gone' \/ Stored(u, a)'
      <4>1. u \in gone \/ Stored(u, a)
        BY DEF NoTradeStays, Stored
      <4> QED
        BY <2>2, <4>1, GoneForGood, StoredStep DEF ApartInv
    <3> QED
      BY <3>1, <3>2 DEF NoTradeStays, Stored
  <2> QED
    BY <2>1, <2>2
<1>3. I => NoTradeStays
  OBVIOUS
<1> QED
  BY <1>1, <1>2, <1>3, ApartInductive, PTL DEF Spec

-----------------------------------------------------------------------------
(* The game's authority over the avatars that are online, and bids. *)

Untouched(x) == wallet'[x] = wallet[x] /\ \A u : (\E s \in Slots : u \in stack'[x][s])
                                                  <=> (\E s \in Slots : u \in stack[x][s])

\* No step changes the wallet of an avatar that is online, or the units its
\* rows hold taken together.
LEMMA UntouchedStep ==
  ASSUME TypeOK, Next, NEW x \in online
  PROVE  Untouched(x)
<1>0. x \in Avatars /\ x \in live
  BY DEF TypeOK
<1>1. ASSUME NEW a \in Avatars, a # x, NEW n, Debit(a, n) PROVE wallet'[x] = wallet[x]
  BY <1>0, <1>1 DEF Debit, TypeOK
<1>2. ASSUME NEW a \in Avatars, MayAct(a) PROVE a # x
  BY <1>2 DEF MayAct
<1>3. ASSUME wallet'[x] = wallet[x], \A s \in Slots : stack'[x][s] = stack[x][s] PROVE Untouched(x)
  BY <1>3 DEF Untouched
<1>4. CASE Auction
  <2>1. ASSUME NEW a \in Avatars, NEW s \in Slots, NEW us \in SUBSET Units,
               NEW p \in Prices, NEW q \in Prices, NEW l \in ListIds,
               PostListing(a, s, us, p, q, l)
        PROVE  Untouched(x)
    <3>1. /\ us \subseteq stack[a][s]
          /\ \A c \in Avatars : \A r \in Slots : stack'[c][r] =
                 IF c = a /\ r = s THEN (IF WholeRow(a, s, us) THEN {} ELSE stack[a][s] \ us)
                 ELSE stack[c][r]
          /\ PutOn(l, us) /\ SameMail /\ SamePools
      BY <2>1, PostEffect
    <3>2. a # x /\ Debit(a, Deposit(Value(us)))
      BY <1>2, <2>1 DEF PostListing
    <3>3. wallet'[x] = wallet[x]
      BY <1>1, <3>2
    <3> QED
      BY <1>0, <1>3, <3>1, <3>2, <3>3
  <2>2. ASSUME NEW a \in Avatars, NEW l \in ListIds, PlaceBid(a, l) \/ Buyout(a, l)
        PROVE  Untouched(x)
    <3>1. a # x /\ stack' = stack
      BY <1>2, <2>2 DEF PlaceBid, Buyout, goods
    <3>2. wallet'[x] = wallet[x]
      BY <1>1, <2>2, <3>1 DEF PlaceBid, Buyout
    <3> QED
      BY <1>3, <3>1, <3>2
  <2>3. ASSUME NEW l \in ListIds, \/ ResolveSold(l) \/ ResolveUnsold(l) \/ Lapse(l) \/ Due(l)
                                  \/ BotPlaceBid(l) \/ \E us \in SUBSET Units : BotPostOne(us, l)
        PROVE  UNCHANGED <<wallet, stack>>
    BY <2>3 DEF ResolveSold, ResolveUnsold, Lapse, Due, BotPlaceBid, BotPostOne, goods
  <2> QED
    BY <1>3, <1>4, <2>1, <2>2, <2>3 DEF Auction
<1>5. CASE MailAndVault
  <2>1. ASSUME NEW a \in Avatars, NEW b \in Avatars, NEW ss \in SUBSET Vault, SendMail(a, b, ss)
        PROVE  Untouched(x)
    <3>1. PICK i \in MsgIds : Sent(a, ss, i)
      BY <2>1, SendEffect
    <3>2. a # x /\ wallet' = wallet
      BY <1>2, <2>1 DEF SendMail
    <3>3. \A r \in Slots : stack'[x][r] = stack[x][r]
      BY <1>0, <3>1, <3>2 DEF Sent
    <3> QED
      BY <1>3, <3>2, <3>3
  <2>2. ASSUME NEW m \in MsgIds, NEW acting, LootCredits(m, acting)
        PROVE  Untouched(x)
    <3>1. PICK a \in live : a \notin online /\ wallet' = [wallet EXCEPT ![a] = @ + mail[m].credits]
      BY <2>2, LootTargetType DEF LootCredits
    <3>2. wallet'[x] = wallet[x]
      BY <1>0, <3>1 DEF TypeOK
    <3>3. stack' = stack
      BY <2>2 DEF LootCredits, goods
    <3> QED
      BY <1>3, <3>2, <3>3
  <2>3. ASSUME NEW m \in MsgIds, NEW k \in Keys, NEW acting \in Avatars \cup {None},
               LootItem(m, k, acting)
        PROVE  Untouched(x)
    <3>1. PICK a \in live : /\ a \notin online
                            /\ \E s \in FirstFree(a) : stack' = PutRow(stack, a, s, mail[m].items[k])
      BY <2>3, LootTargetType DEF LootItem, InsertItem
    <3>2. PICK s \in FirstFree(a) : stack' = PutRow(stack, a, s, mail[m].items[k])
      BY <3>1
    <3>3. \A r \in Slots : stack'[x][r] = stack[x][r]
      BY <1>0, <3>1, <3>2 DEF PutRow, TypeOK
    <3>4. wallet' = wallet
      BY <2>3 DEF LootItem
    <3> QED
      BY <1>3, <3>3, <3>4
  <2>4. ASSUME NEW m \in MsgIds, Discard(m) PROVE UNCHANGED <<wallet, stack>>
    BY <2>4 DEF Discard
  <2>5. ASSUME NEW a \in Avatars, NEW b \in Avatars, NEW s \in Vault, TransferVaultItem(a, b, s)
        PROVE  Untouched(x)
    <3>1. PICK t \in Slots : Moved(a, s, b, t)
      BY <2>5, TransferEffect
    <3>2. a # x /\ b # x /\ wallet' = wallet
      BY <1>2, <2>5 DEF TransferVaultItem
    <3>3. \A r \in Slots : stack'[x][r] = stack[x][r]
      BY <1>0, <3>1, <3>2 DEF Moved
    <3> QED
      BY <1>3, <3>2, <3>3
  <2> QED
    BY <1>3, <1>5, <2>1, <2>2, <2>3, <2>4, <2>5 DEF MailAndVault, DeleteMessage, SweepExpiredMail
<1>6. CASE Game
  <2>1. ASSUME NEW a \in Avatars, NEW s \in Slots, NEW t \in Slots, UpsertInventorySlot(a, s, t)
        PROVE  Untouched(x)
    <3>1. /\ \A c \in Avatars : \A r \in Slots : stack'[c][r] =
                 IF c = a /\ r = t THEN stack[a][s]
                 ELSE IF c = a /\ r = s THEN stack[a][t] ELSE stack[c][r]
          /\ SameMail /\ SameHouse /\ SamePools
      BY <2>1, SwapEffect
    <3>2. wallet' = wallet
      BY <2>1 DEF UpsertInventorySlot
    <3> QED
      BY <1>0, <3>1, <3>2 DEF Untouched
  <2>2. ASSUME NEW a \in Avatars, DeleteCharacter(a) PROVE Untouched(x)
    <3>1. \A c \in Avatars : \A r \in Slots : stack'[c][r] = IF c = a THEN {} ELSE stack[c][r]
      BY <2>2, DeleteEffect
    <3>2. a # x
      BY <2>2 DEF DeleteCharacter
    <3>3. wallet'[x] = wallet[x]
      BY <1>0, <2>2, <3>2 DEF DeleteCharacter, TypeOK
    <3> QED
      BY <1>0, <1>3, <3>1, <3>2, <3>3
  <2>3. ASSUME NEW a, NEW s, NEW us, HandleLogin(a) \/ HandleLogout(a) \/ SpendTradeXP(a, s, us)
        PROVE  UNCHANGED <<wallet, stack>>
    BY <2>3 DEF HandleLogin, HandleLogout, SpendTradeXP, goods
  <2> QED
    BY <1>3, <1>6, <2>1, <2>2, <2>3 DEF Game
<1> QED
  BY <1>4, <1>5, <1>6 DEF Next

\* While the game holds an avatar in memory, no request, settlement, sweep or
\* loot changes its credits or what it carries.
THEOREM GameIsAuthority == Spec => OnlineUntouched
<1>1. ASSUME NEW x, Untouched(x) PROVE wallet'[x] = wallet[x] /\ Carried(x)' = Carried(x)
  BY <1>1 DEF Untouched, Carried
<1>2. TypeOK /\ [Next]_vars =>
          [\A a \in online : wallet'[a] = wallet[a] /\ Carried(a)' = Carried(a)]_vars
  BY <1>1, UntouchedStep
<1> QED
  BY <1>2, MarketTypeCorrect, PTL DEF Spec, OnlineUntouched

\* A step that replaces the standing bidder of an open listing raises the bid.
LEMMA BidStep ==
  ASSUME TypeOK, Next, NEW x \in Open
  PROVE  (listing'[x].active /\ listing[x].bidder \notin {None, listing'[x].bidder}) =>
             listing'[x].bid > listing[x].bid
<1> DEFINE Goal == (listing'[x].active /\ listing[x].bidder \notin {None, listing'[x].bidder}) =>
                       listing'[x].bid > listing[x].bid
<1>0. x \in ListIds /\ listing[x] \in ListingType
  BY DEF Open, TypeOK
<1>1. ASSUME listing'[x] = listing[x] PROVE Goal
  BY <1>1
<1>2. ASSUME NEW l \in ListIds, NEW r, listing' = [listing EXCEPT ![l] = r], l # x PROVE Goal
  <2>1. listing'[x] = listing[x]
    BY <1>0, <1>2 DEF TypeOK
  <2> QED
    BY <1>1, <2>1
<1>3. CASE Auction
  <2>1. ASSUME NEW l \in ListIds, l \notin Open, NEW acct, NEW us, NEW v, NEW start, NEW buyout,
               NEW deposit, PutUp(l, acct, us, v, start, buyout, deposit)
        PROVE  Goal
    <3>1. listing'[x] = listing[x]
      BY <1>0, <2>1 DEF PutUp, TypeOK
    <3> QED
      BY <1>1, <3>1
  <2>2. ASSUME NEW a \in Avatars, NEW s \in Slots, NEW us \in SUBSET Units,
               NEW p \in Prices, NEW q \in Prices, NEW l \in ListIds,
               PostListing(a, s, us, p, q, l)
        PROVE  Goal
    BY <2>1, <2>2 DEF PostListing
  <2>3. ASSUME NEW us \in SUBSET Units, NEW l \in ListIds, BotPostOne(us, l) PROVE Goal
    BY <2>1, <2>3 DEF BotPostOne
  <2>4. ASSUME NEW a \in Avatars, NEW l \in ListIds, PlaceBid(a, l) PROVE Goal
    <3>1. CASE l # x
      BY <1>2, <2>4, <3>1 DEF PlaceBid
    <3>2. CASE l = x
      <4>1. listing'[x].bid = NextBid(x)
        BY <1>0, <2>4, <3>2 DEF PlaceBid, TypeOK, ListingType
      <4>2. MinIncrement(listing[x].value) \in Nat /\ MinIncrement(listing[x].value) >= 1
        BY <1>0, AmountTypes DEF ListingType
      <4>3. listing[x].bid \in Nat
        BY <1>0 DEF ListingType
      <4> QED
        BY <4>1, <4>2, <4>3 DEF NextBid
    <3> QED
      BY <3>1, <3>2
  <2>5. ASSUME NEW l \in ListIds, listing' = [listing EXCEPT ![l] = NoListing] PROVE Goal
    <3>1. CASE l # x
      BY <1>2, <2>5, <3>1
    <3>2. CASE l = x
      <4>1. listing'[x] = NoListing
        BY <1>0, <2>5, <3>2 DEF TypeOK
      <4> QED
        BY <4>1 DEF NoListing
    <3> QED
      BY <3>1, <3>2
  <2>6. ASSUME NEW l \in ListIds, Lapse(l) \/ Due(l) PROVE Goal
    <3>1. CASE l # x
      <4>1. listing'[x] = listing[x]
        BY <1>0, <2>6, <3>1 DEF Lapse, Due, TypeOK
      <4> QED
        BY <1>1, <4>1
    <3>2. CASE l = x
      <4>1. listing'[x].bidder = listing[x].bidder
        BY <1>0, <2>6, <3>2 DEF Lapse, Due, TypeOK, ListingType
      <4> QED
        BY <4>1
    <3> QED
      BY <3>1, <3>2
  <2>7. ASSUME NEW l \in ListIds, BotPlaceBid(l) PROVE Goal
    BY <1>2, <2>7 DEF BotPlaceBid
  <2> QED
    BY <1>3, <2>2, <2>3, <2>4, <2>5, <2>6, <2>7 DEF Auction, Buyout, ResolveSold, ResolveUnsold
<1>4. CASE MailAndVault \/ Game
  <2>1. listing' = listing
    BY <1>4 DEF MailAndVault, Game, SendMail, LootCredits, LootItem, DeleteMessage, SweepExpiredMail,
       Discard, TransferVaultItem, HandleLogin, HandleLogout, UpsertInventorySlot, SpendTradeXP,
       DeleteCharacter
  <2> QED
    BY <1>1, <2>1
<1> QED
  BY <1>3, <1>4 DEF Next

\* On one listing each bid is higher than the one it beats, whatever the value of
\* the goods and whoever bids, the bot included.
THEOREM EachBidHigher == Spec => BidsRise
<1>1. TypeOK /\ [Next]_vars =>
          [\A l \in Open :
              (listing'[l].active /\ listing[l].bidder \notin {None, listing'[l].bidder}) =>
                  listing'[l].bid > listing[l].bid]_vars
  BY BidStep
<1> QED
  BY <1>1, MarketTypeCorrect, PTL DEF Spec, BidsRise

-----------------------------------------------------------------------------
(* Settlements.  A message is delivered at all only if it carries something,  *)
(* so a refund reaches its bidder because no open listing has a bid of 0, and *)
(* a payment its seller because every open listing has one.                   *)

Sound(x) == x.active => x.seller # None /\ x.start >= 1 /\ x.bid >= 1
HouseInv == \A l \in ListIds : Sound(listing[l])

\* What HouseInv asks of a new listing, whoever posts it, holds.
LEMMA NewSound ==
  ASSUME TypeOK, HouseInv, NEW l \in ListIds, NEW acct \in Nat \ {None}, NEW us, NEW v,
         NEW start \in Nat \ {0}, NEW buyout, NEW deposit,
         PutUp(l, acct, us, v, start, buyout, deposit)
  PROVE  HouseInv'
<1>1. \A k \in ListIds : k # l => listing'[k] = listing[k]
  BY DEF PutUp, TypeOK
<1>2. listing'[l].seller = acct /\ listing'[l].start = start /\ listing'[l].bid = start
  BY DEF PutUp, TypeOK
<1>3. start >= 1
  OBVIOUS
<1> QED
  BY <1>1, <1>2, <1>3 DEF HouseInv, Sound

\* Every operation keeps the open listings sound.
LEMMA HouseStep ==
  ASSUME TypeOK, HouseInv, [Next]_vars
  PROVE  HouseInv'
<1>1. ASSUME listing' = listing PROVE HouseInv'
  BY <1>1 DEF HouseInv
<1>2. ASSUME NEW l \in ListIds, NEW r, Sound(r), listing' = [listing EXCEPT ![l] = r]
      PROVE  HouseInv'
  BY <1>2 DEF HouseInv, TypeOK
<1>3. ASSUME NEW a \in Avatars, NEW s \in Slots, NEW us \in SUBSET Units,
             NEW p \in Prices, NEW q \in Prices, NEW l \in ListIds,
             PostListing(a, s, us, p, q, l)
      PROVE  HouseInv'
  <2>1. (IF p < 1 THEN 1 ELSE p) \in Nat \ {0}
    BY PriceAssumption
  <2>2. Owner[a] \in Nat \ {None}
    BY AvatarAssumption
  <2> QED
    BY <1>3, <2>1, <2>2, NewSound DEF PostListing
<1>4. ASSUME NEW us \in SUBSET Units, NEW l \in ListIds, BotPostOne(us, l) PROVE HouseInv'
  <2>1. BotStart(Value(us)) \in Nat \ {0}
    BY ValueType, AmountTypes
  <2>2. Bot \in Nat \ {None}
    BY AvatarAssumption
  <2> QED
    BY <1>4, <2>1, <2>2, NewSound DEF BotPostOne
<1>5. ASSUME NEW a \in Avatars, NEW l \in ListIds, PlaceBid(a, l) PROVE HouseInv'
  <2> DEFINE r == [listing[l] EXCEPT !.bid = NextBid(l), !.bidder = Owner[a]]
  <2>1. listing[l] \in ListingType /\ Sound(listing[l]) /\ listing[l].active
    BY <1>5 DEF TypeOK, HouseInv, PlaceBid, Open
  <2>2. MinIncrement(listing[l].value) \in Nat
    BY <2>1, AmountTypes DEF ListingType
  <2>3. NextBid(l) >= 1
    BY <2>1, <2>2 DEF NextBid, Sound, ListingType
  <2>4. Sound(r)
    BY <2>1, <2>3 DEF Sound, ListingType
  <2>5. listing' = [listing EXCEPT ![l] = r]
    BY <1>5 DEF PlaceBid
  <2> QED
    BY <1>2, <2>4, <2>5
<1>6. ASSUME NEW l \in ListIds, BotPlaceBid(l) PROVE HouseInv'
  <2> DEFINE r == [listing[l] EXCEPT !.bid = listing[l].start, !.bidder = Bot]
  <2>1. listing[l] \in ListingType /\ Sound(listing[l]) /\ listing[l].active
    BY <1>6 DEF TypeOK, HouseInv, BotPlaceBid, Open
  <2>2. Sound(r)
    BY <2>1 DEF Sound, ListingType
  <2>3. listing' = [listing EXCEPT ![l] = r]
    BY <1>6 DEF BotPlaceBid
  <2> QED
    BY <1>2, <2>2, <2>3
<1>7. ASSUME NEW l \in ListIds, Lapse(l) \/ Due(l) PROVE HouseInv'
  <2>1. listing[l] \in ListingType /\ Sound(listing[l])
    BY DEF TypeOK, HouseInv
  <2>2. PICK r : listing' = [listing EXCEPT ![l] = r] /\ Sound(r)
    BY <1>7, <2>1 DEF Lapse, Due, Sound, ListingType
  <2> QED
    BY <1>2, <2>2
<1>8. ASSUME NEW l \in ListIds, listing' = [listing EXCEPT ![l] = NoListing] PROVE HouseInv'
  <2>1. Sound(NoListing)
    BY DEF Sound, NoListing
  <2> QED
    BY <1>2, <1>8, <2>1
<1>9. CASE Auction
  BY <1>3, <1>4, <1>5, <1>6, <1>7, <1>8, <1>9 DEF Auction, Buyout, ResolveSold, ResolveUnsold
<1>10. CASE MailAndVault \/ Game \/ UNCHANGED vars
  <2>1. listing' = listing
    BY <1>10 DEF MailAndVault, Game, SendMail, LootCredits, LootItem, DeleteMessage, SweepExpiredMail,
       Discard, TransferVaultItem, HandleLogin, HandleLogout, UpsertInventorySlot, SpendTradeXP,
       DeleteCharacter, vars
  <2> QED
    BY <1>1, <2>1
<1> QED
  BY <1>9, <1>10 DEF Next

\* No open listing is without a seller, or has a bid that a refund would drop.
LEMMA HouseSound == Spec => [](TypeOK /\ HouseInv)
<1>1. Init => HouseInv
  BY DEF Init, HouseInv, Sound, NoListing
<1>2. TypeOK /\ HouseInv /\ [Next]_vars => HouseInv'
  BY HouseStep
<1> QED
  BY <1>1, <1>2, MarketTypeCorrect, PTL DEF Spec

\* The message that pays an account, and the one that carries goods to it.
Paid(acct, n) == \E m \in MsgIds : NewMail(m) /\ mail'[m].acct = acct /\ mail'[m].credits = n
Shipped(acct, us) == \E m \in MsgIds : NewMail(m) /\ mail'[m].acct = acct /\ mail'[m].items[0] = us

\* A message written under an unused number is a new one, and says what it carries.
LEMMA Delivered ==
  ASSUME NEW m \in MsgIds, mail[m] = NoMail, NEW acct \in Nat \ {None}
  PROVE  /\ \A n \in Nat \ {0} : mail'[m] = CreditMail(acct, n) => Paid(acct, n)
         /\ \A to, us : mail'[m] = ItemMail(acct, to, us) => Shipped(acct, us)
<1>1. NoMail.acct = None
  BY DEF NoMail
<1>2. \A n \in Nat \ {0} : CreditMail(acct, n).acct = acct /\ CreditMail(acct, n).credits = n
  BY DEF CreditMail, NoMail
<1>3. \A to, us : ItemMail(acct, to, us).acct = acct /\ ItemMail(acct, to, us).items[0] = us
  BY DEF ItemMail, Keys
<1> QED
  BY <1>1, <1>2, <1>3 DEF Paid, Shipped, NewMail

\* What a step owes the bidder and the seller of listing x.
BidderDue(x) ==
    (listing[x].bidder # None /\ (listing'[x].bid # listing[x].bid \/ ~listing'[x].active)) =>
        Paid(listing[x].bidder, listing[x].bid) \/ Shipped(listing[x].bidder, listing[x].units)
SellerDue(x) ==
    ~listing'[x].active =>
        \/ Shipped(listing[x].seller, listing[x].units)
        \/ Paid(listing[x].seller, listing[x].buyout)
        \/ listing[x].bidder # None /\ Paid(listing[x].seller, listing[x].bid)

\* A new bid refunds the standing bidder.
LEMMA BidSettles ==
  ASSUME TypeOK, HouseInv, NEW a \in Avatars, NEW x \in Open, PlaceBid(a, x)
  PROVE  BidderDue(x) /\ SellerDue(x)
<1>1. x \in ListIds /\ listing[x] \in ListingType /\ listing[x].active /\ listing[x].bid >= 1
  BY DEF Open, TypeOK, HouseInv, Sound
<1>2. listing'[x].active
  BY <1>1 DEF PlaceBid, TypeOK, ListingType
<1>3. PICK ids \in Fresh(1) : mail' = [mail EXCEPT ![ids[1]] = BidRefund(x)]
  BY DEF PlaceBid
<1>4. ids[1] \in MsgIds /\ mail[ids[1]] = NoMail
  BY FreshIds
<1>5. mail'[ids[1]] = BidRefund(x)
  BY <1>3, <1>4 DEF TypeOK
<1>6. listing[x].bidder # None => Paid(listing[x].bidder, listing[x].bid)
  <2> SUFFICES ASSUME listing[x].bidder # None PROVE Paid(listing[x].bidder, listing[x].bid)
    OBVIOUS
  <2>1. listing[x].bidder \in Nat \ {None} /\ listing[x].bid \in Nat \ {0}
    BY <1>1 DEF ListingType
  <2> QED
    BY <1>4, <1>5, <2>1, Delivered DEF BidRefund
<1> QED
  BY <1>2, <1>6 DEF BidderDue, SellerDue

\* A buyout refunds the standing bidder and pays the seller the buyout.
LEMMA BuyoutSettles ==
  ASSUME TypeOK, HouseInv, NEW a \in Avatars, NEW x \in Open, Buyout(a, x)
  PROVE  BidderDue(x) /\ SellerDue(x)
<1> DEFINE r == BidRefund(x)
           y == ItemMail(Owner[a], a, listing[x].units)
           z == CreditMail(listing[x].seller, listing[x].buyout)
<1>1. /\ x \in ListIds /\ listing[x] \in ListingType
      /\ listing[x].bid >= 1 /\ listing[x].seller # None /\ listing[x].buyout > 0
  BY DEF Open, TypeOK, HouseInv, Sound, Buyout
<1>2. PICK ids \in Fresh(3) : mail' = [mail EXCEPT ![ids[1]] = r, ![ids[2]] = y, ![ids[3]] = z]
  BY DEF Buyout
<1>3. /\ ids[1] \in MsgIds /\ ids[2] \in MsgIds /\ ids[3] \in MsgIds
      /\ ids[1] # ids[2] /\ ids[1] # ids[3] /\ ids[2] # ids[3]
      /\ mail[ids[1]] = NoMail /\ mail[ids[3]] = NoMail
  BY FreshIds
<1> HIDE DEF r, y, z
<1>4. mail'[ids[1]] = r /\ mail'[ids[3]] = z
  BY <1>2, <1>3 DEF TypeOK
<1>5. Paid(listing[x].seller, listing[x].buyout)
  <2>1. listing[x].seller \in Nat \ {None} /\ listing[x].buyout \in Nat \ {0}
    BY <1>1 DEF ListingType
  <2> QED
    BY <1>3, <1>4, <2>1, Delivered DEF z
<1>6. listing[x].bidder # None => Paid(listing[x].bidder, listing[x].bid)
  <2> SUFFICES ASSUME listing[x].bidder # None PROVE Paid(listing[x].bidder, listing[x].bid)
    OBVIOUS
  <2>1. listing[x].bidder \in Nat \ {None} /\ listing[x].bid \in Nat \ {0}
    BY <1>1 DEF ListingType
  <2> QED
    BY <1>3, <1>4, <2>1, Delivered DEF r, BidRefund
<1> QED
  BY <1>5, <1>6 DEF BidderDue, SellerDue

\* Resolving an auction sends the winner the goods and the seller the bid, or
\* the goods back to the seller.
LEMMA ResolveSettles ==
  ASSUME TypeOK, HouseInv, NEW x \in Open, ResolveSold(x) \/ ResolveUnsold(x)
  PROVE  BidderDue(x) /\ SellerDue(x)
<1>1. /\ x \in ListIds /\ listing[x] \in ListingType
      /\ listing[x].bid >= 1 /\ listing[x].seller # None
  BY DEF Open, TypeOK, HouseInv, Sound
<1>2. listing[x].seller \in Nat \ {None} /\ listing[x].bid \in Nat \ {0} /\ listing[x].bidder \in Nat
  BY <1>1 DEF ListingType
<1>3. \A ids \in Fresh(2) : /\ ids[1] \in MsgIds /\ ids[2] \in MsgIds /\ ids[1] # ids[2]
                            /\ mail[ids[1]] = NoMail /\ mail[ids[2]] = NoMail
  BY FreshIds
<1>4. CASE ResolveSold(x)
  <2>1. PICK ids \in Fresh(2) :
            mail' = [mail EXCEPT ![ids[1]] = ItemMail(listing[x].bidder, None, listing[x].units),
                                 ![ids[2]] = CreditMail(listing[x].seller, listing[x].bid)]
    BY <1>4 DEF ResolveSold
  <2>2. listing[x].bidder \in Nat \ {None}
    BY <1>2, <1>4 DEF ResolveSold
  <2> DEFINE y == ItemMail(listing[x].bidder, None, listing[x].units)
             z == CreditMail(listing[x].seller, listing[x].bid)
  <2>3. mail' = [mail EXCEPT ![ids[1]] = y, ![ids[2]] = z]
    BY <2>1
  <2> HIDE DEF y, z
  <2>4. /\ ids[1] \in MsgIds /\ mail[ids[1]] = NoMail /\ mail'[ids[1]] = y
        /\ ids[2] \in MsgIds /\ mail[ids[2]] = NoMail /\ mail'[ids[2]] = z
    BY <1>3, <2>3 DEF TypeOK
  <2>5. Shipped(listing[x].bidder, listing[x].units)
    BY <2>2, <2>4, Delivered DEF y
  <2>6. Paid(listing[x].seller, listing[x].bid)
    BY <1>2, <2>4, Delivered DEF z
  <2> QED
    BY <2>2, <2>5, <2>6 DEF BidderDue, SellerDue
<1>5. CASE ResolveUnsold(x)
  <2>1. PICK ids \in Fresh(2) :
            mail' = [mail EXCEPT ![ids[1]] = ItemMail(listing[x].seller, None, listing[x].units),
                                 ![ids[2]] = CreditMail(listing[x].seller, Refund(listing[x].deposit))]
    BY <1>5 DEF ResolveUnsold
  <2>2. listing[x].bidder = None
    BY <1>5 DEF ResolveUnsold
  <2> DEFINE y == ItemMail(listing[x].seller, None, listing[x].units)
             z == CreditMail(listing[x].seller, Refund(listing[x].deposit))
  <2>3. mail' = [mail EXCEPT ![ids[1]] = y, ![ids[2]] = z]
    BY <2>1
  <2> HIDE DEF y, z
  <2>4. ids[1] \in MsgIds /\ mail[ids[1]] = NoMail /\ mail'[ids[1]] = y
    BY <1>3, <2>3 DEF TypeOK
  <2>5. Shipped(listing[x].seller, listing[x].units)
    BY <1>2, <2>4, Delivered DEF y
  <2> QED
    BY <2>2, <2>5 DEF BidderDue, SellerDue
<1> QED
  BY <1>4, <1>5

\* Whatever step is taken, whoever is owed by a listing is paid in that step.
LEMMA SettleStep ==
  ASSUME TypeOK, HouseInv, Next, NEW x \in Open
  PROVE  BidderDue(x) /\ SellerDue(x)
<1>0. x \in ListIds /\ listing[x] \in ListingType /\ listing[x].active
  BY DEF Open, TypeOK
<1>1. ASSUME listing'[x].bid = listing[x].bid \/ listing[x].bidder = None, listing'[x].active
      PROVE  BidderDue(x) /\ SellerDue(x)
  BY <1>1 DEF BidderDue, SellerDue
<1>2. ASSUME NEW l \in ListIds, NEW r, listing' = [listing EXCEPT ![l] = r], l # x
      PROVE  BidderDue(x) /\ SellerDue(x)
  <2>1. listing'[x] = listing[x]
    BY <1>0, <1>2 DEF TypeOK
  <2> QED
    BY <1>0, <1>1, <2>1
<1>3. ASSUME NEW l \in ListIds, l \notin Open, NEW acct, NEW us, NEW v, NEW start, NEW buyout,
             NEW deposit, PutUp(l, acct, us, v, start, buyout, deposit)
      PROVE  BidderDue(x) /\ SellerDue(x)
  BY <1>2, <1>3 DEF PutUp
<1>4. CASE Auction
  <2>1. ASSUME NEW a \in Avatars, NEW s \in Slots, NEW us \in SUBSET Units,
               NEW p \in Prices, NEW q \in Prices, NEW l \in ListIds,
               PostListing(a, s, us, p, q, l)
        PROVE  BidderDue(x) /\ SellerDue(x)
    BY <1>3, <2>1 DEF PostListing
  <2>2. ASSUME NEW us \in SUBSET Units, NEW l \in ListIds, BotPostOne(us, l)
        PROVE  BidderDue(x) /\ SellerDue(x)
    BY <1>3, <2>2 DEF BotPostOne
  <2>3. ASSUME NEW a \in Avatars, NEW l \in ListIds, PlaceBid(a, l) \/ Buyout(a, l)
        PROVE  BidderDue(x) /\ SellerDue(x)
    <3>1. CASE l = x
      BY <2>3, <3>1, BidSettles, BuyoutSettles
    <3>2. CASE l # x
      BY <1>2, <2>3, <3>2 DEF PlaceBid, Buyout
    <3> QED
      BY <3>1, <3>2
  <2>4. ASSUME NEW l \in ListIds, ResolveSold(l) \/ ResolveUnsold(l)
        PROVE  BidderDue(x) /\ SellerDue(x)
    <3>1. CASE l = x
      BY <2>4, <3>1, ResolveSettles
    <3>2. CASE l # x
      BY <1>2, <2>4, <3>2 DEF ResolveSold, ResolveUnsold
    <3> QED
      BY <3>1, <3>2
  <2>5. ASSUME NEW l \in ListIds, Lapse(l) \/ Due(l) \/ BotPlaceBid(l)
        PROVE  BidderDue(x) /\ SellerDue(x)
    <3>1. listing'[x].bid = listing[x].bid \/ listing[x].bidder = None
      BY <1>0, <2>5 DEF Lapse, Due, BotPlaceBid, TypeOK, ListingType
    <3>2. listing'[x].active
      BY <1>0, <2>5 DEF Lapse, Due, BotPlaceBid, TypeOK, ListingType
    <3> QED
      BY <1>1, <3>1, <3>2
  <2> QED
    BY <1>4, <2>1, <2>2, <2>3, <2>4, <2>5 DEF Auction
<1>5. CASE MailAndVault \/ Game
  <2>1. listing' = listing
    BY <1>5 DEF MailAndVault, Game, SendMail, LootCredits, LootItem, DeleteMessage, SweepExpiredMail,
       Discard, TransferVaultItem, HandleLogin, HandleLogout, UpsertInventorySlot, SpendTradeXP,
       DeleteCharacter
  <2> QED
    BY <1>0, <1>1, <2>1
<1> QED
  BY <1>4, <1>5 DEF Next

\* A bid that is beaten or bought out comes back to the account that placed it,
\* and one that wins brings the goods, in the transaction that ends it: whatever
\* the order of bids, buyouts and sweeps, the clocks and the accounts involved.
THEOREM BidsAreSettled == Spec => BidderSettled
<1>1. TypeOK /\ HouseInv /\ [Next]_vars =>
          [\A l \in Open :
              (listing[l].bidder # None /\ (listing'[l].bid # listing[l].bid \/ ~listing'[l].active)) =>
                  \E m \in MsgIds : /\ NewMail(m)
                                    /\ mail'[m].acct = listing[l].bidder
                                    /\ \/ mail'[m].credits = listing[l].bid
                                       \/ mail'[m].items[0] = listing[l].units]_vars
  BY SettleStep DEF BidderDue, Paid, Shipped
<1> QED
  BY <1>1, HouseSound, PTL DEF Spec, BidderSettled

\* A listing never closes without its seller: the goods come back, or the buyout
\* or the winning bid arrives in full, in the transaction that closes it.
THEOREM SalesAreSettled == Spec => SellerSettled
<1>1. TypeOK /\ HouseInv /\ [Next]_vars =>
          [\A l \in Open :
              ~listing'[l].active =>
                  \E m \in MsgIds : /\ NewMail(m)
                                    /\ mail'[m].acct = listing[l].seller
                                    /\ \/ mail'[m].items[0] = listing[l].units
                                       \/ mail'[m].credits = listing[l].buyout
                                       \/ /\ listing[l].bidder # None
                                          /\ mail'[m].credits = listing[l].bid]_vars
  BY SettleStep DEF SellerDue, Paid, Shipped
<1> QED
  BY <1>1, HouseSound, PTL DEF Spec, SellerSettled

-----------------------------------------------------------------------------
(* Sums over finite sets: induction on their size, as statements about sets*)
(* of numbers.                                                             *)

\* A set of naturals that is not empty has a least element.
LEMMA Least == ASSUME NEW T \in SUBSET Nat, T # {} PROVE \E n \in T : \A m \in T : n <= m
<1> DEFINE R == OpToRel(<, Nat)
<1>1. IsWellFoundedOn(R, Nat)
  BY NatLessThanWellFounded
<1>2. \A x, y \in Nat : <<y, x>> \in R <=> y < x
  BY DEF OpToRel
<1> HIDE DEF R
<1>3. PICK n \in T : \A m \in T : <<m, n>> \notin R
  BY <1>1, WFMin
<1>4. \A m \in T : ~ (m < n)
  BY <1>2, <1>3
<1> QED
  BY <1>3, <1>4

\* Induction over the natural numbers, for a set.
LEMMA Climb ==
    ASSUME NEW T \in SUBSET Nat, 0 \in T, \A n \in T : n + 1 \in T
    PROVE  T = Nat
<1> SUFFICES ASSUME Nat \ T # {} PROVE FALSE
  OBVIOUS
<1>1. PICK n \in Nat \ T : \A m \in Nat \ T : n <= m
  BY Least
<1>2. n # 0 /\ n - 1 \in Nat /\ n - 1 < n
  BY <1>1
<1>3. n - 1 \in T
  BY <1>1, <1>2
<1>4. (n - 1) + 1 = n
  BY <1>1
<1> QED
  BY <1>1, <1>3, <1>4

\* g adds up w over the subsets of D, as MapThenSumSet does.
Pick(S) == CHOOSE x \in S : TRUE
IsSum(g, w, D) == g = [S \in SUBSET D |-> IF S = {} THEN 0 ELSE w[Pick(S)] + g[S \ {Pick(S)}]]
\* w gives every element of D an integer.
Ints(w, D) == \A x \in D : w[x] \in Int

\* Taking an element out of a finite set leaves one element less.
LEMMA Smaller ==
    ASSUME NEW D, IsFiniteSet(D), NEW S \in SUBSET D, NEW x \in S
    PROVE  /\ S \ {x} \in SUBSET D /\ IsFiniteSet(S) /\ Cardinality(S) \in Nat
           /\ Cardinality(S \ {x}) = Cardinality(S) - 1 /\ Cardinality(S) >= 1
<1>1. IsFiniteSet(S) /\ Cardinality(S) \in Nat
  BY FS_Subset, FS_CardinalityType
<1>2. Cardinality(S \ {x}) = Cardinality(S) - 1
  BY <1>1, FS_RemoveElement
<1>3. Cardinality(S) # 0
  BY <1>1, FS_EmptySet
<1> QED
  BY <1>1, <1>2, <1>3

\* The same for every subset of a finite set at once; only the empty set has
\* no element.
LEMMA Sizes ==
    ASSUME NEW D, IsFiniteSet(D)
    PROVE  \A S \in SUBSET D :
               /\ Cardinality(S) \in Nat /\ (Cardinality(S) <= 0 => S = {})
               /\ \A x \in S : S \ {x} \in SUBSET D /\ Cardinality(S \ {x}) = Cardinality(S) - 1
<1> TAKE S \in SUBSET D
<1>1. IsFiniteSet(S) /\ Cardinality(S) \in Nat
  BY FS_Subset, FS_CardinalityType
<1>2. Cardinality(S) <= 0 => S = {}
  BY <1>1, FS_EmptySet
<1> QED
  BY <1>1, <1>2, Smaller

\* There is a function that adds up w: one more element at a time, each
\* function good for the subsets up to a size gives one good for the next.
LEMMA SumExists ==
    ASSUME NEW D, IsFiniteSet(D), NEW w, Ints(w, D)
    PROVE  \E g : IsSum(g, w, D)
<1> DEFINE Upto(n) == {S \in SUBSET D : Cardinality(S) <= n}
           Good(g, n) == \A S \in Upto(n) :
               /\ g[S] \in Int
               /\ g[S] = IF S = {} THEN 0 ELSE w[Pick(S)] + g[S \ {Pick(S)}]
           T == {n \in Nat : \E g : Good(g, n)}
<1>0. \A S \in SUBSET D : S # {} => Pick(S) \in S
  BY DEF Pick
<1>1. 0 \in T
  <2> DEFINE g == [S \in SUBSET D |-> 0]
  <2>2. \A S \in Upto(0) : S = {}
    BY Sizes
  <2>3. Good(g, 0)
    BY <2>2
  <2> QED
    BY <2>3
<1>2. ASSUME NEW n \in T PROVE n + 1 \in T
  <2>1. n \in Nat
    BY <1>2
  <2>2. PICK g : Good(g, n)
    BY <1>2
  <2> DEFINE h == [S \in SUBSET D |-> IF S = {} THEN 0 ELSE w[Pick(S)] + g[S \ {Pick(S)}]]
  <2>3. \A S \in Upto(n) : h[S] = g[S]
    BY <2>2
  <2>4. ASSUME NEW S \in Upto(n + 1), S # {}
        PROVE  S \ {Pick(S)} \in Upto(n) /\ w[Pick(S)] \in Int
    <3>1. Pick(S) \in S /\ S \in SUBSET D
      BY <1>0, <2>4
    <3>2. /\ S \ {Pick(S)} \in SUBSET D /\ Cardinality(S) \in Nat
          /\ Cardinality(S \ {Pick(S)}) = Cardinality(S) - 1
      BY <3>1, Smaller
    <3> QED
      BY <2>1, <2>4, <3>1, <3>2 DEF Ints
  <2>5. ASSUME NEW S \in Upto(n + 1)
        PROVE  h[S] \in Int /\ h[S] = IF S = {} THEN 0 ELSE w[Pick(S)] + h[S \ {Pick(S)}]
    <3>1. CASE S = {}
      BY <3>1
    <3>2. CASE S # {}
      <4>1. S \ {Pick(S)} \in Upto(n) /\ w[Pick(S)] \in Int
        BY <2>4, <3>2
      <4>2. h[S \ {Pick(S)}] = g[S \ {Pick(S)}] /\ g[S \ {Pick(S)}] \in Int
        BY <2>2, <2>3, <4>1
      <4>3. h[S] = w[Pick(S)] + g[S \ {Pick(S)}]
        BY <3>2
      <4> QED
        BY <3>2, <4>1, <4>2, <4>3
    <3> QED
      BY <3>1, <3>2
  <2>6. Good(h, n + 1)
    BY <2>5
  <2> HIDE DEF h, Good
  <2> QED
    BY <2>1, <2>6
<1>3. T \in SUBSET Nat
  OBVIOUS
<1> HIDE DEF T
<1>4. T = Nat
  BY <1>1, <1>2, <1>3, Climb
<1>5. Cardinality(D) \in Nat
  BY FS_CardinalityType
<1>6. PICK g : Good(g, Cardinality(D))
  BY <1>4, <1>5 DEF T
<1>7. \A S \in SUBSET D : S \in Upto(Cardinality(D))
  BY FS_Subset
<1> DEFINE h == [S \in SUBSET D |-> IF S = {} THEN 0 ELSE w[Pick(S)] + g[S \ {Pick(S)}]]
<1>8. \A S \in SUBSET D : h[S] = g[S]
  BY <1>6, <1>7
<1>9. \A S \in SUBSET D : S \ {Pick(S)} \in SUBSET D
  OBVIOUS
<1>10. h = [S \in SUBSET D |-> IF S = {} THEN 0 ELSE w[Pick(S)] + h[S \ {Pick(S)}]]
  BY <1>8, <1>9
<1> QED
  BY <1>10 DEF IsSum

\* A sum is an integer and can be taken apart at any element, not only at the
\* one it picks: the order does not matter.
LEMMA SumUnfolds ==
    ASSUME NEW D, IsFiniteSet(D), NEW w, Ints(w, D), NEW g, IsSum(g, w, D)
    PROVE  /\ g[{}] = 0
           /\ \A S \in SUBSET D : g[S] \in Int /\ \A x \in S : g[S] = w[x] + g[S \ {x}]
<1> DEFINE Unfolds(S) == g[S] \in Int /\ \A x \in S : g[S] = w[x] + g[S \ {x}]
           T == {n \in Nat : \A S \in SUBSET D : Cardinality(S) <= n => Unfolds(S)}
<1>1. /\ g[{}] = 0
      /\ \A S \in SUBSET D : S # {} => Pick(S) \in S /\ g[S] = w[Pick(S)] + g[S \ {Pick(S)}]
  BY DEF IsSum, Pick
<1>2. 0 \in T
  <2>1. \A S \in SUBSET D : Cardinality(S) <= 0 => S = {}
    BY Sizes
  <2>2. Unfolds({})
    BY <1>1
  <2> HIDE DEF Unfolds
  <2> QED
    BY <2>1, <2>2
<1>3. ASSUME NEW n \in T PROVE n + 1 \in T
  <2> SUFFICES ASSUME NEW S \in SUBSET D, Cardinality(S) <= n + 1 PROVE Unfolds(S)
    BY <1>3
  <2>1. CASE S = {}
    BY <1>1, <2>1
  <2>2. CASE S # {}
    <3> DEFINE y == Pick(S)
    <3>1. y \in S /\ g[S] = w[y] + g[S \ {y}]
      BY <1>1, <2>2
    <3>2. ASSUME NEW x \in S PROVE S \ {x} \in SUBSET D /\ Unfolds(S \ {x})
      <4>1. /\ S \ {x} \in SUBSET D /\ Cardinality(S) \in Nat
            /\ Cardinality(S \ {x}) = Cardinality(S) - 1
        BY Sizes
      <4> HIDE DEF Unfolds
      <4> QED
        BY <1>3, <4>1
    <3>3. g[S] \in Int
      <4>1. w[y] \in Int /\ g[S \ {y}] \in Int
        BY <3>1, <3>2 DEF Ints
      <4> QED
        BY <3>1, <4>1
    <3> HIDE DEF y
    <3>4. ASSUME NEW x \in S PROVE g[S] = w[x] + g[S \ {x}]
      <4>1. CASE x = y
        BY <3>1, <4>1
      <4>2. CASE x # y
        <5>1. (S \ {y}) \ {x} = (S \ {x}) \ {y} /\ x \in S \ {y} /\ y \in S \ {x}
          BY <3>1, <4>2
        <5> DEFINE U == (S \ {x}) \ {y}
        <5>2. /\ g[S \ {y}] = w[x] + g[U]
              /\ g[S \ {x}] = w[y] + g[U]
          <6>1. Unfolds(S \ {y}) /\ Unfolds(S \ {x})
            BY <3>1, <3>2
          <6> QED
            BY <5>1, <6>1
        <5>3. g[U] \in Int
          <6>1. U \in SUBSET D /\ Cardinality(S \ {x}) \in Nat
                /\ Cardinality(S \ {x}) = Cardinality(S) - 1
                /\ Cardinality(U) = Cardinality(S \ {x}) - 1 /\ Cardinality(S) \in Nat
            BY <3>2, <5>1, Sizes
          <6>2. Cardinality(U) <= n
            BY <1>3, <6>1
          <6> QED
            BY <1>3, <6>1, <6>2
        <5>4. w[x] \in Int /\ w[y] \in Int
          BY <3>1 DEF Ints
        <5> QED
          BY <3>1, <5>2, <5>3, <5>4
      <4> QED
        BY <4>1, <4>2
    <3> QED
      BY <3>3, <3>4
  <2> QED
    BY <2>1, <2>2
<1>4. T \in SUBSET Nat
  OBVIOUS
<1>5. T = Nat
  <2> HIDE DEF T
  <2> QED
    BY <1>2, <1>3, <1>4, Climb
<1>6. \A S \in SUBSET D : Cardinality(S) <= Cardinality(D) /\ Cardinality(D) \in Nat
  BY FS_Subset, FS_CardinalityType
<1> QED
  BY <1>1, <1>5, <1>6

\* Sums of functions that agree on a set agree on that set.
LEMMA SumsAgree ==
    ASSUME NEW D, IsFiniteSet(D), NEW w, Ints(w, D), NEW g, IsSum(g, w, D),
           NEW E, IsFiniteSet(E), NEW v, Ints(v, E), NEW h, IsSum(h, v, E),
           NEW R, R \in SUBSET D, R \in SUBSET E, \A x \in R : w[x] = v[x]
    PROVE  g[R] = h[R]
<1> DEFINE T == {n \in Nat : \A S \in SUBSET R : Cardinality(S) <= n => g[S] = h[S]}
<1>1. /\ g[{}] = 0 /\ h[{}] = 0
      /\ \A S \in SUBSET R : \A x \in S : g[S] = w[x] + g[S \ {x}] /\ h[S] = v[x] + h[S \ {x}]
  BY SumUnfolds
<1>2. \A S \in SUBSET R :
          /\ Cardinality(S) \in Nat /\ (Cardinality(S) <= 0 => S = {})
          /\ \A x \in S : S \ {x} \in SUBSET R /\ Cardinality(S \ {x}) = Cardinality(S) - 1
  <2>1. IsFiniteSet(R)
    BY FS_Subset
  <2> QED
    BY <2>1, Sizes
<1>3. 0 \in T
  BY <1>1, <1>2
<1>4. ASSUME NEW n \in T PROVE n + 1 \in T
  <2> SUFFICES ASSUME NEW S \in SUBSET R, Cardinality(S) <= n + 1 PROVE g[S] = h[S]
    BY <1>4
  <2>1. CASE S = {}
    BY <1>1, <2>1
  <2>2. ASSUME NEW x \in S PROVE g[S] = h[S]
    <3>1. g[S \ {x}] = h[S \ {x}]
      BY <1>2, <1>4, <2>2
    <3>2. g[S] = w[x] + g[S \ {x}] /\ h[S] = v[x] + h[S \ {x}] /\ S \in SUBSET R
      BY <1>1, <2>2
    <3>3. w[x] = v[x]
      BY <2>2, <3>2
    <3> QED
      BY <3>1, <3>2, <3>3
  <2> QED
    BY <2>1, <2>2
<1>5. T = Nat
  <2>1. T \in SUBSET Nat
    OBVIOUS
  <2> HIDE DEF T
  <2> QED
    BY <1>3, <1>4, <2>1, Climb
<1>6. Cardinality(R) \in Nat /\ R \in SUBSET R
  BY FS_Subset, FS_CardinalityType
<1> QED
  BY <1>5, <1>6

\* The sum of w over D.
Sum(w, D) == MapThenSumSet(LAMBDA x : w[x], D)

\* A sum of zeros is zero.
LEMMA NothingAdded ==
    ASSUME NEW D, IsFiniteSet(D), NEW w, \A x \in D : w[x] = 0, NEW g, IsSum(g, w, D)
    PROVE  g[D] = 0
<1> DEFINE T == {n \in Nat : \A S \in SUBSET D : Cardinality(S) <= n => g[S] = 0}
<1>1. Ints(w, D)
  BY DEF Ints
<1>2. g[{}] = 0 /\ \A S \in SUBSET D : \A x \in S : g[S] = w[x] + g[S \ {x}]
  BY <1>1, SumUnfolds
<1>3. \A S \in SUBSET D :
          /\ Cardinality(S) \in Nat /\ (Cardinality(S) <= 0 => S = {})
          /\ \A x \in S : S \ {x} \in SUBSET D /\ Cardinality(S \ {x}) = Cardinality(S) - 1
  BY Sizes
<1>4. 0 \in T
  BY <1>3, <1>2
<1>5. ASSUME NEW n \in T PROVE n + 1 \in T
  <2> SUFFICES ASSUME NEW S \in SUBSET D, Cardinality(S) <= n + 1 PROVE g[S] = 0
    BY <1>5
  <2>1. ASSUME NEW x \in S PROVE g[S] = 0
    <3>1. g[S \ {x}] = 0
      BY <1>3, <1>5, <2>1
    <3>2. g[S] = w[x] + g[S \ {x}] /\ w[x] = 0
      BY <1>2, <2>1
    <3> QED
      BY <3>1, <3>2
  <2> QED
    BY <1>2, <2>1
<1>6. T = Nat
  <2>1. T \in SUBSET Nat
    OBVIOUS
  <2> HIDE DEF T
  <2> QED
    BY <1>4, <1>5, <2>1, Climb
<1> QED
  BY <1>3, <1>6

\* Sum is such a function's value.
LEMMA SumIs ==
    ASSUME NEW D, IsFiniteSet(D), NEW w, Ints(w, D)
    PROVE  \E g : IsSum(g, w, D) /\ Sum(w, D) = g[D]
<1>1. PICK g : IsSum(g, w, D)
  BY SumExists
<1> DEFINE h == CHOOSE k : k = [S \in SUBSET D |-> IF S = {} THEN 0
                                ELSE w[CHOOSE x \in S : TRUE] + k[S \ {CHOOSE x \in S : TRUE}]]
<1>2. IsSum(h, w, D)
  BY <1>1 DEF IsSum, Pick
<1>3. Sum(w, D) = h[D]
  BY DEF Sum, MapThenSumSet, MapThenFoldSet
<1> QED
  BY <1>2, <1>3

\* A sum is the sum without x, plus what x adds.
LEMMA SumSplits ==
    ASSUME NEW D, IsFiniteSet(D), NEW w, Ints(w, D), NEW g, IsSum(g, w, D), NEW x
    PROVE  /\ g[D] \in Int /\ g[D \ {x}] \in Int
           /\ g[D] = g[D \ {x}] + (IF x \in D THEN w[x] ELSE 0)
<1>1. \A S \in SUBSET D : g[S] \in Int /\ \A y \in S : g[S] = w[y] + g[S \ {y}]
  BY SumUnfolds
<1>2. D \in SUBSET D /\ D \ {x} \in SUBSET D
  OBVIOUS
<1>3. g[D] \in Int /\ g[D \ {x}] \in Int
  BY <1>1, <1>2
<1>4. CASE x \in D
  <2>1. g[D] = w[x] + g[D \ {x}]
    BY <1>1, <1>2, <1>4
  <2>2. w[x] \in Int
    BY <1>4 DEF Ints
  <2> QED
    BY <1>3, <1>4, <2>1, <2>2
<1>5. CASE x \notin D
  <2>1. D \ {x} = D
    BY <1>5
  <2> QED
    BY <1>3, <1>5, <2>1
<1> QED
  BY <1>4, <1>5

\* When two functions differ at most at x, so do their sums.
LEMMA SumChanges ==
    ASSUME NEW D, IsFiniteSet(D), NEW w, Ints(w, D), NEW E, IsFiniteSet(E), NEW v, Ints(v, E),
           NEW x, D \ {x} = E \ {x}, \A y \in D \ {x} : w[y] = v[y]
    PROVE  /\ Sum(w, D) \in Int /\ Sum(v, E) \in Int
           /\ Sum(v, E) - (IF x \in E THEN v[x] ELSE 0) = Sum(w, D) - (IF x \in D THEN w[x] ELSE 0)
<1>1. PICK g : IsSum(g, w, D) /\ Sum(w, D) = g[D]
  BY SumIs
<1>2. PICK h : IsSum(h, v, E) /\ Sum(v, E) = h[E]
  BY SumIs
<1> DEFINE R == D \ {x}
<1>3. R \in SUBSET D /\ R \in SUBSET E /\ R = E \ {x}
  OBVIOUS
<1>4. g[R] = h[R]
  BY <1>1, <1>2, <1>3, SumsAgree
<1>5. g[D] \in Int /\ g[R] \in Int /\ g[D] = g[R] + (IF x \in D THEN w[x] ELSE 0)
  BY <1>1, SumSplits
<1>6. h[E] \in Int /\ h[R] \in Int /\ h[E] = h[R] + (IF x \in E THEN v[x] ELSE 0)
  BY <1>2, <1>3, SumSplits
<1> HIDE DEF R
<1>7. (x \in D => w[x] \in Int) /\ (x \in E => v[x] \in Int)
  BY DEF Ints
<1> QED
  BY <1>1, <1>2, <1>4, <1>5, <1>6, <1>7

-----------------------------------------------------------------------------
(* Conservation of credits.                                                *)

\* The credits a message holds, and the ones a listing holds: the bid of its
\* bidder.
Worth(r) == IF 0 \in r.looted THEN 0 ELSE r.credits
Stake(r) == IF r.active /\ r.bidder # None THEN r.bid ELSE 0

\* The three sums of Ledger, of wallets f, a mailbox mm and listings ls.
Purses(f) == Sum(f, Avatars)
Mailed(mm) == Sum([m \in MsgIds |-> Worth(mm[m])], MsgIds)
Standing(ls) == {l \in ListIds : ls[l].active /\ ls[l].bidder # None}
Staked(ls) == Sum([l \in ListIds |-> ls[l].bid], Standing(ls))

\* The sums are over finite sets.
LEMMA Ranges == IsFiniteSet(Avatars) /\ IsFiniteSet(MsgIds) /\ IsFiniteSet(ListIds)
BY AvatarAssumption, BoundAssumption, FS_Interval DEF MsgIds, ListIds

\* Mailed is the sum the invariant writes.
LEMMA MailedIs ==
    ASSUME NEW mm \in [MsgIds -> MailType]
    PROVE  MapThenSumSet(LAMBDA m : Worth(mm[m]), MsgIds) = Mailed(mm)
<1> DEFINE w == [m \in MsgIds |-> Worth(mm[m])]
           P(k) == k = [S \in SUBSET MsgIds |-> IF S = {} THEN 0
                   ELSE Worth(mm[CHOOSE x \in S : TRUE]) + k[S \ {CHOOSE x \in S : TRUE}]]
           h == CHOOSE k : P(k)
<1>1. Ints(w, MsgIds)
  BY DEF Ints, Worth, MailType
<1>2. PICK g : IsSum(g, w, MsgIds) /\ Sum(w, MsgIds) = g[MsgIds]
  BY <1>1, SumIs, Ranges
<1>3. MapThenSumSet(LAMBDA m : Worth(mm[m]), MsgIds) = h[MsgIds]
  BY DEF MapThenSumSet, MapThenFoldSet
<1>4. \A S \in SUBSET MsgIds : S # {} => w[Pick(S)] = Worth(mm[CHOOSE x \in S : TRUE])
  BY DEF Pick
<1> HIDE DEF w
<1>5. \A k : P(k) <=> IsSum(k, w, MsgIds)
  BY <1>4 DEF IsSum, Pick
<1>6. IsSum(h, w, MsgIds)
  <2> HIDE DEF P
  <2>1. P(h)
    BY <1>2, <1>5
  <2> QED
    BY <1>5, <2>1
<1> HIDE DEF h
<1>7. h[MsgIds] = g[MsgIds]
  BY <1>1, <1>2, <1>6, Ranges, SumsAgree
<1> QED
  BY <1>2, <1>3, <1>7 DEF Mailed, w

\* Staked is the sum the invariant writes.
LEMMA StakedIs ==
    ASSUME NEW ls \in [ListIds -> ListingType]
    PROVE  MapThenSumSet(LAMBDA l : ls[l].bid, Standing(ls)) = Staked(ls)
<1> DEFINE D == Standing(ls)
           w == [l \in ListIds |-> ls[l].bid]
           P(k) == k = [S \in SUBSET D |-> IF S = {} THEN 0
                   ELSE ls[CHOOSE x \in S : TRUE].bid + k[S \ {CHOOSE x \in S : TRUE}]]
           h == CHOOSE k : P(k)
<1>1. Ints(w, D) /\ IsFiniteSet(D)
  BY Ranges, FS_Subset DEF Ints, Standing, ListingType
<1>2. PICK g : IsSum(g, w, D) /\ Sum(w, D) = g[D]
  BY <1>1, SumIs
<1>3. MapThenSumSet(LAMBDA l : ls[l].bid, D) = h[D]
  BY DEF MapThenSumSet, MapThenFoldSet
<1>4. \A S \in SUBSET D : S # {} => w[Pick(S)] = ls[CHOOSE x \in S : TRUE].bid
  BY DEF Pick, Standing
<1> HIDE DEF w, D
<1>5. \A k : P(k) <=> IsSum(k, w, D)
  BY <1>4 DEF IsSum, Pick
<1>6. IsSum(h, w, D)
  <2> HIDE DEF P
  <2>1. P(h)
    BY <1>2, <1>5
  <2> QED
    BY <1>5, <2>1
<1> HIDE DEF h
<1>7. h[D] = g[D]
  BY <1>1, <1>2, <1>6, SumsAgree
<1> QED
  BY <1>2, <1>3, <1>7 DEF Staked, w, D

\* Another amount in one wallet.
LEMMA PurseChanges ==
    ASSUME NEW f \in [Avatars -> Nat], NEW a \in Avatars, NEW n \in Nat
    PROVE  /\ Purses(f) \in Int
           /\ Purses([f EXCEPT ![a] = n]) = Purses(f) - f[a] + n
<1> DEFINE v == [f EXCEPT ![a] = n]
<1>1. /\ Ints(f, Avatars) /\ Ints(v, Avatars) /\ \A y \in Avatars \ {a} : f[y] = v[y]
      /\ v[a] = n /\ f[a] \in Int
  BY DEF Ints
<1> HIDE DEF v
<1>2. /\ Sum(f, Avatars) \in Int /\ Sum(v, Avatars) \in Int
      /\ Sum(v, Avatars) - v[a] = Sum(f, Avatars) - f[a]
  BY <1>1, Ranges, SumChanges
<1> QED
  BY <1>1, <1>2 DEF Purses, v

\* Another message under one number.
LEMMA MailChanges ==
    ASSUME NEW mm \in [MsgIds -> MailType], NEW m \in MsgIds, NEW r \in MailType
    PROVE  /\ Mailed(mm) \in Int /\ Worth(mm[m]) \in Nat /\ Worth(r) \in Nat
           /\ [mm EXCEPT ![m] = r] \in [MsgIds -> MailType]
           /\ Mailed([mm EXCEPT ![m] = r]) = Mailed(mm) - Worth(mm[m]) + Worth(r)
<1> DEFINE nn == [mm EXCEPT ![m] = r]
           w == [x \in MsgIds |-> Worth(mm[x])]
           v == [x \in MsgIds |-> Worth(nn[x])]
<1>1. \A x \in MailType : Worth(x) \in Nat
  BY DEF Worth, MailType
<1>2. nn \in [MsgIds -> MailType] /\ nn[m] = r /\ \A x \in MsgIds \ {m} : nn[x] = mm[x]
  OBVIOUS
<1> HIDE DEF nn
<1>3. /\ Ints(w, MsgIds) /\ Ints(v, MsgIds) /\ \A x \in MsgIds \ {m} : w[x] = v[x]
      /\ w[m] = Worth(mm[m]) /\ v[m] = Worth(r)
  BY <1>1, <1>2 DEF Ints
<1>4. /\ Sum(w, MsgIds) \in Int /\ Sum(v, MsgIds) \in Int
      /\ Sum(v, MsgIds) - v[m] = Sum(w, MsgIds) - w[m]
  <2> HIDE DEF w, v
  <2> QED
    BY <1>3, Ranges, SumChanges
<1>5. Mailed(mm) = Sum(w, MsgIds) /\ Mailed(nn) = Sum(v, MsgIds)
  BY DEF Mailed
<1> HIDE DEF w, v
<1>6. Mailed(mm) \in Int /\ Mailed(nn) = Mailed(mm) - Worth(mm[m]) + Worth(r)
  BY <1>1, <1>2, <1>3, <1>4, <1>5
<1> QED
  BY <1>1, <1>2, <1>6 DEF nn

\* Another row for one listing: it may enter or leave the standing bids.
LEMMA StakeChanges ==
    ASSUME NEW ls \in [ListIds -> ListingType], NEW l \in ListIds, NEW r \in ListingType
    PROVE  /\ Staked(ls) \in Int /\ Stake(ls[l]) \in Nat /\ Stake(r) \in Nat
           /\ Staked([ls EXCEPT ![l] = r]) = Staked(ls) - Stake(ls[l]) + Stake(r)
<1> DEFINE ns == [ls EXCEPT ![l] = r]
           w == [x \in ListIds |-> ls[x].bid]
           v == [x \in ListIds |-> ns[x].bid]
           D == Standing(ls)
           E == Standing(ns)
<1>1. \A x \in ListingType : Stake(x) \in Nat /\ x.bid \in Nat
  BY DEF Stake, ListingType
<1>2. ns \in [ListIds -> ListingType] /\ ns[l] = r /\ \A x \in ListIds \ {l} : ns[x] = ls[x]
  OBVIOUS
<1> HIDE DEF ns
<1>3. /\ D \subseteq ListIds /\ E \subseteq ListIds
      /\ IsFiniteSet(D) /\ IsFiniteSet(E)
  BY Ranges, FS_Subset DEF Standing
<1>4. D \ {l} = E \ {l}
  BY <1>2 DEF Standing
<1>5. /\ (IF l \in D THEN w[l] ELSE 0) = Stake(ls[l])
      /\ (IF l \in E THEN v[l] ELSE 0) = Stake(r)
  BY <1>2 DEF Standing, Stake
<1> HIDE DEF D, E
<1>6. Ints(w, D) /\ Ints(v, E) /\ \A x \in D \ {l} : w[x] = v[x]
  BY <1>1, <1>2, <1>3 DEF Ints
<1>7. /\ Sum(w, D) \in Int /\ Sum(v, E) \in Int
      /\ Sum(v, E) - (IF l \in E THEN v[l] ELSE 0) = Sum(w, D) - (IF l \in D THEN w[l] ELSE 0)
  <2> HIDE DEF w, v
  <2> QED
    BY <1>3, <1>4, <1>6, SumChanges
<1>8. Staked(ls) = Sum(w, D) /\ Staked(ns) = Sum(v, E)
  BY DEF Staked, D, E
<1> HIDE DEF w, v
<1>9. Staked(ls) \in Int /\ Staked(ns) = Staked(ls) - Stake(ls[l]) + Stake(r)
  BY <1>1, <1>5, <1>7, <1>8
<1> QED
  BY <1>1, <1>9 DEF ns

\* The credits there are.
Total == Purses(wallet) + Mailed(mail) + Staked(listing)

\* The three sums of Ledger.
LEMMA LedgerIs ==
    ASSUME TypeOK PROVE Ledger <=> Total = Purses(Purse) + issued
<1>1. MapThenSumSet(Credits, MsgIds) = Mailed(mail)
  <2>1. MapThenSumSet(Credits, MsgIds) = MapThenSumSet(LAMBDA m : Worth(mail[m]), MsgIds)
    BY DEF MapThenSumSet, MapThenFoldSet, Credits, Worth
  <2> QED
    BY <2>1, MailedIs DEF TypeOK
<1>2. {l \in Open : listing[l].bidder # None} = Standing(listing)
  BY DEF Open, Standing
<1>3. MapThenSumSet(LAMBDA l : listing[l].bid, {l \in Open : listing[l].bidder # None}) = Staked(listing)
  BY <1>2, StakedIs DEF TypeOK
<1>4. /\ MapThenSumSet(LAMBDA a : wallet[a], Avatars) = Purses(wallet)
      /\ MapThenSumSet(LAMBDA a : Purse[a], Avatars) = Purses(Purse)
  BY DEF Purses, Sum
<1> QED
  BY <1>1, <1>3, <1>4 DEF Ledger, Total

\* Each of them is an integer, and they are nothing when there is no mail and
\* no bid.
LEMMA SumTypes ==
    ASSUME NEW f \in [Avatars -> Nat], NEW mm \in [MsgIds -> MailType],
           NEW ls \in [ListIds -> ListingType]
    PROVE  /\ Purses(f) \in Int /\ Mailed(mm) \in Int /\ Staked(ls) \in Int
           /\ (\A m \in MsgIds : Worth(mm[m]) = 0) => Mailed(mm) = 0
           /\ Standing(ls) = {} => Staked(ls) = 0
<1> DEFINE w == [m \in MsgIds |-> Worth(mm[m])]
           v == [l \in ListIds |-> ls[l].bid]
<1>1. /\ Ints(f, Avatars) /\ Ints(w, MsgIds) /\ Ints(v, Standing(ls))
      /\ (\A m \in MsgIds : Worth(mm[m]) = 0) => \A m \in MsgIds : w[m] = 0
  BY DEF Ints, Worth, MailType, Standing, ListingType
<1>2. IsFiniteSet(Standing(ls))
  BY Ranges, FS_Subset DEF Standing
<1>3. Purses(f) \in Int
  BY <1>1, Ranges, SumChanges DEF Purses
<1> HIDE DEF w, v
<1>4. PICK g : IsSum(g, w, MsgIds) /\ Sum(w, MsgIds) = g[MsgIds]
  BY <1>1, Ranges, SumIs
<1>5. g[MsgIds] \in Int /\ ((\A m \in MsgIds : Worth(mm[m]) = 0) => g[MsgIds] = 0)
  BY <1>1, <1>4, Ranges, SumSplits, NothingAdded
<1>6. PICK h : IsSum(h, v, Standing(ls)) /\ Sum(v, Standing(ls)) = h[Standing(ls)]
  BY <1>1, <1>2, SumIs
<1>7. h[Standing(ls)] \in Int /\ h[{}] = 0
  BY <1>1, <1>2, <1>6, SumSplits, SumUnfolds
<1>8. Mailed(mm) = g[MsgIds] /\ Staked(ls) = h[Standing(ls)]
  BY <1>4, <1>6 DEF Mailed, Staked, w, v
<1> QED
  BY <1>3, <1>5, <1>7, <1>8

\* The sums are integers.
Sums == /\ Purses(wallet) \in Int /\ Mailed(mail) \in Int /\ Staked(listing) \in Int
        /\ issued \in Int

\* In a typed state they are.
LEMMA SumsTyped == ASSUME TypeOK PROVE Sums
BY SumTypes DEF Sums, TypeOK

\* A step changes the credits there are by what the faucets and sinks record.
Kept == Total' - issued' = Total - issued

\* No message, or one of goods, holds no credits; one of n credits holds n.
LEMMA WorthFacts ==
    /\ Worth(NoMail) = 0
    /\ \A acct, to, us : Worth(ItemMail(acct, to, us)) = 0
    /\ \A acct, n \in Nat : Worth(CreditMail(acct, n)) = n
<1>1. Worth(NoMail) = 0
  BY DEF Worth, NoMail
<1>2. \A acct, to, us : Worth(ItemMail(acct, to, us)) = 0
  BY DEF Worth, ItemMail
<1>3. ASSUME NEW acct \in Nat, NEW n \in Nat PROVE Worth(CreditMail(acct, n)) = n
  <2>1. CASE n > 0
    BY <2>1 DEF Worth, CreditMail, NoMail
  <2>2. CASE ~(n > 0)
    BY <1>1, <2>2 DEF CreditMail
  <2> QED
    BY <2>1, <2>2
<1> QED
  BY <1>1, <1>2, <1>3

\* A debit, a new listing, a message under an unused number.
LEMMA DebitSum ==
    ASSUME TypeOK, NEW a \in Avatars, NEW n \in Nat, Debit(a, n)
    PROVE  Purses(wallet') = Purses(wallet) - n
<1>1. wallet[a] \in Nat /\ wallet[a] - n \in Nat /\ wallet' = [wallet EXCEPT ![a] = wallet[a] - n]
  BY DEF TypeOK, Debit
<1>2. Purses(wallet') = Purses(wallet) - wallet[a] + (wallet[a] - n) /\ Purses(wallet) \in Int
  BY <1>1, PurseChanges DEF TypeOK
<1> QED
  BY <1>1, <1>2

\* A new row for a listing changes the standing bids by what the row stakes.
LEMMA ListingSum ==
    ASSUME TypeOK, NEW l \in ListIds, NEW r \in ListingType, listing' = [listing EXCEPT ![l] = r]
    PROVE  /\ Staked(listing') = Staked(listing) - Stake(listing[l]) + Stake(r)
           /\ Stake(listing[l]) \in Nat /\ Stake(r) \in Nat
BY StakeChanges DEF TypeOK

\* A new listing has no bidder, and adds nothing to the standing bids.
LEMMA PutUpSum ==
    ASSUME TypeOK, NEW l \in ListIds \ Open, NEW acct \in Nat, NEW us \in SUBSET Units,
           NEW v \in Nat, NEW start \in Nat, NEW buyout \in Nat, NEW deposit \in Nat,
           PutUp(l, acct, us, v, start, buyout, deposit)
    PROVE  Staked(listing') = Staked(listing)
<1> DEFINE r == [active |-> TRUE, seller |-> acct, units |-> us, value |-> v, start |-> start,
                 bid |-> start, buyout |-> buyout, deposit |-> deposit, bidder |-> None,
                 lapsed |-> FALSE, due |-> FALSE]
<1>1. r \in ListingType /\ Stake(r) = 0 /\ listing' = [listing EXCEPT ![l] = r]
  BY DEF ListingType, Stake, None, PutUp
<1>2. Stake(listing[l]) = 0
  BY DEF Stake, Open
<1> HIDE DEF r
<1>3. Staked(listing') = Staked(listing) - Stake(listing[l]) + Stake(r)
  BY <1>1, ListingSum
<1> QED
  BY <1>1, <1>2, <1>3, SumsTyped DEF Sums

\* A mailbox mm in which r is written under the unused number m.
Post(mm, m, r, nn) ==
    /\ mm \in [MsgIds -> MailType] /\ m \in MsgIds /\ mm[m] = NoMail /\ r \in MailType
    /\ nn = [mm EXCEPT ![m] = r]

\* A message written under an unused number adds what it holds.
LEMMA PostAdds ==
    ASSUME NEW mm, NEW m, NEW r, NEW nn, Post(mm, m, r, nn)
    PROVE  /\ nn \in [MsgIds -> MailType] /\ Mailed(mm) \in Int /\ Worth(r) \in Nat
           /\ Mailed(nn) = Mailed(mm) + Worth(r)
           /\ \A n \in MsgIds \ {m} : nn[n] = mm[n]
<1>1. /\ mm \in [MsgIds -> MailType] /\ m \in MsgIds /\ mm[m] = NoMail /\ r \in MailType
      /\ nn = [mm EXCEPT ![m] = r]
  BY DEF Post
<1>2. /\ Mailed(mm) \in Int /\ Worth(r) \in Nat /\ nn \in [MsgIds -> MailType]
      /\ Mailed(nn) = Mailed(mm) - Worth(mm[m]) + Worth(r)
  BY <1>1, MailChanges
<1>3. Worth(mm[m]) = 0
  BY <1>1, WorthFacts
<1> QED
  BY <1>1, <1>2, <1>3

\* One, two or three messages under fresh numbers add what they hold.
LEMMA OnePosted ==
    ASSUME TypeOK, NEW ids \in Fresh(1), NEW r \in MailType, mail' = [mail EXCEPT ![ids[1]] = r]
    PROVE  Mailed(mail') = Mailed(mail) + Worth(r)
<1>1. ids[1] \in MsgIds /\ mail[ids[1]] = NoMail
  BY FreshIds
<1>2. Post(mail, ids[1], r, mail')
  BY <1>1 DEF Post, TypeOK
<1> QED
  BY <1>2, PostAdds

\* The same for two.
LEMMA TwoPosted ==
    ASSUME TypeOK, NEW ids \in Fresh(2), NEW r \in MailType, NEW s \in MailType,
           mail' = [mail EXCEPT ![ids[1]] = r, ![ids[2]] = s]
    PROVE  Mailed(mail') = Mailed(mail) + Worth(r) + Worth(s)
<1>1. PICK m, n : m = ids[1] /\ n = ids[2]
  OBVIOUS
<1>2. m \in MsgIds /\ n \in MsgIds /\ m # n /\ mail[m] = NoMail /\ mail[n] = NoMail
  BY <1>1, FreshIds
<1>3. PICK mm : mm = [mail EXCEPT ![m] = r]
  OBVIOUS
<1>4. Post(mail, m, r, mm)
  BY <1>2, <1>3 DEF Post, TypeOK
<1>5. /\ mm \in [MsgIds -> MailType] /\ Mailed(mail) \in Int /\ Worth(r) \in Nat
      /\ Mailed(mm) = Mailed(mail) + Worth(r) /\ \A j \in MsgIds \ {m} : mm[j] = mail[j]
  BY <1>4, PostAdds
<1>6. Post(mm, n, s, mail')
  BY <1>1, <1>2, <1>3, <1>5 DEF Post
<1>7. Mailed(mail') = Mailed(mm) + Worth(s)
  BY <1>6, PostAdds
<1> QED
  BY <1>5, <1>7

\* The same for three.
PostThree(ids, r, s, t) ==
    /\ ids \in Fresh(3) /\ r \in MailType /\ s \in MailType /\ t \in MailType
    /\ mail' = [mail EXCEPT ![ids[1]] = r, ![ids[2]] = s, ![ids[3]] = t]

\* They add what they hold.
LEMMA ThreePosted ==
    ASSUME TypeOK, NEW ids, NEW r, NEW s, NEW t, PostThree(ids, r, s, t)
    PROVE  Mailed(mail') = Mailed(mail) + Worth(r) + Worth(s) + Worth(t)
<1>0. /\ ids \in Fresh(3) /\ r \in MailType /\ s \in MailType /\ t \in MailType
      /\ mail' = [mail EXCEPT ![ids[1]] = r, ![ids[2]] = s, ![ids[3]] = t]
  BY DEF PostThree
<1>1. PICK m, n, k : m = ids[1] /\ n = ids[2] /\ k = ids[3]
  OBVIOUS
<1>2. /\ m \in MsgIds /\ n \in MsgIds /\ k \in MsgIds /\ m # n /\ m # k /\ n # k
      /\ mail[m] = NoMail /\ mail[n] = NoMail /\ mail[k] = NoMail
  BY <1>0, <1>1, FreshIds
<1>3. PICK mm : mm = [mail EXCEPT ![m] = r]
  OBVIOUS
<1>4. Post(mail, m, r, mm)
  BY <1>0, <1>2, <1>3 DEF Post, TypeOK
<1>5. /\ mm \in [MsgIds -> MailType] /\ Mailed(mail) \in Int /\ Worth(r) \in Nat
      /\ Mailed(mm) = Mailed(mail) + Worth(r) /\ \A j \in MsgIds \ {m} : mm[j] = mail[j]
  BY <1>4, PostAdds
<1>6. PICK nn : nn = [mm EXCEPT ![n] = s]
  OBVIOUS
<1>7. Post(mm, n, s, nn)
  BY <1>0, <1>2, <1>5, <1>6 DEF Post
<1>8. /\ nn \in [MsgIds -> MailType] /\ Worth(s) \in Nat
      /\ Mailed(nn) = Mailed(mm) + Worth(s) /\ \A j \in MsgIds \ {n} : nn[j] = mm[j]
  BY <1>7, PostAdds
<1>9. Post(nn, k, t, mail')
  BY <1>0, <1>1, <1>2, <1>3, <1>5, <1>6, <1>8 DEF Post
<1>10. Mailed(mail') = Mailed(nn) + Worth(t)
  BY <1>9, PostAdds
<1> QED
  BY <1>5, <1>8, <1>10

\* The auction house keeps the credits: a bid's refund is what the outbid
\* account staked, a sale pays what the buyer's debit or the winner's stake was.
LEMMA KeptAuction ==
    ASSUME TypeOK, HouseInv, Auction
    PROVE  Kept
<1>0. /\ Sums /\ wallet \in [Avatars -> Nat] /\ mail \in [MsgIds -> MailType]
      /\ listing \in [ListIds -> ListingType] /\ NoListing \in ListingType /\ Stake(NoListing) = 0
  BY SumsTyped, NoListingType DEF TypeOK, NoListing, Stake
<1>1. ASSUME NEW l \in ListIds, NEW r \in ListingType, listing' = [listing EXCEPT ![l] = r]
      PROVE  /\ Staked(listing)' = Staked(listing) + (Stake(r) - Stake(listing[l]))
             /\ Stake(listing[l]) \in Nat /\ Stake(r) \in Nat
  <2>1. /\ Staked(listing') = Staked(listing) - Stake(listing[l]) + Stake(r)
        /\ Stake(listing[l]) \in Nat /\ Stake(r) \in Nat
    BY <1>1, ListingSum
  <2> QED
    BY <1>0, <2>1 DEF Sums
<1>2. ASSUME NEW a \in Avatars, NEW n \in Nat, Debit(a, n) PROVE Purses(wallet)' = Purses(wallet) + (-n)
  <2>1. Purses(wallet') = Purses(wallet) - n
    BY <1>2, DebitSum
  <2> QED
    BY <1>0, <2>1 DEF Sums
<1>3. ASSUME NEW a \in Avatars, NEW s \in Slots, NEW us \in SUBSET Units,
             NEW p \in Prices, NEW q \in Prices, NEW l \in ListIds, PostListing(a, s, us, p, q, l)
      PROVE  Kept
  <2>1. Value(us) \in Nat /\ Deposit(Value(us)) \in Nat
    BY ValueType, AmountTypes
  <2>2. (IF p < 1 THEN 1 ELSE p) \in Nat /\ q \in Nat /\ Owner[a] \in Nat
    BY PriceAssumption, AvatarAssumption
  <2>3. Staked(listing') = Staked(listing)
    BY <1>3, <2>1, <2>2, PutUpSum DEF PostListing
  <2>4. /\ Debit(a, Deposit(Value(us))) /\ mail' = mail
        /\ issued' = issued + (-Deposit(Value(us)))
    BY <1>0, <1>3, <2>1 DEF PostListing, Sums
  <2>5. Purses(wallet)' = Purses(wallet) + (-Deposit(Value(us)))
    BY <1>2, <2>1, <2>4
  <2> QED
    BY <1>0, <2>1, <2>3, <2>4, <2>5 DEF Sums, Kept, Total
<1>4. ASSUME NEW us \in SUBSET Units, NEW l \in ListIds, BotPostOne(us, l) PROVE Kept
  <2>1. Value(us) \in Nat /\ BotStart(Value(us)) \in Nat /\ BotBuyout(Value(us)) \in Nat
    BY ValueType, AmountTypes
  <2>2. Staked(listing') = Staked(listing)
    BY <1>4, <2>1, PutUpSum, AvatarAssumption DEF BotPostOne
  <2>3. mail' = mail /\ wallet' = wallet /\ issued' = issued
    BY <1>4 DEF BotPostOne
  <2> QED
    BY <1>0, <2>2, <2>3 DEF Kept, Total
<1>5. ASSUME NEW l \in Open PROVE
          /\ l \in ListIds /\ listing[l] \in ListingType
          /\ BidRefund(l) \in MailType /\ Worth(BidRefund(l)) = Stake(listing[l])
          /\ NextBid(l) \in Nat
          /\ listing[l].bidder = None => Stake(listing[l]) = 0
          /\ listing[l].bidder # None => Stake(listing[l]) = listing[l].bid
  <2>1. l \in ListIds /\ listing[l] \in ListingType /\ listing[l].active
    BY <1>0 DEF Open
  <2>2. BidRefund(l) \in MailType /\ NextBid(l) \in Nat
    BY <2>1, NextBidType
  <2>3. Worth(BidRefund(l)) = IF listing[l].bidder = None THEN 0 ELSE listing[l].bid
    BY <2>1, WorthFacts DEF BidRefund, ListingType
  <2> QED
    BY <2>1, <2>2, <2>3 DEF Stake
<1>6. ASSUME NEW a \in Avatars, NEW l \in ListIds, PlaceBid(a, l) PROVE Kept
  <2> DEFINE r == [listing[l] EXCEPT !.bid = NextBid(l), !.bidder = Owner[a]]
  <2>1. l \in Open /\ Debit(a, NextBid(l)) /\ issued' = issued
    BY <1>6 DEF PlaceBid
  <2>2. r \in ListingType /\ Stake(r) = NextBid(l) /\ listing' = [listing EXCEPT ![l] = r]
    <3>1. listing[l] \in ListingType /\ listing[l].active /\ NextBid(l) \in Nat
      BY <1>5, <2>1 DEF Open
    <3>2. Owner[a] \in Nat /\ Owner[a] # None
      BY AvatarAssumption
    <3>3. r \in ListingType /\ r.active /\ r.bid = NextBid(l) /\ r.bidder = Owner[a]
      BY <3>1, <3>2 DEF ListingType
    <3>4. listing' = [listing EXCEPT ![l] = r]
      BY <1>6 DEF PlaceBid
    <3> HIDE DEF r
    <3> QED
      BY <3>2, <3>3, <3>4 DEF Stake
  <2> HIDE DEF r
  <2>3. Staked(listing)' = Staked(listing) + (NextBid(l) - Stake(listing[l])) /\ Stake(listing[l]) \in Nat
    BY <1>1, <2>2
  <2>4. PICK ids \in Fresh(1) : mail' = [mail EXCEPT ![ids[1]] = BidRefund(l)]
    BY <1>6 DEF PlaceBid
  <2>6. Mailed(mail)' = Mailed(mail) + Stake(listing[l])
    BY <1>5, <2>1, <2>4, OnePosted
  <2>7. Purses(wallet)' = Purses(wallet) + (-NextBid(l)) /\ NextBid(l) \in Nat
    BY <1>2, <1>5, <2>1
  <2> QED
    BY <1>0, <2>1, <2>3, <2>6, <2>7 DEF Sums, Kept, Total
<1>7. ASSUME NEW l \in ListIds, BotPlaceBid(l) PROVE Kept
  <2> DEFINE r == [listing[l] EXCEPT !.bid = listing[l].start, !.bidder = Bot]
  <2>1. /\ l \in Open /\ listing[l].bidder = None /\ listing' = [listing EXCEPT ![l] = r]
        /\ issued' = issued + listing[l].start /\ wallet' = wallet /\ mail' = mail
    BY <1>7 DEF BotPlaceBid
  <2>2. listing[l] \in ListingType /\ listing[l].active /\ listing[l].start \in Nat
    BY <1>5, <2>1 DEF Open, ListingType
  <2>3. r \in ListingType /\ Stake(r) = listing[l].start
    BY <2>2, AvatarAssumption DEF ListingType, Stake
  <2> HIDE DEF r
  <2>4. Staked(listing)' = Staked(listing) + (listing[l].start - Stake(listing[l]))
    BY <1>1, <2>1, <2>3
  <2>5. Stake(listing[l]) = 0
    BY <1>5, <2>1
  <2> QED
    BY <1>0, <2>1, <2>2, <2>4, <2>5 DEF Sums, Kept, Total
<1>8. ASSUME NEW l \in ListIds, Lapse(l) \/ Due(l) PROVE Kept
  <2>1. /\ listing[l] \in ListingType /\ issued' = issued /\ wallet' = wallet /\ mail' = mail
    BY <1>0, <1>8 DEF Lapse, Due
  <2>2. PICK r \in ListingType : Stake(r) = Stake(listing[l]) /\ listing' = [listing EXCEPT ![l] = r]
    BY <1>8, <2>1 DEF Lapse, Due, ListingType, Stake
  <2>3. Staked(listing)' = Staked(listing) + (Stake(r) - Stake(listing[l])) /\ Stake(r) \in Nat
    BY <1>1, <2>2
  <2> QED
    BY <1>0, <2>1, <2>2, <2>3 DEF Sums, Kept, Total
<1>9. ASSUME NEW l \in Open, listing' = [listing EXCEPT ![l] = NoListing]
      PROVE  Staked(listing)' = Staked(listing) + (-Stake(listing[l])) /\ Stake(listing[l]) \in Nat
  <2>1. l \in ListIds
    BY DEF Open
  <2>2. /\ Staked(listing)' = Staked(listing) + (Stake(NoListing) - Stake(listing[l]))
        /\ Stake(listing[l]) \in Nat
    BY <1>0, <1>1, <1>9, <2>1
  <2> QED
    BY <1>0, <2>2
<1>10. ASSUME NEW a \in Avatars, NEW l \in ListIds, Buyout(a, l) PROVE Kept
  <2> DEFINE y == ItemMail(Owner[a], a, listing[l].units)
             z == CreditMail(listing[l].seller, listing[l].buyout)
  <2>1. /\ l \in Open /\ Debit(a, listing[l].buyout) /\ issued' = issued
        /\ listing' = [listing EXCEPT ![l] = NoListing]
    BY <1>10 DEF Buyout
  <2>2. listing[l] \in ListingType /\ listing[l].buyout \in Nat /\ listing[l].seller \in Nat
        /\ listing[l].units \in SUBSET Units
    BY <1>5, <2>1 DEF ListingType
  <2>3. y \in MailType /\ z \in MailType /\ Worth(y) = 0 /\ Worth(z) = listing[l].buyout
    BY <2>2, MailTypes, WorthFacts, OwnerType
  <2>4. PICK ids \in Fresh(3) : mail' = [mail EXCEPT ![ids[1]] = BidRefund(l), ![ids[2]] = y, ![ids[3]] = z]
    BY <1>10 DEF Buyout
  <2> HIDE DEF y, z
  <2>6. BidRefund(l) \in MailType /\ Worth(BidRefund(l)) = Stake(listing[l])
    BY <1>5, <2>1
  <2>7. Mailed(mail') = Mailed(mail) + Worth(BidRefund(l)) + Worth(y) + Worth(z)
    <3>1. PostThree(ids, BidRefund(l), y, z)
      BY <2>3, <2>4, <2>6 DEF PostThree
    <3> QED
      BY <3>1, ThreePosted
  <2>8. Staked(listing)' = Staked(listing) + (-Stake(listing[l])) /\ Stake(listing[l]) \in Nat
    BY <1>9, <2>1
  <2>9. Purses(wallet)' = Purses(wallet) + (-listing[l].buyout)
    BY <1>2, <2>1, <2>2
  <2> QED
    BY <1>0, <2>1, <2>2, <2>3, <2>6, <2>7, <2>8, <2>9 DEF Sums, Kept, Total
<1>11. ASSUME NEW l \in ListIds, ResolveSold(l) PROVE Kept
  <2> DEFINE y == ItemMail(listing[l].bidder, None, listing[l].units)
             z == CreditMail(listing[l].seller, listing[l].bid)
  <2>1. /\ l \in Open /\ listing[l].bidder # None /\ issued' = issued /\ wallet' = wallet
        /\ listing' = [listing EXCEPT ![l] = NoListing]
    BY <1>11 DEF ResolveSold
  <2>2. /\ listing[l] \in ListingType /\ listing[l].bid \in Nat /\ listing[l].seller \in Nat
        /\ listing[l].units \in SUBSET Units /\ listing[l].bidder \in Nat /\ None \in Nat
    BY <1>5, <2>1 DEF ListingType, None
  <2>3. y \in MailType /\ z \in MailType /\ Worth(y) = 0 /\ Worth(z) = listing[l].bid
    BY <2>2, MailTypes, WorthFacts
  <2>4. PICK ids \in Fresh(2) : mail' = [mail EXCEPT ![ids[1]] = y, ![ids[2]] = z]
    BY <1>11 DEF ResolveSold
  <2> HIDE DEF y, z
  <2>6. Mailed(mail') = Mailed(mail) + Worth(y) + Worth(z)
    BY <2>3, <2>4, TwoPosted
  <2>7. Staked(listing)' = Staked(listing) + (-Stake(listing[l])) /\ Stake(listing[l]) = listing[l].bid
    BY <1>5, <1>9, <2>1
  <2> QED
    BY <1>0, <2>1, <2>2, <2>3, <2>6, <2>7 DEF Sums, Kept, Total
<1>12. ASSUME NEW l \in ListIds, ResolveUnsold(l) PROVE Kept
  <2> DEFINE y == ItemMail(listing[l].seller, None, listing[l].units)
             z == CreditMail(listing[l].seller, Refund(listing[l].deposit))
  <2>1. /\ l \in Open /\ listing[l].bidder = None /\ wallet' = wallet
        /\ issued' = issued + Refund(listing[l].deposit)
        /\ listing' = [listing EXCEPT ![l] = NoListing]
    BY <1>12 DEF ResolveUnsold
  <2>2. /\ listing[l] \in ListingType /\ Refund(listing[l].deposit) \in Nat /\ listing[l].seller \in Nat
        /\ listing[l].units \in SUBSET Units /\ None \in Nat
    BY <1>5, <2>1, AmountTypes DEF ListingType, None
  <2>3. y \in MailType /\ z \in MailType /\ Worth(y) = 0 /\ Worth(z) = Refund(listing[l].deposit)
    BY <2>2, MailTypes, WorthFacts
  <2>4. PICK ids \in Fresh(2) : mail' = [mail EXCEPT ![ids[1]] = y, ![ids[2]] = z]
    BY <1>12 DEF ResolveUnsold
  <2> HIDE DEF y, z
  <2>6. Mailed(mail') = Mailed(mail) + Worth(y) + Worth(z)
    BY <2>3, <2>4, TwoPosted
  <2>7. Staked(listing)' = Staked(listing) + (-Stake(listing[l])) /\ Stake(listing[l]) = 0
    BY <1>5, <1>9, <2>1
  <2> QED
    BY <1>0, <2>1, <2>2, <2>3, <2>6, <2>7 DEF Sums, Kept, Total
<1> QED
  BY <1>3, <1>4, <1>6, <1>7, <1>8, <1>10, <1>11, <1>12 DEF Auction

\* Mail, the vault and the game keep them: a loot moves a message's credits to
\* one wallet, and what deletion destroys is recorded.
LEMMA KeptElsewhere ==
    ASSUME TypeOK, EmptyInv, MailAndVault \/ Game
    PROVE  Kept
<1>0. /\ Sums /\ wallet \in [Avatars -> Nat] /\ mail \in [MsgIds -> MailType]
  BY SumsTyped DEF TypeOK
<1>1. ASSUME wallet' = wallet, mail' = mail, listing' = listing, issued' = issued PROVE Kept
  BY <1>1 DEF Kept, Total
<1>2. ASSUME NEW a \in Avatars, NEW b \in Avatars, NEW ss \in SUBSET Vault, SendMail(a, b, ss)
      PROVE  Kept
  <2> DEFINE r == [acct |-> Owner[b], to |-> b, credits |-> 0, looted |-> {},
                   items |-> [k \in Keys |-> IF k \in ss THEN Locked(a, k) ELSE {}]]
  <2>1. Vault \subseteq Slots
    BY SlotAssumption DEF Vault, Slots
  <2>2. \A k \in ss : Locked(a, k) \in SUBSET Units
    BY <2>1, StorageType
  <2>3. r \in MailType /\ Worth(r) = 0
    BY <2>2, OwnerType DEF MailType, Worth
  <2>4. PICK ids \in Fresh(1) : mail' = [mail EXCEPT ![ids[1]] = r]
    BY <1>2 DEF SendMail
  <2> HIDE DEF r
  <2>5. Mailed(mail') = Mailed(mail) + Worth(r)
    BY <2>3, <2>4, OnePosted
  <2>6. wallet' = wallet /\ listing' = listing /\ issued' = issued
    BY <1>2 DEF SendMail
  <2> QED
    BY <1>0, <2>3, <2>5, <2>6 DEF Kept, Total, Sums
<1>3. ASSUME NEW m \in MsgIds, NEW r \in MailType, mail' = [mail EXCEPT ![m] = r]
      PROVE  /\ Mailed(mail') = Mailed(mail) - Worth(mail[m]) + Worth(r)
             /\ Worth(mail[m]) \in Nat /\ Worth(r) \in Nat
  BY <1>0, <1>3, MailChanges
<1>4. ASSUME NEW m \in MsgIds, NEW acting \in Avatars \cup {None}, LootCredits(m, acting) PROVE Kept
  <2> DEFINE r == [mail[m] EXCEPT !.looted = @ \cup {0}]
  <2>1. mail[m] \in MailType /\ mail[m].credits \in Nat
    BY <1>0 DEF MailType
  <2>2. /\ 0 \notin mail[m].looted /\ mail' = [mail EXCEPT ![m] = r]
        /\ listing' = listing /\ issued' = issued
    BY <1>4 DEF LootCredits, Unlooted, MarkLooted
  <2>3. r \in MailType /\ Worth(r) = 0 /\ Worth(mail[m]) = mail[m].credits
    BY <2>1, <2>2 DEF MailType, Worth, Keys
  <2> HIDE DEF r
  <2>4. Mailed(mail') = Mailed(mail) - mail[m].credits
    <3>1. Mailed(mail') = Mailed(mail) - Worth(mail[m]) + Worth(r)
      BY <1>3, <2>2, <2>3
    <3> QED
      BY <1>0, <2>1, <2>3, <3>1 DEF Sums
  <2>5. PICK a \in Avatars : wallet' = [wallet EXCEPT ![a] = wallet[a] + mail[m].credits]
    BY <1>4, LootTargetType DEF LootCredits, TypeOK
  <2>6. wallet[a] \in Nat /\ wallet[a] + mail[m].credits \in Nat
    BY <1>0, <2>1
  <2>7. Purses(wallet') = Purses(wallet) - wallet[a] + (wallet[a] + mail[m].credits)
    BY <1>0, <2>5, <2>6, PurseChanges
  <2> QED
    BY <1>0, <2>1, <2>2, <2>4, <2>6, <2>7 DEF Kept, Total, Sums
<1>5. ASSUME NEW m \in MsgIds, NEW k \in Keys, NEW acting \in Avatars \cup {None}, LootItem(m, k, acting)
      PROVE  Kept
  <2> DEFINE r == [mail[m] EXCEPT !.looted = @ \cup {k}]
  <2>1. mail[m] \in MailType /\ mail[m].credits \in Nat
    BY <1>0 DEF MailType
  <2>2. /\ k \notin mail[m].looted /\ mail[m].items[k] # {} /\ mail' = [mail EXCEPT ![m] = r]
        /\ wallet' = wallet /\ listing' = listing /\ issued' = issued
    BY <1>5 DEF LootItem, Unlooted, MarkLooted
  <2>3. mail[m].credits = 0
    BY <2>1, <2>2 DEF EmptyInv, Plain, AttOf
  <2>4. r \in MailType /\ Worth(r) = 0 /\ Worth(mail[m]) = 0
    BY <2>1, <2>3 DEF MailType, Worth
  <2> HIDE DEF r
  <2>5. Mailed(mail') = Mailed(mail) - Worth(mail[m]) + Worth(r)
    BY <1>3, <2>2, <2>4
  <2> QED
    BY <1>0, <2>2, <2>4, <2>5 DEF Kept, Total, Sums
<1>6. ASSUME NEW m \in MsgIds, Discard(m) PROVE Kept
  <2>1. /\ mail' = [mail EXCEPT ![m] = NoMail] /\ issued' = issued - Worth(mail[m])
        /\ wallet' = wallet /\ listing' = listing
    BY <1>6 DEF Discard, Credits, Worth
  <2>2. Mailed(mail') = Mailed(mail) - Worth(mail[m]) + Worth(NoMail) /\ Worth(mail[m]) \in Nat
    BY <1>3, <2>1, MailTypes
  <2> QED
    BY <1>0, <2>1, <2>2, WorthFacts DEF Kept, Total, Sums
<1>7. ASSUME NEW a \in Avatars, DeleteCharacter(a) PROVE Kept
  <2>1. /\ wallet' = [wallet EXCEPT ![a] = 0] /\ issued' = issued - wallet[a] /\ wallet[a] \in Nat
        /\ mail' = mail /\ listing' = listing
    BY <1>0, <1>7 DEF DeleteCharacter
  <2>2. Purses(wallet') = Purses(wallet) - wallet[a] + 0
    BY <1>0, <2>1, PurseChanges
  <2> QED
    BY <1>0, <2>1, <2>2 DEF Kept, Total, Sums
<1>8. CASE MailAndVault
  BY <1>1, <1>2, <1>4, <1>5, <1>6, <1>8 DEF MailAndVault, DeleteMessage, SweepExpiredMail, TransferVaultItem
<1>9. CASE Game
  BY <1>1, <1>7, <1>9 DEF Game, HandleLogin, HandleLogout, UpsertInventorySlot, SpendTradeXP, goods
<1> QED
  BY <1>8, <1>9

\* No credit is made or lost by any interleaving of bids, refunds, buyouts,
\* settlements, loots and deletions: wallets, unlooted mail and standing bids
\* hold what there was at first, plus what the faucets brought in, less what the
\* sinks took. For any number of avatars, listings and messages.
THEOREM CreditsAreConserved == Spec => []Ledger
<1> DEFINE Money == TypeOK /\ Total = Purses(Purse) + issued
<1>1. Init => Money
  <2> SUFFICES ASSUME Init PROVE Money
    OBVIOUS
  <2>1. TypeOK
    BY InitType
  <2>2. \A m \in MsgIds : Worth(mail[m]) = 0
    BY WorthFacts DEF Init
  <2>3. Standing(listing) = {}
    BY DEF Init, Standing, NoListing
  <2>4. /\ Purses(wallet) \in Int /\ Mailed(mail) = 0 /\ Staked(listing) = 0
    BY <2>1, <2>2, <2>3, SumTypes DEF TypeOK
  <2> QED
    BY <2>1, <2>4 DEF Init, Total
<1>2. TypeOK /\ TypeOK' /\ HouseInv /\ EmptyInv /\ Money /\ [Next]_vars => Money'
  <2> SUFFICES ASSUME TypeOK, TypeOK', HouseInv, EmptyInv, Money, [Next]_vars PROVE Money'
    OBVIOUS
  <2>1. Kept
    <3>1. CASE Next
      BY <3>1, KeptAuction, KeptElsewhere DEF Next
    <3>2. CASE UNCHANGED vars
      BY <3>2 DEF vars, Kept, Total
    <3> QED
      BY <3>1, <3>2
  <2>2. Total \in Int /\ issued \in Int /\ Total' \in Int /\ issued' \in Int
    <3>1. /\ Purses(wallet)' \in Int /\ Mailed(mail)' \in Int /\ Staked(listing)' \in Int
      BY SumTypes DEF TypeOK
    <3> QED
      BY <3>1, SumsTyped DEF Sums, Total, TypeOK
  <2>3. Purses(Purse) \in Int
    <3>1. mail \in [MsgIds -> MailType] /\ listing \in [ListIds -> ListingType]
      BY DEF TypeOK
    <3> QED
      BY <3>1, SumTypes, StockAssumption
  <2> QED
    BY <2>1, <2>2, <2>3 DEF Kept
<1>3. Money => Ledger
  BY LedgerIs
<1> QED
  BY <1>1, <1>2, <1>3, HouseSound, ApartInductive, PTL DEF Spec, ApartInv

=============================================================================
