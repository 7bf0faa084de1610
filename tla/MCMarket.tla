------------------------------ MODULE MCMarket ------------------------------
(***************************************************************************)
(* Small instances of Market: account 1 with avatars 6 and 7, account 2    *)
(* with avatar 11, and the bot's account 9.                                *)
(***************************************************************************)
EXTENDS Market, FiniteSetsExt, TLC

MCOwner == [a \in Avatars |-> a \div 5]
MCPurse == [a \in Avatars |-> IF a = 7 THEN 0 ELSE IF a = 11 THEN 2 ELSE 3]
MCVendor == [u \in Units |-> IF u = "part" THEN 1 ELSE 11]

\* A stack of two and, in another avatar's last slot, a no-trade item; any
\* other unit is the faucet's.
MCStock ==
    [a \in Avatars |-> [s \in Slots |-> Units \cap
        (IF a = 6 /\ s = 1 THEN {"ore1", "ore2"}
         ELSE IF a = 7 /\ s = 2 THEN {"bound"} ELSE {})]]

\* Money: the credits in wallets, in mail that is not looted and in standing
\* bids are what was there at first plus what the bot's bids and the refunded
\* deposits brought in, less deposits and forfeits: no interleaving of bids,
\* refunds, buyouts, settlements and loots creates or destroys a credit.
Ledger ==
    MapThenSumSet(LAMBDA a : wallet[a], Avatars)
        + MapThenSumSet(Credits, MsgIds)
        + MapThenSumSet(LAMBDA l : listing[l].bid, {l \in Open : listing[l].bidder # None})
    = MapThenSumSet(LAMBDA a : Purse[a], Avatars) + issued
=============================================================================
