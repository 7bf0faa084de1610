----------------------------- MODULE MCProxyLink ----------------------------
(***************************************************************************)
(* The link between a client's proxy and the game server, in small         *)
(* instances: the reliable stream (ReliableUdp) of small messages (whole)  *)
(* and with a message of two or three packets (split, long); and the login *)
(* (LoginTicket) over a network that loses (lossy), of two sessions to one *)
(* account (multibox), and of two accounts from one address to a server    *)
(* with room for one (flood).  Stream and login share no variable, so that *)
(* it is enough to let one of them move.                                   *)
(***************************************************************************)
EXTENDS ReliableUdp

CONSTANTS
    Parts,
    Lossy      \* sessions, all on one account, that log in over the network that loses

VARIABLES
    part,
    now, buckets, lastGC, passed, auth, row, issued, ticket,
    stage, sends, key, known, wire, stash, player

loginVars == <<now, buckets, lastGC, passed, auth, row, issued, ticket,
               stage, sends, key, known, wire, stash, player>>

Whole == [head |-> TRUE, size |-> 1, rest |-> 0]

Small == <<Whole, Whole, Whole, Whole>>

\* A message of two packets, and one of three, between two small ones.
OneSplit == <<Whole,
              [head |-> TRUE, size |-> 2, rest |-> 1],
              [head |-> FALSE, size |-> 1, rest |-> 0],
              Whole>>
LongSplit == <<Whole,
               [head |-> TRUE, size |-> 2, rest |-> 3],
               [head |-> FALSE, size |-> 2, rest |-> 1],
               [head |-> FALSE, size |-> 1, rest |-> 0],
               Whole>>

Split == INSTANCE ReliableUdp WITH
    Plan <- OneSplit, Ring <- 2, Window <- 3, Losses <- 1, NetCap <- 2, Garbled <- {1}
Long == INSTANCE ReliableUdp WITH
    Plan <- LongSplit, Ring <- 2, Window <- 3, Losses <- 1, NetCap <- 2, Garbled <- {1},
    Faulty <- {2}

Pair == {"first", "second"}
Same == [s \in Pair |-> "one"]
Own == [s \in Pair |-> s]

Resent == INSTANCE LoginTicket WITH
    Sessions <- Lossy, Account <- Same, Address <- Own, Closed <- {},
    Burst <- 1, BucketLife <- 1, GcEvery <- 1, Gate <- 1,
    TicketLife <- 2, StashLife <- 1, Nodes <- 2, Sends <- 2, Reliable <- FALSE,
    NetCap <- 2, MaxIssued <- Cardinality(Lossy), MaxTime <- 2, net <- wire
Multibox == INSTANCE LoginTicket WITH
    Sessions <- Pair, Account <- Same, Address <- Own, Closed <- {},
    Burst <- 2, BucketLife <- 2, GcEvery <- 2, Gate <- 1,
    TicketLife <- 1, StashLife <- 0, Nodes <- 2, Sends <- 1, Reliable <- TRUE,
    NetCap <- 2, MaxIssued <- 2, MaxTime <- 0, net <- wire
Flood == INSTANCE LoginTicket WITH
    Sessions <- Pair, Account <- Own, Address <- Same, Closed <- {"second"},
    Burst <- 1, BucketLife <- 2, GcEvery <- 1, Gate <- 1,
    TicketLife <- 1, StashLife <- 1, Nodes <- 1, Sends <- 1, Reliable <- TRUE,
    NetCap <- 2, MaxIssued <- 2, MaxTime <- 2, net <- wire
ASSUME LoginAssumption ==
    /\ Resent!LoginAssumption /\ Multibox!LoginAssumption
    /\ Flood!LoginAssumption

linkVars == <<part, vars, loginVars>>

OfWhole(A) == part = "whole" /\ A /\ UNCHANGED <<part, loginVars>>
OfSplit(A) == part = "split" /\ A /\ UNCHANGED <<part, loginVars>>
OfLong(A) == part = "long" /\ A /\ UNCHANGED <<part, loginVars>>
OfLogin(p, A) == part = p /\ A /\ UNCHANGED <<part, vars>>

LinkInit ==
    /\ part \in Parts
    /\ IF part = "long" THEN Long!Init ELSE Init
    /\ CASE part = "multibox" -> Multibox!Init
         [] part = "flood" -> Flood!Init
         [] OTHER -> Resent!Init

LinkNext ==
    \/ OfWhole(Next)
    \/ OfSplit(Split!Next)
    \/ OfLong(Long!Next)
    \/ OfLogin("lossy", Resent!Next)
    \/ OfLogin("multibox", Multibox!Next)
    \/ OfLogin("flood", Flood!Next)

\* The fairness of ReliableUdp for the stream of small messages.
LinkFairness ==
    /\ WF_linkVars(OfWhole(SendPacketCache))
    /\ WF_linkVars(OfWhole(\E a \in asks : ReSendOpcodes(a)))
    /\ \A n \in Packets : SF_linkVars(OfWhole(Arrives(n)))
    /\ SF_linkVars(OfWhole(PumpPacketResend))
    /\ WF_linkVars(OfWhole(DrainReadyPackets))

LinkSpec == LinkInit /\ [][LinkNext]_linkVars /\ LinkFairness


\* The stream is forwarded in order and once, however the network reorders it and
\* whatever is resent (SendPacketSequence, DrainReadyPackets).  A small message is
\* missing only when the proxy gave a packet up, and before it did nothing is made
\* out of packets that are not one message.
StreamFaithful ==
    /\ part = "whole" => TypeOK /\ InOrderOnce /\ NoSilentLoss
    /\ part = "split" => Split!TypeOK /\ Split!InOrderOnce /\ Split!NoGarbage
    /\ part = "long" => Long!TypeOK /\ Long!InOrderOnce /\ Long!NoGarbage

\* A session in the game is heard: its player is bound to the token its proxy sends,
\* with another session on the account, or on its own however often it asks (Bound); and
\* no address gets more password checks than its bucket allows (allow).
LoginsSound ==
    /\ part = "lossy" => Resent!TypeOK /\ Resent!Throttled /\ Resent!OwnToken
    /\ part = "multibox" => Multibox!TypeOK /\ Multibox!Throttled /\ Multibox!OwnToken
    /\ part = "flood" => Flood!TypeOK /\ Flood!Throttled /\ Flood!OwnToken

\* OwnToken of sessions whose requests are sent again: "every avatar-login is
\* preceded by a fresh ProcessTicketInfo" (UDP_Global.cpp:94), so that the token of
\* another session is never bound.
FreshToken == part = "lossy" => Resent!OwnToken

\* NoStall of the small messages: what has arrived is not left waiting.
NoStallOfWhole ==
    \A n \in Packets : part = "whole" /\ loggedIn /\ stored[n] \in Ready ~> current > n
=============================================================================
