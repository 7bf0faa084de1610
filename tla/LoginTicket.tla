---------------------------- MODULE LoginTicket -----------------------------
(***************************************************************************)
(* How a client gets from its password to a player: /AuthLogin of          *)
(* login-server/net7go (rate limit, gate, ticket), and the global plane    *)
(* between the proxy (proxy/UDPClient_linux.cpp) and the game server       *)
(* (server/src/UDP_Global.cpp), which validates the ticket, sends the list *)
(* of avatars and makes a player for the one selected.                     *)
(*                                                                         *)
(* A ticket carries a random token, and the player is bound to one: only   *)
(* datagrams with it are accepted from then on.  login_ticket has one row  *)
(* per account, though an account may be logged in to by several sessions. *)
(* The server serves the global plane with one receive thread; requests    *)
(* and answers are datagrams, which are delayed, lost and sent again.      *)
(***************************************************************************)
EXTENDS Integers, FiniteSets, Functions, Bags

CONSTANTS
    Sessions,    \* a client and its proxy: one address and port
    Account,     \* Account[s]: whose account session s logs in to
    Address,     \* Address[s]: the client address the relay reports
    Closed,      \* accounts that are banned, inactive or not admitted
    Burst,       \* AuthBurst; a token of the bucket comes back per unit of time
    BucketLife,  \* ttl of the buckets
    GcEvery,     \* gcEvery
    Gate,        \* ArgonMaxConcurrent
    TicketLife,  \* ticketExpireMs, 30 minutes
    StashLife,   \* kSessionTokenTtlMs, 5 minutes
    Nodes,       \* MAX_ONLINE_PLAYERS
    Sends,       \* how often WaitForResponse sends, 5
    Reliable,    \* answers come while they are waited for, nobody lingers
    NetCap,      \* bound: datagrams in flight
    MaxIssued,   \* bound: tickets issued
    MaxTime      \* bound: time

Accounts == {Account[s] : s \in Sessions}
Addresses == {Address[s] : s \in Sessions}

LoginAssumption ==
    /\ {Burst, Gate, Nodes, Sends} \subseteq Nat \ {0}
    /\ {BucketLife, GcEvery, TicketLife, StashLife, NetCap, MaxIssued, MaxTime} \subseteq Nat
    /\ BucketLife >= Burst
    /\ Reliable \in BOOLEAN

VARIABLES
    now,
    buckets,     \* ipLimiter.buckets, by address
    lastGC,      \* ipLimiter.lastGC
    passed,      \* history: requests let through, by address and time
    auth,        \* the /AuthLogin request of each session
    row,         \* login_ticket, by account
    issued,      \* tickets issued: the last token
    ticket,      \* the ticket the client of each session holds
    stage,       \* where each session is
    sends,       \* datagrams sent in this WaitForResponse
    key,         \* m_AuthToken of the proxy, put around every datagram
    known,       \* m_PlayerID # 0 in the proxy
    net,         \* datagrams in flight
    stash,       \* g_SessionTokens, by address and port
    player       \* the player node of each session: its token, or what follows

loginVars == <<buckets, lastGC, passed, auth, row, issued, ticket>>
proxyVars == <<stage, sends, key, known>>
serverVars == <<stash, player>>
vars == <<now, loginVars, proxyVars, net, serverVars>>

NoToken == 0            \* no ticket, or a player to whom no token is bound
Absent == -1            \* no player
Never == [token |-> NoToken, expires |-> -1]
Unseen == [tokens |-> -1, last |-> 0]

Datagram(s, kind, token) == [from |-> s, kind |-> kind, token |-> token]
Requests == {"ticket", "avatar"}
Answers == {"list", "confirm", "error"}

Init ==
    /\ now = 0
    /\ buckets = [a \in Addresses |-> Unseen]
    /\ lastGC = 0
    /\ passed = [a \in Addresses |-> [t \in 0..MaxTime |-> 0]]
    /\ auth = [s \in Sessions |-> "idle"]
    /\ row = [a \in Accounts |-> Never]
    /\ issued = 0
    /\ ticket = [s \in Sessions |-> NoToken]
    /\ stage = [s \in Sessions |-> "login"]
    /\ sends = [s \in Sessions |-> 0]
    /\ key = [s \in Sessions |-> NoToken]
    /\ known = [s \in Sessions |-> FALSE]
    /\ net = EmptyBag
    /\ stash = [s \in Sessions |-> Never]
    /\ player = [s \in Sessions |-> Absent]

-----------------------------------------------------------------------------
(* /AuthLogin                                                              *)

\* The buckets allow looks at: those untouched for longer than their ttl are
\* dropped, when it is time to look for them.
Collected ==
    IF now - lastGC >= GcEvery
    THEN [a \in Addresses |-> IF now - buckets[a].last > BucketLife THEN Unseen ELSE buckets[a]]
    ELSE buckets

\* Mutant: what comes back while nobody asks is not capped.
RefilledUncapped(b) == IF b = Unseen THEN Burst ELSE b.tokens + (now - b.last)

\* What is in a bucket now: full when it is new, and never more than full.
Refilled(b) ==
    IF b = Unseen \/ b.tokens + (now - b.last) > Burst THEN Burst ELSE b.tokens + (now - b.last)

\* allow, and the end of the handler when it refuses.
AuthLogin(s) ==
    LET a == Address[s]
        tokens == Refilled(Collected[a])
        ok == tokens >= 1
    IN  /\ stage[s] = "login" /\ auth[s] = "idle"
        /\ issued < MaxIssued
        /\ lastGC' = IF now - lastGC >= GcEvery THEN now ELSE lastGC
        /\ buckets' = [Collected EXCEPT ![a] =
                        [tokens |-> IF ok THEN tokens - 1 ELSE tokens, last |-> now]]
        /\ passed' = IF ok THEN [passed EXCEPT ![a][now] = @ + 1] ELSE passed
        /\ auth' = [auth EXCEPT ![s] = IF ok THEN "gate" ELSE "idle"]
        /\ UNCHANGED <<now, row, issued, ticket, proxyVars, net, serverVars>>

\* argonGate: a slot, or after two seconds without one an answer at once.
Verifying == {s \in Sessions : auth[s] = "verify"}

Acquire(s) ==
    /\ auth[s] = "gate"
    /\ auth' = [auth EXCEPT ![s] = IF Cardinality(Verifying) < Gate THEN "verify" ELSE "idle"]
    /\ UNCHANGED <<now, buckets, lastGC, passed, row, issued, ticket, proxyVars, net, serverVars>>

\* No such account, a wrong password, an error of the database.
Refuse(s) ==
    /\ auth[s] = "verify"
    /\ auth' = [auth EXCEPT ![s] = "idle"]
    /\ UNCHANGED <<now, buckets, lastGC, passed, row, issued, ticket, proxyVars, net, serverVars>>

\* The ticket is stored over the one the account had; the client may not be told,
\* when the statement or the answer times out.
upsertTicket(s, told) ==
    /\ auth[s] = "verify"
    /\ issued < MaxIssued
    /\ issued' = issued + 1
    /\ row' = [row EXCEPT ![Account[s]] = [token |-> issued', expires |-> now + TicketLife]]
    /\ ticket' = IF told THEN [ticket EXCEPT ![s] = issued'] ELSE ticket
    /\ auth' = [auth EXCEPT ![s] = "idle"]
    /\ UNCHANGED <<now, buckets, lastGC, passed, proxyVars, net, serverVars>>

-----------------------------------------------------------------------------
(* The proxy                                                               *)

Waiting(s) == stage[s] \in Requests
Request(s, kind, token) ==
    /\ BagCardinality(net) < NetCap
    /\ net' = net (+) SetToBag({Datagram(s, kind, token)})

\* HandleGlobalConnect: the token of the ticket is the proxy's key from here on.
HandleGlobalConnect(s) ==
    /\ stage[s] = "login" /\ auth[s] = "idle" /\ ticket[s] # NoToken
    /\ key' = [key EXCEPT ![s] = ticket[s]]
    /\ stage' = [stage EXCEPT ![s] = "ticket"]
    /\ sends' = [sends EXCEPT ![s] = 1]
    /\ Request(s, "ticket", ticket[s])
    /\ UNCHANGED <<now, loginVars, known, serverVars>>

\* SendAvatarLogin: the player has selected an avatar.
SendAvatarLogin(s) ==
    /\ stage[s] = "select"
    /\ Reliable => stash[s].expires >= now
    /\ stage' = [stage EXCEPT ![s] = "avatar"]
    /\ sends' = [sends EXCEPT ![s] = 1]
    /\ Request(s, "avatar", key[s])
    /\ UNCHANGED <<now, loginVars, key, known, serverVars>>

\* WaitForResponse sends again after a second without an answer.
SendAgain(s) ==
    /\ ~Reliable
    /\ Waiting(s) /\ sends[s] < Sends
    /\ sends' = [sends EXCEPT ![s] = @ + 1]
    /\ Request(s, stage[s], key[s])
    /\ UNCHANGED <<now, loginVars, stage, key, known, serverVars>>

\* What the session falls back to when the wait ends without success: no list of
\* avatars, or "galaxy full" and another choice.
Failed(s) == IF stage[s] = "ticket" THEN "login" ELSE "select"

GiveUp(s) ==
    /\ ~Reliable
    /\ Waiting(s) /\ sends[s] = Sends
    /\ stage' = [stage EXCEPT ![s] = Failed(s)]
    /\ UNCHANGED <<now, loginVars, sends, key, known, net, serverVars>>

\* Any answer ends the wait (m_global_account_rcv), whatever it answers; a list is
\* taken for a confirmation once the proxy knows a player.
Succeeds(s, kind) ==
    /\ kind # "error"
    /\ stage[s] = "avatar" => kind = "confirm" \/ known[s]

Reached(s) == IF stage[s] = "ticket" THEN "select" ELSE "in"

Receive(d) ==
    LET s == d.from
    IN  /\ d.kind \in Answers
        /\ net' = net (-) SetToBag({d})
        /\ known' = [known EXCEPT ![s] = @ \/ d.kind = "confirm"]
        /\ stage' = [stage EXCEPT ![s] =
                        IF ~Waiting(s) THEN @
                        ELSE IF Succeeds(s, d.kind) THEN Reached(s) ELSE Failed(s)]
        /\ UNCHANGED <<now, loginVars, sends, key, serverVars>>

-----------------------------------------------------------------------------
(* The game server                                                         *)

Reply(d, kind) == net' = (net (-) SetToBag({d})) (+) SetToBag({Datagram(d.from, kind, NoToken)})

\* ValidateTicketSuffix.
ValidateTicketSuffix(a, token) == row[a].token = token /\ row[a].expires >= now

\* StashSessionToken, which drops what has expired.
Stashed(s, token) ==
    [x \in Sessions |->
        IF x = s THEN [token |-> token, expires |-> now + StashLife]
        ELSE IF stash[x].expires < now THEN Never ELSE stash[x]]

ProcessTicketInfo(d) ==
    LET a == Account[d.from]
        valid == ValidateTicketSuffix(a, d.token)
    IN  /\ d.kind = "ticket"
        /\ stash' = IF valid THEN Stashed(d.from, d.token) ELSE stash
        /\ Reply(d, IF valid /\ a \notin Closed THEN "list" ELSE "error")
        /\ UNCHANGED <<now, loginVars, proxyVars, player>>

\* Mutant: the token of the account's row, as before the stash.
BoundByRow(s) ==
    LET r == row[Account[s]] IN IF r.expires >= now THEN r.token ELSE NoToken

\* The token to bind: the one this session has presented, unless it is too old, or
\* that of the account's row (TakeSessionToken, GetLoginTokenBinary).
Bound(s) ==
    LET r == row[Account[s]]
    IN  IF stash[s].expires >= now THEN stash[s].token
        ELSE IF r.expires >= now THEN r.token ELSE NoToken

\* A node is taken and the one the character had is dropped.
HandleGlobalTicketRequest(d) ==
    /\ d.kind = "avatar"
    /\ IF Cardinality({s \in Sessions : player[s] # Absent}) < Nodes
       THEN /\ player' = [player EXCEPT ![d.from] = Bound(d.from)]
            /\ stash' = [stash EXCEPT ![d.from] = Never]
            /\ Reply(d, "confirm")
       ELSE /\ Reply(d, "error")
            /\ UNCHANGED <<player, stash>>
    /\ UNCHANGED <<now, loginVars, proxyVars>>

\* The player leaves the game, or it is dropped when nothing is heard of it.
DropPlayerFromGalaxy(s) ==
    /\ player[s] # Absent
    /\ player' = [player EXCEPT ![s] = Absent]
    /\ stage' = [stage EXCEPT ![s] = IF @ = "in" THEN "login" ELSE @]
    /\ UNCHANGED <<now, loginVars, sends, key, known, net, stash>>

-----------------------------------------------------------------------------
(* The rest of the world                                                   *)

Lose(d) ==
    /\ ~Reliable
    /\ net' = net (-) SetToBag({d})
    /\ UNCHANGED <<now, loginVars, proxyVars, serverVars>>

\* The player goes back from the list of avatars to the login.
Back(s) ==
    /\ stage[s] = "select"
    /\ stage' = [stage EXCEPT ![s] = "login"]
    /\ UNCHANGED <<now, loginVars, sends, key, known, net, serverVars>>

Tick ==
    /\ now < MaxTime
    /\ Reliable => net = EmptyBag
    /\ now' = now + 1
    /\ UNCHANGED <<loginVars, proxyVars, net, serverVars>>

LoginServer(s) ==
    AuthLogin(s) \/ Acquire(s) \/ Refuse(s) \/ upsertTicket(s, TRUE) \/ upsertTicket(s, FALSE)
Proxy(s) == HandleGlobalConnect(s) \/ SendAvatarLogin(s) \/ SendAgain(s) \/ GiveUp(s)

Next ==
    \/ \E s \in Sessions : LoginServer(s) \/ Proxy(s) \/ DropPlayerFromGalaxy(s) \/ Back(s)
    \/ \E d \in BagToSet(net) :
        Receive(d) \/ ProcessTicketInfo(d) \/ HandleGlobalTicketRequest(d) \/ Lose(d)
    \/ Tick

Spec == Init /\ [][Next]_vars

-----------------------------------------------------------------------------
(* Properties                                                              *)

Tokens == 0..MaxIssued

TypeOK ==
    /\ now \in 0..MaxTime /\ lastGC \in 0..MaxTime
    /\ buckets \in [Addresses -> [tokens : -1..Burst, last : 0..MaxTime]]
    /\ auth \in [Sessions -> {"idle", "gate", "verify"}]
    /\ row \in [Accounts -> [token : Tokens, expires : -1..MaxTime + TicketLife]]
    /\ issued \in Tokens /\ ticket \in [Sessions -> Tokens] /\ key \in [Sessions -> Tokens]
    /\ stage \in [Sessions -> Requests \cup {"login", "select", "in"}]
    /\ sends \in [Sessions -> 0..Sends] /\ known \in [Sessions -> BOOLEAN]
    /\ IsABag(net)
    /\ BagToSet(net) \subseteq [from : Sessions, kind : Requests \cup Answers, token : Tokens]
    /\ stash \in [Sessions -> [token : Tokens, expires : -1..MaxTime + StashLife]]
    /\ player \in [Sessions -> Tokens \cup {Absent}]

\* The player of a session in the game is heard: it is bound to the very token the
\* session's proxy sends, although a second login to the account has replaced the row
\* ("bind THAT token at character-select", UDP_Global.cpp:54).
OwnToken ==
    \A s \in Sessions : stage[s] = "in" /\ player[s] # Absent => player[s] = key[s]

\* Over any stretch of time an address gets no more than a full bucket and what has
\* come back meanwhile through to the password check ("bounds brute-force attempts",
\* ratelimit.go:11), whatever was evicted.
Throttled ==
    \A a \in Addresses : \A from \in 0..now :
        SumFunctionOnSet(passed[a], from..now) <= Burst + (now - from)
=============================================================================
