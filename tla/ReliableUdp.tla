----------------------------- MODULE ReliableUdp ----------------------------
(***************************************************************************)
(* The reliable stream from the game server to a player's proxy: the       *)
(* sequenced datagrams and the resend ring of server/src/                  *)
(* PlayerConnection.cpp, and the reassembly, the resend requests and the   *)
(* timer of proxy/UDPProxyToClient_linux.cpp.  The network loses and       *)
(* reorders datagrams and requests; a resent datagram may arrive beside    *)
(* the one it replaces.                                                    *)
(*                                                                         *)
(* The stream of one sector session is a constant: Plan[n + 1] is packet n,*)
(* as SendPacketCache cuts it.  A packet either begins a message or        *)
(* continues one; a message that does not end in its first packet is       *)
(* reassembled by the proxy from the length it announces.                  *)
(***************************************************************************)
EXTENDS Integers, Sequences, FiniteSets, Bags

CONSTANTS
    Plan,       \* records [head, size, rest], see below
    Start,      \* the packet that carries the START opcode
    Ring,       \* RESEND_ELEMENTS, 64, and the window of processed packets
    Window,     \* how far ahead of the head an arrival is acted on, 30
    Patience,   \* arrivals or retries before a packet is skipped, 10
    Faulty,     \* packets whose datagrams the network may delay or lose
    Losses,     \* bound: datagrams and requests lost
    NetCap,     \* bound: datagrams in flight
    Garbled     \* lengths read from bytes that are not a header

N == Len(Plan)
Packets == 0..N - 1
P(n) == Plan[n + 1]

\* head: the packet begins a message; size: its payload; rest: what of the
\* message comes after it.
ASSUME PlanAssumption ==
    /\ Plan \in Seq([head : BOOLEAN, size : Nat \ {0}, rest : Nat])
    /\ N > 0 /\ P(0).head /\ P(N - 1).rest = 0
    /\ \A n \in 1..N - 1 : P(n).head <=> P(n - 1).rest = 0
    /\ \A n \in 1..N - 1 : ~P(n).head => P(n - 1).rest = P(n).size + P(n).rest
ASSUME BoundsAssumption ==
    /\ {Ring, Patience, NetCap} \subseteq Nat \ {0}
    /\ {Window, Losses} \subseteq Nat
    /\ Faulty \subseteq Packets /\ Start \in Packets
    /\ Garbled \subseteq Nat \ {0}

VARIABLES
    next,       \* m_PacketSequenceNum
    net,        \* datagrams in flight
    asks,       \* 0x2017 requests in flight
    lost,       \* datagrams and requests lost so far
    current,    \* m_CurrentPacketNum
    stored,     \* m_Packets
    timeout,    \* m_PacketTimeout
    split,      \* the message being reassembled, or NoSplit
    drain,      \* where DrainReadyPackets is: "no", or what triggered it
    loggedIn,   \* m_LoginComplete
    client,     \* history: what was forwarded, each as its packets
    given       \* history: packets skipped or filled in blank

serverVars == <<next>>
proxyVars == <<current, stored, timeout, split, drain, loggedIn, client, given>>
vars == <<next, net, asks, lost, proxyVars>>

NoSplit == [start |-> -1]
Blank == "blank"
Done == "done"
Asked == "asked"        \* PACKET_RE_REQUESTED
Ready == {"data", "fill"}

Datagram(n, kind, cont) == [seq |-> n, kind |-> kind, cont |-> cont]

Init ==
    /\ next = 0
    /\ net = EmptyBag
    /\ asks = {}
    /\ lost = 0
    /\ current = 0
    /\ stored = [n \in Packets |-> Blank]
    /\ timeout = 0
    /\ split = NoSplit
    /\ drain = "no"
    /\ loggedIn = FALSE
    /\ client = <<>>
    /\ given = {}

-----------------------------------------------------------------------------
(* The server                                                              *)

\* SendPacketCache: a chunk of a split message goes out as 0x201A.
SendPacketCache ==
    /\ next < N
    /\ BagCardinality(net) < NetCap
    /\ net' = net (+) SetToBag({Datagram(next, "data", ~P(next).head)})
    /\ next' = next + 1
    /\ UNCHANGED <<asks, lost, proxyVars>>

\* ReSendOpcodes: each packet asked for is answered, as 0x2016 whatever it was,
\* with a header and nothing else when the ring no longer holds it.
Fresh(n) == n < next /\ next <= n + Ring
Answer(n) == Datagram(n, IF Fresh(n) THEN "data" ELSE "fill", FALSE)

ReSendOpcodes(a) ==
    LET count == IF a.count > Ring THEN Ring ELSE a.count
    IN  /\ asks' = asks \ {a}
        /\ BagCardinality(net) < NetCap
        /\ net' = net (+) SetToBag({Answer(n) : n \in a.start..a.start + count - 1})
        /\ UNCHANGED <<next, lost, proxyVars>>

-----------------------------------------------------------------------------
(* The network                                                             *)

Lose(d) ==
    /\ lost < Losses
    /\ d.seq \in Faulty
    /\ net' = net (-) SetToBag({d})
    /\ lost' = lost + 1
    /\ UNCHANGED <<next, asks, proxyVars>>

LoseAsk(a) ==
    /\ lost < Losses
    /\ asks' = asks \ {a}
    /\ lost' = lost + 1
    /\ UNCHANGED <<next, net, proxyVars>>

-----------------------------------------------------------------------------
(* The proxy's receive thread                                              *)

\* Mutant: the count leaves out the last packet of the hole.
AskShort(start, count) == asks' = asks \cup {[start |-> start, count |-> count - 1]}

\* RequestResend
Ask(start, count) == asks' = asks \cup {[start |-> start, count |-> count]}

\* Mutant: any packet that is not early moves the head back.
HeadRewound(n) == IF n <= current THEN n ELSE current

\* Packet 0 starts the stream afresh.
HeadFor(n) == IF n = 0 THEN 0 ELSE current

\* Mutant: the two sequence opcodes swapped.
TriggerSwapped(d) == IF d.cont THEN "plain" ELSE "cont"

\* The continuation argument: what triggered the drain, not what is drained.
Trigger(d) == IF d.cont THEN "cont" ELSE "plain"

\* Mutant: a packet once asked for is no hole any more.
HoleBlank == {Blank}

\* A head that is still to come.
Hole == {Blank, Asked}

\* SendPacketSequence.  Every packet is stored, whatever was known of it; then
\* the hole at the head, if there is one, is asked for once, waited for, and
\* given up.
SendPacketSequence(d) ==
    LET n == d.seq
        head == HeadFor(n)
        kept == IF n = 0 THEN [i \in Packets |-> Blank] ELSE stored
        held == [kept EXCEPT ![n] = d.kind]
        early == n > head
        tired == timeout + 1 > Patience
    IN  /\ drain = "no"
        /\ \A x \in BagToSet(net) : x.seq \notin Faulty => d.seq \notin Faulty /\ d.seq <= x.seq
        /\ net' = net (-) SetToBag({d})
        /\ \/ /\ n > head + Window
              /\ current' = head /\ stored' = held
              /\ UNCHANGED <<timeout, drain, asks, given>>
           \/ /\ n <= head + Window /\ early /\ held[head] \in Hole /\ tired
              /\ current' = head + 1 /\ stored' = held
              /\ timeout' = 0
              /\ given' = given \cup {head}
              /\ UNCHANGED <<drain, asks>>
           \/ /\ n <= head + Window /\ early /\ held[head] = Blank /\ ~tired
              /\ current' = head /\ stored' = [held EXCEPT ![head] = Asked]
              /\ timeout' = timeout + 1
              /\ Ask(head, 1)
              /\ UNCHANGED <<drain, given>>
           \/ /\ n <= head + Window
              /\ early => held[head] # Blank /\ (held[head] = Asked => ~tired)
              /\ current' = head /\ stored' = held
              /\ timeout' = IF early THEN timeout + 1 ELSE timeout
              /\ drain' = Trigger(d)
              /\ UNCHANGED <<asks, given>>
        /\ UNCHANGED <<next, lost, split, loggedIn, client>>

\* PumpPacketResend, on a receive that timed out, at least 300 ms after the
\* last request.
Held == {n \in Packets : stored[n] # Blank}

PumpPacketResend ==
    LET after == {n \in Held : n > current}
        nextHeld == CHOOSE n \in after : \A i \in after : n <= i
    IN  /\ drain = "no"
        /\ loggedIn
        /\ after # {}
        /\ \/ /\ stored[current] \notin Hole
              /\ drain' = "plain"
              /\ UNCHANGED <<current, stored, timeout, asks, given>>
           \/ /\ stored[current] \in Hole
              /\ timeout + 1 > Patience
              /\ current' = current + 1
              /\ timeout' = 0
              /\ given' = given \cup {current}
              /\ drain' = "plain"
              /\ UNCHANGED <<stored, asks>>
           \/ /\ stored[current] \in Hole
              /\ timeout + 1 <= Patience
              /\ stored' = [stored EXCEPT ![current] = Asked]
              /\ timeout' = timeout + 1
              /\ Ask(current, nextHeld - current)
              /\ UNCHANGED <<current, drain, given>>
        /\ UNCHANGED <<next, net, lost, split, loggedIn, client>>

\* START, or the client's START_ACK to it.
SetLoginComplete ==
    /\ \E i \in 1..Len(client) : client[i] = <<Start>>
    /\ drain = "no"
    /\ ~loggedIn
    /\ loggedIn' = TRUE
    /\ UNCHANGED <<next, net, asks, lost, current, stored, timeout, split, drain, client, given>>

-----------------------------------------------------------------------------
(* DrainReadyPackets: one step for each packet at the head                 *)

AtHead(kind) == drain # "no" /\ current \in Packets /\ stored[current] = kind

\* The packet is finished with.
Pass ==
    /\ stored' = [stored EXCEPT ![current] = Done]
    /\ current' = current + 1
    /\ timeout' = 0

\* The packets of one message, in order.
IsMessage(g) ==
    /\ P(g[1]).head /\ P(g[Len(g)]).rest = 0
    /\ \A i \in 2..Len(g) : g[i] = g[i - 1] + 1 /\ ~P(g[i]).head

\* SendClientPacketSequence: false where what is no message holds a bad opcode
\* (what it sent on before that opcode is not recorded).
Forward(g, ok) ==
    \/ ok /\ client' = Append(client, g)
    \/ ~ok /\ ~IsMessage(g) /\ UNCHANGED client

\* A blank fill also abandons the message being reassembled.
DrainFill ==
    /\ AtHead("fill")
    /\ Pass
    /\ split' = NoSplit
    /\ given' = given \cup {current}
    /\ UNCHANGED <<next, net, asks, lost, drain, loggedIn, client>>

\* The length the packet announces; of a packet that does not begin a message,
\* whatever its first bytes say.
Announced(n) == IF P(n).head THEN {P(n).rest} ELSE {0} \cup Garbled

DrainFirst ==
    /\ AtHead("data")
    /\ split = NoSplit
    /\ \E rest \in Announced(current) \ {0} :
            split' = [start |-> current, left |-> rest, got |-> <<current>>]
    /\ Pass
    /\ UNCHANGED <<next, net, asks, lost, drain, loggedIn, client, given>>

\* A packet on its own is dropped when a chunk triggered the drain.
DrainWhole ==
    /\ AtHead("data")
    /\ split = NoSplit
    /\ 0 \in Announced(current)
    /\ \/ drain = "cont" /\ Pass /\ UNCHANGED client
       \/ drain = "plain" /\ Pass /\ Forward(<<current>>, TRUE)
       \/ /\ drain = "plain" /\ Forward(<<current>>, FALSE)
          /\ stored' = [stored EXCEPT ![current] = Blank]
          /\ timeout' = 0
          /\ UNCHANGED current
    /\ UNCHANGED <<next, net, asks, lost, split, drain, loggedIn, given>>

\* Mutant: the datagram's header (one unit here) counted with its payload.
LeftHeader == split.left - (P(current).size + 1)

\* m_SplitPacketLength after the chunk at the head.
Left == split.left - P(current).size

DrainChunk ==
    LET left == Left
        got == Append(split.got, current)
    IN  /\ AtHead("data")
        /\ split # NoSplit
        /\ \/ /\ left > 0
              /\ split' = [split EXCEPT !.left = left, !.got = got]
              /\ Pass
              /\ UNCHANGED <<client, asks, drain>>
           \/ /\ left <= 0
              /\ Forward(got, TRUE)
              /\ split' = NoSplit
              /\ Pass
              /\ UNCHANGED <<asks, drain>>
           \/ /\ left <= 0
              /\ Forward(got, FALSE)
              /\ split' = NoSplit
              /\ stored' = [n \in Packets |->
                              IF n \in split.start..current THEN Asked ELSE stored[n]]
              /\ current' = split.start
              /\ Ask(split.start, current - split.start + 1)
              /\ drain' = "no"
              /\ UNCHANGED timeout
        /\ UNCHANGED <<next, net, lost, loggedIn, given>>

\* Nothing ready at the head: forget what lies behind the window.
DrainEnd ==
    /\ drain # "no"
    /\ current \in Packets => stored[current] \notin Ready
    /\ drain' = "no"
    /\ stored' = [n \in Packets |-> IF n + Ring < current THEN Blank ELSE stored[n]]
    /\ UNCHANGED <<next, net, asks, lost, current, timeout, split, loggedIn, client, given>>

DrainReadyPackets == DrainFill \/ DrainFirst \/ DrainWhole \/ DrainChunk \/ DrainEnd

-----------------------------------------------------------------------------
Receive == \E d \in BagToSet(net) : SendPacketSequence(d)

Next ==
    \/ SendPacketCache
    \/ \E a \in asks : ReSendOpcodes(a) \/ LoseAsk(a)
    \/ \E d \in BagToSet(net) : Lose(d)
    \/ Receive
    \/ PumpPacketResend
    \/ SetLoginComplete
    \/ DrainReadyPackets

\* The server sends what it has and answers what it is asked; the network
\* delivers what it does not lose; the receive thread runs on, and its
\* receives time out whenever nothing comes.
Arrives(n) == \E d \in BagToSet(net) : d.seq = n /\ SendPacketSequence(d)
Fairness ==
    /\ WF_vars(SendPacketCache)
    /\ WF_vars(\E a \in asks : ReSendOpcodes(a))
    /\ \A n \in Packets : SF_vars(Arrives(n))
    /\ SF_vars(PumpPacketResend)
    /\ WF_vars(DrainReadyPackets)

Spec == Init /\ [][Next]_vars /\ Fairness

-----------------------------------------------------------------------------
(* Properties                                                              *)

TypeOK ==
    /\ next \in 0..N
    /\ IsABag(net) /\ BagToSet(net) \subseteq
            [seq : Packets, kind : Ready, cont : BOOLEAN]
    /\ asks \subseteq [start : Packets, count : 1..N]
    /\ lost \in 0..Losses
    /\ current \in 0..N
    /\ stored \in [Packets -> {Blank, Done, Asked} \cup Ready]
    /\ timeout \in 0..Patience + N
    /\ split # NoSplit => split.start \in Packets /\ split.left \in Nat \ {0}
    /\ drain \in {"no", "plain", "cont"}
    /\ loggedIn \in BOOLEAN
    /\ client \in Seq(Seq(Packets))
    /\ given \subseteq Packets

\* What the client was sent that is a message of the server's.
Messages == SelectSeq(client, IsMessage)

\* The stream is forwarded in order and once, however the network reorders it
\* and whatever is resent: "retransmit dedup" (UDPProxyToClient_linux.cpp:1092).
InOrderOnce ==
    \A i, j \in 1..Len(Messages) : i < j => Messages[i][Len(Messages[i])] < Messages[j][1]

\* A message may be missing from what the client got only because one of its
\* packets, or of the one before it, was skipped or filled in blank: "forward
\* every in-order packet that is now ready" (UDPProxyToClient_linux.cpp:961).
NoSilentLoss ==
    given = {} =>
        \A h \in Packets : P(h).head =>
            (\A n \in Packets : (n >= h /\ n < current /\ P(n).rest = 0) =>
                \E i \in 1..Len(Messages) : Messages[i][1] = h)

\* Nothing that is no message of the server's is forwarded before a packet was
\* given up.
NoGarbage == given = {} => Len(Messages) = Len(client)

\* After login a packet that reached the proxy is not left there: every hole before it is
\* filled, filled in blank or skipped: "so every slot gets unstuck either way"
\* (UDPProxyToClient_linux.cpp:851).
NoStall == \A n \in Packets : (loggedIn /\ stored[n] \in Ready) ~> (current > n)

\* The timer recovers a tail of the stream that was lost: once the server has
\* sent everything the proxy gets to the end.
TailRecovered == (loggedIn /\ next = N) ~> (current = N)
=============================================================================
