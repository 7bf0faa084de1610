------------------------------ MODULE SendQueue -----------------------------
(***************************************************************************)
(* A player's send queue between Player::SendOpcode and                    *)
(* Player::SendPacketCache (server/src/PlayerConnection.cpp).  Any thread  *)
(* may send a player an opcode (a chat line, a group update); one thread   *)
(* at a time turns the queue into packets, the login thread until the last *)
(* login stage and the sector's thread after it.  Both form what they send *)
(* in the player's one m_OpcodeFormingBuffer, which no lock protects.      *)
(* Packets are followed to the socket; ReliableUdp takes them from there.  *)
(***************************************************************************)
EXTENDS MessageQueue, SequencesExt

CONSTANTS
    Sender,     \* the thread that runs SendPacketCache
    Callers,    \* the threads that send the players opcodes
    Cache       \* m_PeriodicCacheSize, bytes in a packet

ASSUME SenderAssumption ==
    Sender \in Threads /\ Callers \subseteq Threads /\ Cache \in Nat \ {0}

VARIABLES
    form,       \* m_OpcodeFormingBuffer of each player
    split,      \* the first m_PacketSplitRemaining bytes of m_PacketSplitBuffer
    out,        \* history: out[k], the packets sent
    order,      \* history: order[k], the messages in the order they were queued
    apart       \* history: no two threads have been at work for one player at once

sendVars == <<vars, form, split, out, order, apart>>
packetVars == <<form, split, out>>

SendInit ==
    /\ Init
    /\ form = [k \in Queues |-> <<>>]
    /\ split = [k \in Queues |-> <<>>]
    /\ out = [k \in Queues |-> <<>>]
    /\ order = [k \in Queues |-> <<>>]
    /\ apart = TRUE

\* memcpy of bytes into buffer at offset: what lay behind stays.
Put(buffer, offset, bytes) ==
    LET end == offset + Len(bytes)
    IN  [i \in 1..(IF end > Len(buffer) THEN end ELSE Len(buffer)) |->
            IF i \in offset + 1..end THEN bytes[i - offset]
            ELSE IF i <= Len(buffer) THEN buffer[i] ELSE NoByte]

-----------------------------------------------------------------------------
(* SendOpcode                                                              *)

\* The choke, and the opcode laid out in the forming buffer.
SendOpcode(t, k) ==
    /\ Admit(t, k)
    /\ form' = [form EXCEPT ![k] = Put(@, 0, Bytes(sent + 1))]
    /\ UNCHANGED <<split, out, order>>

\* m_UDPQueue->Add copies from the forming buffer.
AddEntry(t) == GetNextEntry(t) /\ UNCHANGED <<packetVars, order>>

AddBytes(t) ==
    /\ WriteBytes(t, SubSeq(form[th[t].q], 1, Length[th[t].msg]))
    /\ UNCHANGED <<packetVars, order>>

AddSlot(t) ==
    /\ Publish(t)
    /\ order' = [order EXCEPT ![th[t].q] = Append(@, th[t].msg)]
    /\ UNCHANGED packetVars

-----------------------------------------------------------------------------
(* SendPacketCache                                                         *)

Packing(pc, k, n) == th' = [th EXCEPT ![Sender] = [pc |-> pc, q |-> k, cumulative |-> n]]
At(pc) == th[Sender].pc = pc
Cumulative == th[Sender].cumulative

\* Mutant: the rest is not moved to the front of the buffer.
NextChunkUnshifted(k) ==
    LET n == IF Len(split[k]) < Cache THEN Len(split[k]) ELSE Cache
    IN  /\ th[Sender] = Idle
        /\ split[k] # <<>>
        /\ form' = [form EXCEPT ![k] = Put(@, 0, SubSeq(split[k], 1, n))]
        /\ split' = [split EXCEPT ![k] = SubSeq(@, 1, Len(@) - n)]
        /\ Packing("send", k, n)
        /\ UNCHANGED <<queueVars, bufferVars, sent, taken, out, order>>

\* The next chunk of a message that is being split.
NextChunk(k) ==
    LET n == IF Len(split[k]) < Cache THEN Len(split[k]) ELSE Cache
    IN  /\ th[Sender] = Idle
        /\ split[k] # <<>>
        /\ form' = [form EXCEPT ![k] = Put(@, 0, SubSeq(split[k], 1, n))]
        /\ split' = [split EXCEPT ![k] = SubSeq(@, n + 1, Len(@))]
        /\ Packing("send", k, n)
        /\ UNCHANGED <<queueVars, bufferVars, sent, taken, out, order>>

\* CheckNextQueueSize, under a lock that is released before the answer is used.
Peek(k) ==
    /\ th[Sender] = Idle
    /\ split[k] = <<>>
    /\ Packing(IF NextSize(k) > Cache THEN "split" ELSE "pack", k, 0)
    /\ UNCHANGED <<queueVars, bufferVars, sent, taken, packetVars, order>>

\* A message larger than a packet: its first chunk, the rest kept.
TakeSplit ==
    LET k == th[Sender].q
        bytes == Read(slot[k][rd[k]])
    IN  /\ At("split")
        /\ CheckQueue(k, Room)
        /\ form' = [form EXCEPT ![k] = Put(@, 0, SubSeq(bytes, 1, Cache))]
        /\ split' = [split EXCEPT ![k] = SubSeq(bytes, Cache + 1, Len(bytes))]
        /\ Packing("send", k, Cache)
        /\ UNCHANGED <<sent, out, order>>

\* Small messages, one after the other.
Pack ==
    LET k == th[Sender].q
        bytes == Read(slot[k][rd[k]])
        room == Cache - Cumulative
    IN  /\ At("pack")
        /\ CheckQueue(k, room)
        /\ IF Len(bytes) <= room
           THEN /\ form' = [form EXCEPT ![k] = Put(@, Cumulative, bytes)]
                /\ Packing("more", k, Cumulative + Len(bytes))
           ELSE Packing("send", k, Cumulative) /\ UNCHANGED form
        /\ UNCHANGED <<split, sent, out, order>>

\* Mutant: the queue is taken for empty while its last message waits.
PackEndEarly ==
    /\ At("pack")
    /\ Backlog(th[Sender].q) <= 1
    /\ Packing("send", th[Sender].q, Cumulative)
    /\ UNCHANGED <<queueVars, bufferVars, sent, taken, packetVars, order>>

\* CheckQueue found the queue empty.
PackEnd ==
    /\ At("pack")
    /\ rd[th[Sender].q] = wr[th[Sender].q]
    /\ Packing("send", th[Sender].q, Cumulative)
    /\ UNCHANGED <<queueVars, bufferVars, sent, taken, packetVars, order>>

PeekMore ==
    LET k == th[Sender].q
    IN  /\ At("more")
        /\ Packing(IF NextSize(k) >= Cache - Cumulative THEN "send" ELSE "pack", k, Cumulative)
        /\ UNCHANGED <<queueVars, bufferVars, sent, taken, packetVars, order>>

\* UDP_Connection::SendOpcode, when the packet has anything in it.
SendPacket ==
    LET k == th[Sender].q
    IN  /\ At("send")
        /\ out' = IF Cumulative > 0
                  THEN [out EXCEPT ![k] = Append(@, SubSeq(form[k], 1, Cumulative))]
                  ELSE out
        /\ th' = [th EXCEPT ![Sender] = Idle]
        /\ UNCHANGED <<queueVars, bufferVars, sent, taken, form, split, order>>

-----------------------------------------------------------------------------
SendStep ==
    \/ \E k \in Queues : NextChunk(k) \/ Peek(k)
    \/ TakeSplit
    \/ Pack
    \/ PackEnd
    \/ PeekMore
    \/ SendPacket

CallStep(t) ==
    \/ \E k \in Queues : SendOpcode(t, k)
    \/ AddEntry(t)
    \/ AddBytes(t)
    \/ AddSlot(t)

\* Thread t is in SendOpcode or SendPacketCache for player k.
WorksFor(t, k) == th[t] # Idle /\ th[t].q = k
OneWorks == \A k \in Queues : \A t, u \in Threads :
    WorksFor(t, k) /\ WorksFor(u, k) => t = u
Watched(A) == A /\ apart' = (apart /\ OneWorks')

SendNext == Watched(SendStep \/ \E t \in Callers : CallStep(t))

\* The sector's thread goes round the players in its list for as long as they
\* are in it.
Visits(k) == NextChunk(k) \/ Peek(k)
PacksOn == TakeSplit \/ Pack \/ PackEnd \/ PeekMore \/ SendPacket
AddsOn(t) == AddEntry(t) \/ AddBytes(t) \/ AddSlot(t)
SendFairness ==
    /\ \A k \in Queues : SF_sendVars(Watched(Visits(k)))
    /\ WF_sendVars(Watched(PacksOn))
    /\ \A t \in Callers : WF_sendVars(Watched(AddsOn(t)))

SendSpec == SendInit /\ [][SendNext]_sendVars /\ SendFairness

-----------------------------------------------------------------------------
(* Properties                                                              *)

\* The bytes of the messages queued for k, in order.
Stream(k) == FlattenSeq([i \in 1..Len(order[k]) |-> Bytes(order[k][i])])

\* The packets, read one after the other, are the messages that were queued, whole and
\* in order, as long as no two threads have been at work for one player at once: no
\* packing and no split loses, repeats or mixes a byte, whoever sends.  Two at once share
\* m_OpcodeFormingBuffer (PlayerConnection.cpp:153) and mix their bytes.
StreamIntact == apart => \A k \in Queues : IsPrefix(FlattenSeq(out[k]), Stream(k))

\* The comment on CheckQueue, "returns true if message was removed from the
\* Queue": a message that is no longer in the queue was given to the reader.
RemovedIsReturned == \A k \in Queues : Len(taken[k]) + Backlog(k) = Len(order[k])

\* Whatever is queued leaves, to its last byte: SendPacketCache goes on with a
\* split message before it looks at the queue, and comes back to both.  Two threads at
\* work for one player at once lose a message (:229, a size that is no longer the next).
AllSent == \A m \in 1..Total :
    (\E k \in Queues : m \in Range(order[k])) ~>
        \/ ~apart
        \/ \E k \in Queues :
              /\ m \in Range(order[k])
              /\ Len(SelectSeq(FlattenSeq(out[k]), LAMBDA b : b[1] = m)) = Length[m]
=============================================================================
