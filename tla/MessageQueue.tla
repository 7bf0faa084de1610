---------------------------- MODULE MessageQueue ----------------------------
(***************************************************************************)
(* The game server's MessageQueue and the CircularBuffer behind it         *)
(* (server/src/MessageQueue.cpp).  Each queue is a ring of pointers to     *)
(* entries; the entries, and the bytes they point at, are rings of one     *)
(* buffer that all queues of a kind share (the players' send queues, their *)
(* receive queues; the save queue has a buffer of its own).  Nothing in    *)
(* either class tests for room: a queue relies on the caller's choke       *)
(* (Player::SendOpcode returns when Count() > 600), a buffer on its size.  *)
(*                                                                         *)
(* Any thread adds to, reads or resets any queue.  An Add is four steps:   *)
(* the choke test, the buffer's two locked sections, the queue's locked    *)
(* section.  A message is its number m, and its bytes are <<m, 1>>, ...    *)
(***************************************************************************)
EXTENDS Integers, Sequences, FiniteSets

CONSTANTS
    Queues,         \* the queues that share one CircularBuffer
    Threads,
    Slots,          \* m_QueueIndexSize, 200, 800 or 32768
    Choke,          \* 600 for a send queue; no smaller than Total where none
    Entries,        \* m_MessageSlots
    Size,           \* m_Size, bytes
    Room,           \* the reader's buffer_size
    Resettable,     \* queues that ResetPlayer resets
    Word,           \* counters are modulo this, 2^32
    Total,          \* bound: messages added in a behaviour
    Length          \* Length[m], bytes of message m, header included

ASSUME SizesAssumption ==
    /\ {Slots, Entries, Size, Word} \subseteq Nat \ {0}
    /\ {Choke, Room, Total} \subseteq Nat
    /\ Length \in [1..Total -> Nat \ {0}]
    /\ Resettable \subseteq Queues

VARIABLES
    slot,       \* m_Queue of each queue: an entry's index or Null
    rd,         \* m_ReadIndex
    wr,         \* m_WriteIndex
    count,      \* m_EntriesInQueue
    entry,      \* m_EntryBuffer
    entryIdx,   \* m_EntryIndex
    cell,       \* m_Buffer
    writePtr,   \* m_WritePtr - m_Buffer
    th,         \* th[t]: the call thread t is in
    sent,       \* history: messages that passed the choke
    taken       \* history: taken[k], the bytes the readers of k were given

queueVars == <<slot, rd, wr, count>>
bufferVars == <<entry, entryIdx, cell, writePtr>>
vars == <<queueVars, bufferVars, th, sent, taken>>

Null == -1
EntryIds == 0..Entries - 1
Entry(at, len) == [at |-> at, length |-> len]
Idle == [pc |-> "idle"]
Bytes(m) == [i \in 1..Length[m] |-> <<m, i>>]
NoByte == <<0, 0>>

Init ==
    /\ slot = [k \in Queues |-> [i \in 0..Slots - 1 |-> Null]]
    /\ rd = [k \in Queues |-> 0]
    /\ wr = [k \in Queues |-> 0]
    /\ count = [k \in Queues |-> 0]
    /\ entry = [e \in EntryIds |-> Entry(0, 0)]
    /\ entryIdx = 0
    /\ cell = [b \in 0..Size - 1 |-> NoByte]
    /\ writePtr = 0
    /\ th = [t \in Threads |-> Idle]
    /\ sent = 0
    /\ taken = [k \in Queues |-> <<>>]

\* ++index with the wrap every ring of the two classes has.
Step(i, n) == IF i + 1 >= n THEN 0 ELSE i + 1

-----------------------------------------------------------------------------
(* MessageQueue::Add, by its steps                                         *)

\* The caller's test of Count(), made without the queue's lock.
Admit(t, k) ==
    /\ th[t] = Idle
    /\ sent < Total
    /\ count[k] <= Choke
    /\ sent' = sent + 1
    /\ th' = [th EXCEPT ![t] = [pc |-> "entry", q |-> k, msg |-> sent + 1]]
    /\ UNCHANGED <<queueVars, bufferVars, taken>>

\* Mutant: ++m_EntryIndex forgotten.
GetSameEntry(t) ==
    /\ th[t].pc = "entry"
    /\ th' = [th EXCEPT ![t] =
                [pc |-> "write", q |-> @.q, msg |-> @.msg, e |-> entryIdx]]
    /\ UNCHANGED <<queueVars, bufferVars, sent, taken>>

\* CircularBuffer::GetNextEntry: the next entry in turn, read or not.
GetNextEntry(t) ==
    /\ th[t].pc = "entry"
    /\ entryIdx' = Step(entryIdx, Entries)
    /\ th' = [th EXCEPT ![t] =
                [pc |-> "write", q |-> @.q, msg |-> @.msg, e |-> entryIdx]]
    /\ UNCHANGED <<queueVars, entry, cell, writePtr, sent, taken>>

\* Where CircularBuffer::Write leaves m_WritePtr: at Size, not 0, when the
\* message ends flush with the buffer.
Advance(at, len) == IF at + len > Size THEN at + len - Size ELSE at + len

\* CircularBuffer::Write of the given bytes, and the entry's fields.
WriteBytes(t, bytes) ==
    LET at == writePtr
        n == Len(bytes)
    IN  /\ th[t].pc = "write"
        /\ cell' = [b \in 0..Size - 1 |->
                      IF (b - at) % Size < n THEN bytes[((b - at) % Size) + 1] ELSE cell[b]]
        /\ writePtr' = Advance(at, n)
        /\ entry' = [entry EXCEPT ![th[t].e] = Entry(at, n)]
        /\ th' = [th EXCEPT ![t].pc = "publish"]
        /\ UNCHANGED <<queueVars, entryIdx, sent, taken>>

Write(t) == WriteBytes(t, Bytes(th[t].msg))

\* The queue's locked section.
Publish(t) ==
    LET k == th[t].q
    IN  /\ th[t].pc = "publish"
        /\ slot' = [slot EXCEPT ![k][wr[k]] = th[t].e]
        /\ wr' = [wr EXCEPT ![k] = Step(@, Slots)]
        /\ count' = [count EXCEPT ![k] = (@ + 1) % Word]
        /\ th' = [th EXCEPT ![t] = Idle]
        /\ UNCHANGED <<rd, bufferVars, sent, taken>>

-----------------------------------------------------------------------------
(* Reading and resetting                                                   *)

\* CheckNextQueueSize: the length of the next message, 0 when there is none.
NextSize(k) ==
    IF rd[k] = wr[k] \/ slot[k][rd[k]] = Null THEN 0
    ELSE entry[slot[k][rd[k]]].length

\* CircularBuffer::Read
Read(e) == [i \in 1..entry[e].length |-> cell[(entry[e].at + i - 1) % Size]]

\* CheckQueue with a reader's buffer of the given size.  A message that does
\* not fit is removed all the same.  A null slot is left where it is, and
\* counted as removed.
CheckQueue(k, size) ==
    LET e == slot[k][rd[k]]
        fits == e # Null /\ entry[e].length <= size
    IN  /\ rd[k] # wr[k]
        /\ count' = [count EXCEPT ![k] = (@ - 1) % Word]
        /\ IF e = Null THEN UNCHANGED <<slot, rd>>
           ELSE /\ slot' = [slot EXCEPT ![k][rd[k]] = Null]
                /\ rd' = [rd EXCEPT ![k] = Step(@, Slots)]
        /\ IF fits THEN /\ entry' = [entry EXCEPT ![e] = Entry(0, 0)]
                        /\ taken' = [taken EXCEPT ![k] = Append(@, Read(e))]
                   ELSE UNCHANGED <<entry, taken>>
        /\ UNCHANGED <<wr, entryIdx, cell, writePtr>>

\* The readers: PulsePlayerInput, CheckSaves.
Take(t, k) ==
    /\ th[t] = Idle
    /\ CheckQueue(k, Room)
    /\ UNCHANGED <<th, sent>>

\* ResetQueue takes no lock: its stores are steps of their own.  The memset
\* clears the size of a pointer, the first slot.
ResetCount(t, k) ==
    /\ th[t] = Idle
    /\ k \in Resettable
    /\ count' = [count EXCEPT ![k] = 0]
    /\ th' = [th EXCEPT ![t] = [pc |-> "reset rd", q |-> k]]
    /\ UNCHANGED <<slot, rd, wr, bufferVars, sent, taken>>

ResetRead(t) ==
    /\ th[t].pc = "reset rd"
    /\ rd' = [rd EXCEPT ![th[t].q] = 0]
    /\ th' = [th EXCEPT ![t].pc = "reset wr"]
    /\ UNCHANGED <<slot, wr, count, bufferVars, sent, taken>>

ResetWrite(t) ==
    /\ th[t].pc = "reset wr"
    /\ wr' = [wr EXCEPT ![th[t].q] = 0]
    /\ slot' = [slot EXCEPT ![th[t].q][0] = Null]
    /\ th' = [th EXCEPT ![t] = Idle]
    /\ UNCHANGED <<rd, count, bufferVars, sent, taken>>

-----------------------------------------------------------------------------
Use(t) ==
    \/ \E k \in Queues : Admit(t, k) \/ Take(t, k)
    \/ GetNextEntry(t)
    \/ Write(t)
    \/ Publish(t)

ResetQueue(t) ==
    \/ \E k \in Queues : ResetCount(t, k)
    \/ ResetRead(t)
    \/ ResetWrite(t)

Next == \E t \in Threads : Use(t) \/ ResetQueue(t)

\* Every thread of the server runs on, and the threads that read a queue poll
\* it for as long as the server is up (RunSaveThread, RunPlayerUpdate).
GoesOn(t) == GetNextEntry(t) \/ Write(t) \/ Publish(t) \/ ResetRead(t) \/ ResetWrite(t)
Polled(k) == \E t \in Threads : Take(t, k)
Fairness ==
    /\ \A t \in Threads : WF_vars(GoesOn(t))
    /\ \A k \in Queues : WF_vars(Polled(k))

Spec == Init /\ [][Next]_vars /\ Fairness

-----------------------------------------------------------------------------
(* Properties                                                              *)

Calls ==
    {Idle}
    \cup [pc : {"entry"}, q : Queues, msg : 1..Total]
    \cup [pc : {"write", "publish"}, q : Queues, msg : 1..Total, e : EntryIds]
    \cup [pc : {"reset rd", "reset wr"}, q : Queues]

TypeOK ==
    /\ slot \in [Queues -> [0..Slots - 1 -> EntryIds \cup {Null}]]
    /\ rd \in [Queues -> 0..Slots - 1]
    /\ wr \in [Queues -> 0..Slots - 1]
    /\ count \in [Queues -> 0..Word - 1]
    /\ entry \in [EntryIds -> [at : 0..Size, length : Nat]]
    /\ entryIdx \in EntryIds
    /\ cell \in [0..Size - 1 -> (0..Total) \X Nat]
    /\ writePtr \in 0..Size
    /\ th \in [Threads -> Calls]
    /\ sent \in 0..Total
    /\ taken \in [Queues -> Seq(Seq((0..Total) \X Nat))]

Resetting(k) == \E t \in Threads : th[t].pc \in {"reset rd", "reset wr"} /\ th[t].q = k

\* The slots between the read and the write index.
Backlog(k) == (wr[k] - rd[k]) % Slots
Unread(k) == {(rd[k] + i) % Slots : i \in 0..Backlog(k) - 1}

\* Count() is the number of messages waiting: the choke, the login wait
\* (WaitForLoginAck counts down only when Count() is 0) and the test for an
\* overloaded queue all read it without the lock, and it is kept apart from
\* the indices CheckQueue goes by.
CountExact ==
    \A k \in Queues : ~Resetting(k) =>
        /\ count[k] = Backlog(k)
        /\ \A i \in Unread(k) : slot[k][i] # Null

\* The comment in GetNextEntry: "we should never smack into an unread message
\* of another player".  The entry a thread was handed is in no queue.
NeverSmacked ==
    \A t \in Threads : th[t].pc = "write" =>
        \A k \in Queues : \A i \in Unread(k) : slot[k][i] # th[t].e

\* Every message that was published is waiting or was handed over, whole: what
\* AddSaveMessage leaves to "the message queue system" when its queue is full.
NothingLost ==
    \A m \in 1..sent :
        \/ \E t \in Threads : th[t] # Idle /\ th[t].pc \in {"entry", "write", "publish"}
                              /\ th[t].msg = m
        \/ \E k \in Queues :
            \/ \E i \in 1..Len(taken[k]) : taken[k][i] = Bytes(m)
            \/ \E i \in Unread(k) : slot[k][i] # Null /\ Read(slot[k][i]) = Bytes(m)

\* The abstract queue: a reset empties it at its first store.
Pending ==
    [k \in Queues |->
        IF Resetting(k) THEN <<>>
        ELSE [i \in 1..Backlog(k) |-> Read(slot[k][(rd[k] + i - 1) % Slots])]]

Abstract == INSTANCE Fifo WITH Messages <- {Bytes(m) : m \in 1..Total},
                               pending <- Pending

\* A queue is first in, first out: each message is handed over once, whole and
\* in the order of the locked sections of Add, and none waits forever. A run has
\* few messages: its ring of slots wraps, those of entries and of bytes do not.
IsFifo == Abstract!Spec
=============================================================================
