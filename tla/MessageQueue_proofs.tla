------------------------- MODULE MessageQueue_proofs -------------------------
(***************************************************************************)
(* For any number of queues and threads, rings and messages of any size:   *)
(* MessageQueue and CircularBuffer implement Fifo.                         *)
(*                                                                         *)
(* Neither class tests for room, so this holds as long as the rings do not *)
(* come round to what is still in use, which is what Roomy says: the entry *)
(* a thread is handed is neither in a queue nor in another thread's hands, *)
(* and no two messages on their way lie in the same bytes.  That a queue's *)
(* own ring has room is proved, from the caller's choke.                   *)
(***************************************************************************)
EXTENDS MessageQueue, FiniteSetTheorems, TLAPS

Handling(t) == th[t].pc \in {"entry", "write", "publish"}
Adding(k) == {t \in Threads : Handling(t) /\ th[t].q = k}
Publishing(t) == th[t].pc = "publish"

\* The message in slot i of queue k waits to be read.
Waits(k, i) == ~Resetting(k) /\ i \in Unread(k)

\* The entries whose bytes a reader is still to get.
Live == {e \in EntryIds : \/ \E k \in Queues : \E i \in Unread(k) : Waits(k, i) /\ slot[k][i] = e
                          \/ \E t \in Threads : Publishing(t) /\ th[t].e = e}
Region(e) == {(entry[e].at + i) % Size : i \in 0..entry[e].length - 1}

Roomy ==
    /\ NeverSmacked
    /\ \A t, u \in Threads :
          t # u /\ {th[t].pc, th[u].pc} \subseteq {"write", "publish"} => th[t].e # th[u].e
    /\ \A e, f \in Live : e # f => Region(e) \cap Region(f) = {}

\* The choke leaves room for the messages of the threads that have passed it, no
\* message is larger than the readers' buffer or the ring of bytes, and a queue is
\* reset by the only thread that uses it.
Choked ==
    /\ IsFiniteSet(Threads) /\ Choke + Cardinality(Threads) < Slots /\ Slots <= Word
    /\ \A m \in 1..Total : Length[m] <= Room /\ Length[m] <= Size
    /\ Resettable = {} \/ \A t, u \in Threads : t = u

\* The bytes of message m are in entry e.
Carries(e, m) ==
    /\ entry[e].length = Length[m]
    /\ \A i \in 1..Length[m] : cell[(entry[e].at + i - 1) % Size] = <<m, i>>

ShapeInv ==
    /\ slot \in [Queues -> [0..Slots - 1 -> EntryIds \cup {Null}]]
    /\ rd \in [Queues -> 0..Slots - 1]
    /\ wr \in [Queues -> 0..Slots - 1]
    /\ count \in [Queues -> 0..Word - 1]
    /\ entry \in [EntryIds -> [at : 0..Size, length : Nat]]
    /\ entryIdx \in EntryIds
    /\ writePtr \in 0..Size
    /\ th \in [Threads -> Calls]
    /\ sent \in 0..Total

\* Nobody uses a queue that is being reset.
AloneInv ==
    \A t \in Threads : th[t].pc \in {"reset rd", "reset wr"} =>
        /\ \A u \in Threads : u = t
        /\ count[th[t].q] = 0
        /\ th[t].pc = "reset wr" => rd[th[t].q] = 0

\* There is room in the queue for what has passed the choke.
ChokeInv ==
    \A k \in Queues : ~Resetting(k) =>
        Backlog(k) + Cardinality(Adding(k)) <= Choke + Cardinality(Threads)

\* No entry waits twice, and none that waits is in a thread's hands.
ApartInv ==
    /\ \A k, l \in Queues : \A i \in Unread(k), j \in Unread(l) :
          Waits(k, i) /\ Waits(l, j) /\ slot[k][i] = slot[l][j] => k = l /\ i = j
    /\ \A k \in Queues : \A i \in Unread(k) : \A t \in Threads :
          Waits(k, i) /\ Publishing(t) => slot[k][i] # th[t].e

\* What waits is a message, and what is about to be published is the thread's own.
BytesInv ==
    /\ \A k \in Queues : \A i \in Unread(k) :
          Waits(k, i) => \E m \in 1..Total : Carries(slot[k][i], m)
    /\ \A t \in Threads : Publishing(t) => Carries(th[t].e, th[t].msg)

QueueInv == ShapeInv /\ AloneInv /\ CountExact /\ ChokeInv /\ ApartInv /\ BytesInv

-----------------------------------------------------------------------------
LEMMA RingDifference ==
    ASSUME NEW n \in Nat \ {0}, NEW r \in 0..n - 1, NEW w \in 0..n - 1
    PROVE  (w - r) % n = IF r <= w THEN w - r ELSE w - r + n
BY Z3

LEMMA RingSum ==
    ASSUME NEW n \in Nat \ {0}, NEW r \in 0..n - 1, NEW i \in 0..n - 1
    PROVE  (r + i) % n = IF r + i < n THEN r + i ELSE r + i - n
BY Z3

\* The place of the i-th message that waits in a queue, and how many wait.
LEMMA Places ==
    ASSUME SizesAssumption, ShapeInv, NEW k \in Queues
    PROVE  /\ Slots \in Nat \ {0}
           /\ rd[k] \in 0..Slots - 1 /\ wr[k] \in 0..Slots - 1
           /\ Backlog(k) = IF rd[k] <= wr[k] THEN wr[k] - rd[k] ELSE wr[k] - rd[k] + Slots
           /\ Backlog(k) \in 0..Slots - 1
           /\ \A i \in 0..Slots - 1 :
                 (rd[k] + i) % Slots = IF rd[k] + i < Slots THEN rd[k] + i ELSE rd[k] + i - Slots
           /\ Unread(k) \subseteq 0..Slots - 1
<1>1. Slots \in Nat \ {0} /\ rd[k] \in 0..Slots - 1 /\ wr[k] \in 0..Slots - 1
  BY DEF SizesAssumption, ShapeInv
<1>2. Backlog(k) = IF rd[k] <= wr[k] THEN wr[k] - rd[k] ELSE wr[k] - rd[k] + Slots
  BY <1>1, RingDifference DEF Backlog
<1>3. \A i \in 0..Slots - 1 :
         (rd[k] + i) % Slots = IF rd[k] + i < Slots THEN rd[k] + i ELSE rd[k] + i - Slots
  BY <1>1, RingSum
<1>4. Backlog(k) \in 0..Slots - 1
  BY <1>1, <1>2, SMTT(30)
<1>5. Unread(k) \subseteq 0..Slots - 1
  <2> SUFFICES ASSUME NEW i \in 0..Backlog(k) - 1 PROVE (rd[k] + i) % Slots \in 0..Slots - 1
    BY DEF Unread
  <2>1. i \in 0..Slots - 1
    BY <1>1, <1>4
  <2>2. (rd[k] + i) % Slots = IF rd[k] + i < Slots THEN rd[k] + i ELSE rd[k] + i - Slots
    BY <1>3, <2>1
  <2>3. (IF rd[k] + i < Slots THEN rd[k] + i ELSE rd[k] + i - Slots) \in 0..Slots - 1
    BY <1>1, <2>1, SMTT(30)
  <2> QED
    BY <2>2, <2>3
<1> QED
  BY <1>1, <1>2, <1>3, <1>4, <1>5

\* A message is added behind the last, at the write index.
LEMMA RingAdd ==
    ASSUME NEW n \in Nat \ {0}, NEW r \in 0..n - 1, NEW w \in 0..n - 1, (w - r) % n < n - 1
    PROVE  /\ Step(w, n) \in 0..n - 1
           /\ (Step(w, n) - r) % n = ((w - r) % n) + 1
           /\ (r + ((w - r) % n)) % n = w
           /\ \A i \in 0..((w - r) % n) - 1 : (r + i) % n # w
<1>1. (w - r) % n = IF r <= w THEN w - r ELSE w - r + n
  BY RingDifference
<1>2. Step(w, n) = IF w + 1 = n THEN 0 ELSE w + 1
  BY DEF Step
<1>3. Step(w, n) \in 0..n - 1
  BY <1>2
<1>4. (Step(w, n) - r) % n = IF r <= Step(w, n) THEN Step(w, n) - r ELSE Step(w, n) - r + n
  BY <1>3, RingDifference
<1>5. \A i \in 0..n - 1 : (r + i) % n = IF r + i < n THEN r + i ELSE r + i - n
  BY RingSum
<1>6. (Step(w, n) - r) % n = ((w - r) % n) + 1
  BY <1>1, <1>2, <1>4
<1>7. (r + ((w - r) % n)) % n = w
  <2>1. (w - r) % n \in 0..n - 1
    BY <1>1
  <2> QED
    BY <1>1, <1>5, <2>1
<1>8. ASSUME NEW i \in 0..((w - r) % n) - 1 PROVE (r + i) % n # w
  <2>1. i \in 0..n - 1
    BY <1>1
  <2> QED
    BY <1>1, <1>5, <2>1
<1> QED
  BY <1>3, <1>6, <1>7, <1>8

\* A message is read at the read index, and the next is behind it.
LEMMA RingTake ==
    ASSUME NEW n \in Nat \ {0}, NEW r \in 0..n - 1, NEW w \in 0..n - 1, r # w,
           NEW d, d = (w - r) % n
    PROVE  /\ Step(r, n) \in 0..n - 1
           /\ d \in 1..n - 1
           /\ (w - Step(r, n)) % n = d - 1
           /\ (r + 0) % n = r
<1>1. d = IF r <= w THEN w - r ELSE w - r + n
  BY RingDifference
<1>2. Step(r, n) = IF r + 1 = n THEN 0 ELSE r + 1
  BY DEF Step
<1>3. Step(r, n) \in 0..n - 1
  BY <1>2
<1>4. (w - Step(r, n)) % n = IF Step(r, n) <= w THEN w - Step(r, n) ELSE w - Step(r, n) + n
  BY <1>3, RingDifference
<1>6. d \in 1..n - 1
  BY <1>1
<1>7. (w - Step(r, n)) % n = d - 1
  BY <1>1, <1>2, <1>4
<1>8. (r + 0) % n = r
  BY RingSum
<1> QED
  BY <1>3, <1>6, <1>7, <1>8

LEMMA RingNext ==
    ASSUME NEW n \in Nat \ {0}, NEW r \in 0..n - 1, NEW i \in 0..n - 2
    PROVE  (Step(r, n) + i) % n = (r + (i + 1)) % n
<1>1. i \in 0..n - 1 /\ i + 1 \in 0..n - 1
  OBVIOUS
<1>2. Step(r, n) = IF r + 1 = n THEN 0 ELSE r + 1
  BY DEF Step
<1>3. Step(r, n) \in 0..n - 1
  BY <1>2
<1>4. (Step(r, n) + i) % n = IF Step(r, n) + i < n THEN Step(r, n) + i ELSE Step(r, n) + i - n
  BY <1>1, <1>3, RingSum
<1>5. (r + (i + 1)) % n = IF r + (i + 1) < n THEN r + (i + 1) ELSE r + (i + 1) - n
  BY <1>1, RingSum
<1> QED
  BY <1>1, <1>2, <1>4, <1>5

LEMMA RingBehind ==
    ASSUME NEW n \in Nat \ {0}, NEW r \in 0..n - 1, NEW d \in 1..n - 1, NEW i \in 1..d - 1
    PROVE  (r + i) % n # r
<1>1. i \in 0..n - 1
  OBVIOUS
<1>2. (r + i) % n = IF r + i < n THEN r + i ELSE r + i - n
  BY <1>1, RingSum
<1> QED
  BY <1>1, <1>2

\* The bytes that Write lays down from at, which is Size when the last message
\* ended flush with the buffer.
LEMMA RingBytes ==
    ASSUME NEW n \in Nat \ {0}, NEW at \in 0..n
    PROVE  /\ \A i \in 0..n - 1 : (at + i) % n \in 0..n - 1 /\ (((at + i) % n) - at) % n = i
           /\ \A b \in 0..n - 1 : (b - at) % n \in 0..n - 1 /\ (at + ((b - at) % n)) % n = b
<1>1. \A i \in 0..n - 1 : (at + i) % n = IF at + i < n THEN at + i ELSE at + i - n
  BY Z3
<1>2. \A b \in 0..n - 1 : (b - at) % n = IF at = n THEN b ELSE IF at <= b THEN b - at ELSE b - at + n
  BY Z3
<1>3. \A i \in 0..n - 1 : (at + i) % n \in 0..n - 1 /\ (((at + i) % n) - at) % n = i
  <2> TAKE i \in 0..n - 1
  <2>1. (at + i) % n = IF at + i < n THEN at + i ELSE at + i - n
    BY <1>1
  <2>2. (at + i) % n \in 0..n - 1
    BY <2>1
  <2>3. (((at + i) % n) - at) % n = IF at = n THEN (at + i) % n
                                  ELSE IF at <= (at + i) % n THEN ((at + i) % n) - at
                                  ELSE ((at + i) % n) - at + n
    BY <1>2, <2>2
  <2> QED
    BY <2>1, <2>2, <2>3
<1>4. \A b \in 0..n - 1 : (b - at) % n \in 0..n - 1 /\ (at + ((b - at) % n)) % n = b
  <2> TAKE b \in 0..n - 1
  <2>1. (b - at) % n = IF at = n THEN b ELSE IF at <= b THEN b - at ELSE b - at + n
    BY <1>2
  <2>2. (b - at) % n \in 0..n - 1
    BY <2>1
  <2>3. (at + ((b - at) % n)) % n = IF at + ((b - at) % n) < n THEN at + ((b - at) % n)
                                    ELSE at + ((b - at) % n) - n
    BY <1>1, <2>2
  <2> QED
    BY <2>1, <2>2, <2>3
<1> QED
  BY <1>3, <1>4

LEMMA SeqOfLength ==
    ASSUME NEW S, NEW n \in Nat, NEW f \in [1..n -> S]
    PROVE  f \in Seq(S) /\ Len(f) = n
OBVIOUS

LEMMA LongerByOne ==
    ASSUME NEW S, NEW p \in Seq(S), NEW q \in Seq(S), NEW x \in S,
           Len(q) = Len(p) + 1, \A i \in 1..Len(p) : q[i] = p[i], q[Len(p) + 1] = x
    PROVE  q = Append(p, x)
<1>1. Append(p, x) \in Seq(S) /\ Len(Append(p, x)) = Len(p) + 1 /\ Len(p) \in Nat
  OBVIOUS
<1>2. \A i \in 1..Len(q) : q[i] = Append(p, x)[i]
  BY <1>1
<1> QED
  BY <1>1, <1>2

LEMMA ShorterByOne ==
    ASSUME NEW S, NEW p \in Seq(S), NEW q \in Seq(S),
           p # <<>>, Len(q) = Len(p) - 1, \A i \in 1..Len(q) : q[i] = p[i + 1]
    PROVE  q = Tail(p)
<1>1. /\ Tail(p) \in Seq(S) /\ Len(Tail(p)) = Len(p) - 1
      /\ \A i \in 1..Len(Tail(p)) : Tail(p)[i] = p[i + 1]
  OBVIOUS
<1> QED
  BY <1>1

-----------------------------------------------------------------------------
LEMMA CallShapes ==
    ASSUME ShapeInv, NEW t \in Threads
    PROVE  /\ Handling(t) => th[t].q \in Queues /\ th[t].msg \in 1..Total
           /\ th[t].pc \in {"write", "publish"} =>
                 /\ th[t].e \in EntryIds
                 /\ th[t] \in [pc : {"write", "publish"}, q : Queues, msg : 1..Total, e : EntryIds]
           /\ th[t].pc \in {"reset rd", "reset wr"} =>
                 /\ th[t].q \in Queues
                 /\ th[t] \in [pc : {"reset rd", "reset wr"}, q : Queues]
           /\ th[t] = Idle => th[t].pc = "idle"
<1>1. th[t] \in Calls
  BY DEF ShapeInv
<1>6. th[t] = Idle => th[t].pc = "idle"
  BY DEF Idle
<1>2. CASE th[t] = Idle
  BY <1>2 DEF Idle, Handling
<1>3. CASE th[t] \in [pc : {"entry"}, q : Queues, msg : 1..Total]
  <2>1. th[t].pc = "entry" /\ th[t].q \in Queues /\ th[t].msg \in 1..Total
    BY <1>3
  <2> QED
    BY <2>1, <1>6 DEF Handling
<1>4. CASE th[t] \in [pc : {"write", "publish"}, q : Queues, msg : 1..Total, e : EntryIds]
  <2>1. th[t].pc \in {"write", "publish"} /\ th[t].q \in Queues
        /\ th[t].msg \in 1..Total /\ th[t].e \in EntryIds
    BY <1>4
  <2> QED
    BY <1>4, <2>1, <1>6 DEF Handling
<1>5. CASE th[t] \in [pc : {"reset rd", "reset wr"}, q : Queues]
  <2>1. th[t].pc \in {"reset rd", "reset wr"} /\ th[t].q \in Queues
    BY <1>5
  <2> QED
    BY <1>5, <2>1, <1>6 DEF Handling
<1> QED
  BY <1>1, <1>2, <1>3, <1>4, <1>5 DEF Calls

\* Nobody resets a queue while another thread is at work.
LEMMA Undisturbed ==
    ASSUME AloneInv, NEW t \in Threads, th[t].pc \notin {"reset rd", "reset wr"}
    PROVE  /\ \A u \in Threads : th[u].pc \notin {"reset rd", "reset wr"}
           /\ \A k \in Queues : ~Resetting(k)
BY DEF AloneInv, Resetting

LEMMA StaysUndisturbed ==
    ASSUME \A u \in Threads : th'[u].pc \notin {"reset rd", "reset wr"}
    PROVE  AloneInv' /\ \A k \in Queues : ~Resetting(k)'
BY DEF AloneInv, Resetting

LEMMA AddersFit ==
    ASSUME Choked, NEW k \in Queues
    PROVE  /\ IsFiniteSet(Adding(k))
           /\ Cardinality(Adding(k)) \in Nat /\ Cardinality(Threads) \in Nat
           /\ Cardinality(Adding(k)) <= Cardinality(Threads)
<1>1. IsFiniteSet(Threads) /\ Adding(k) \subseteq Threads
  BY DEF Choked, Adding
<1> QED
  BY <1>1, FS_Subset, FS_CardinalityType

\* What a reader is given is what was laid down.
LEMMA CarriedIsRead ==
    ASSUME SizesAssumption, NEW e \in EntryIds, NEW m \in 1..Total, Carries(e, m)
    PROVE  Read(e) = Bytes(m)
BY DEF SizesAssumption, Carries, Read, Bytes

\* A step that leaves the queues and the buffer alone leaves what waits alone.
LEMMA NothingMoves ==
    ASSUME QueueInv, UNCHANGED <<queueVars, entry, cell>>,
           \A k \in Queues : ~Resetting(k) /\ ~Resetting(k)',
           \A u \in Threads : Publishing(u)' => Publishing(u) /\ th'[u] = th[u]
    PROVE  /\ \A k \in Queues : Backlog(k)' = Backlog(k)
           /\ CountExact' /\ ApartInv' /\ BytesInv'
           /\ Pending' = Pending
<1>1. CountExact /\ ApartInv /\ BytesInv
  BY DEF QueueInv
<1>2. slot' = slot /\ rd' = rd /\ wr' = wr /\ count' = count /\ entry' = entry /\ cell' = cell
  BY DEF queueVars
<1>3. \A k \in Queues : Backlog(k)' = Backlog(k) /\ Unread(k)' = Unread(k)
  BY <1>2 DEF Backlog, Unread
<1>4. \A k \in Queues : \A i : Waits(k, i)' <=> Waits(k, i)
  BY <1>3 DEF Waits
<1>5. CountExact'
  BY <1>1, <1>2, <1>3 DEF CountExact
<1>6. Pending' = Pending
  BY <1>2, <1>3 DEF Pending, Read
<1>7. ApartInv'
  BY <1>1, <1>2, <1>3, <1>4 DEF ApartInv
<1>8. BytesInv'
  <2>1. ASSUME NEW k \in Queues, NEW i \in Unread(k)', Waits(k, i)'
        PROVE  \E m \in 1..Total : Carries(slot[k][i], m)'
    <3>1. PICK m \in 1..Total : Carries(slot[k][i], m)
      BY <1>1, <1>3, <1>4, <2>1 DEF BytesInv
    <3>2. Carries(slot[k][i], m)'
      BY <1>2, <3>1 DEF Carries
    <3> QED
      BY <3>2
  <2>2. ASSUME NEW u \in Threads, Publishing(u)' PROVE Carries(th[u].e, th[u].msg)'
    <3>1. th'[u] = th[u] /\ Carries(th[u].e, th[u].msg)
      BY <1>1, <2>2 DEF BytesInv
    <3> QED
      BY <1>2, <3>1 DEF Carries
  <2> QED
    BY <2>1, <2>2 DEF BytesInv
<1> QED
  BY <1>3, <1>5, <1>6, <1>7, <1>8

\* What is pending in a queue is what waits in its slots.
LEMMA PendingIsWaiting ==
    ASSUME SizesAssumption, QueueInv, NEW k \in Queues, ~Resetting(k)
    PROVE  /\ Pending[k] \in Seq({Bytes(m) : m \in 1..Total})
           /\ Len(Pending[k]) = Backlog(k)
           /\ \A i \in 1..Backlog(k) :
                 /\ Pending[k][i] = Read(slot[k][(rd[k] + i - 1) % Slots])
                 /\ (rd[k] + i - 1) % Slots \in Unread(k)
           /\ \A i \in Unread(k) :
                 /\ i \in 0..Slots - 1 /\ slot[k][i] \in EntryIds
                 /\ \E m \in 1..Total : Carries(slot[k][i], m) /\ Read(slot[k][i]) = Bytes(m)
<1>1. ShapeInv /\ CountExact /\ BytesInv
  BY DEF QueueInv
<1>2. Backlog(k) \in Nat /\ Unread(k) \subseteq 0..Slots - 1
  BY <1>1, Places
<1>3. \A i \in Unread(k) :
         /\ i \in 0..Slots - 1 /\ slot[k][i] \in EntryIds
         /\ \E m \in 1..Total : Carries(slot[k][i], m) /\ Read(slot[k][i]) = Bytes(m)
  <2> TAKE i \in Unread(k)
  <2>1. i \in 0..Slots - 1 /\ slot[k][i] \in EntryIds
    BY <1>1, <1>2, SMTT(30) DEF CountExact, ShapeInv
  <2>2. PICK m \in 1..Total : Carries(slot[k][i], m)
    BY <1>1 DEF BytesInv, Waits
  <2> QED
    BY <2>1, <2>2, CarriedIsRead
<1>4. ASSUME NEW i \in 1..Backlog(k) PROVE (rd[k] + i - 1) % Slots \in Unread(k)
  <2>1. i - 1 \in 0..Backlog(k) - 1 /\ rd[k] + i - 1 = rd[k] + (i - 1)
    BY <1>1, Places
  <2> QED
    BY <2>1 DEF Unread
<1>5. Pending[k] = [i \in 1..Backlog(k) |-> Read(slot[k][(rd[k] + i - 1) % Slots])]
  BY DEF Pending
<1>6. \A i \in 1..Backlog(k) : Pending[k][i] \in {Bytes(m) : m \in 1..Total}
  BY <1>3, <1>4, <1>5
<1>7. Pending[k] \in [1..Backlog(k) -> {Bytes(m) : m \in 1..Total}]
  BY <1>5, <1>6
<1>8. Pending[k] \in Seq({Bytes(m) : m \in 1..Total}) /\ Len(Pending[k]) = Backlog(k)
  <2> DEFINE S == {Bytes(m) : m \in 1..Total}
             p == Pending[k]
             d == Backlog(k)
  <2>1. d \in Nat /\ p \in [1..d -> S]
    BY <1>2, <1>7
  <2> HIDE DEF S, p, d
  <2>2. p \in Seq(S) /\ Len(p) = d
    BY <2>1, SeqOfLength
  <2> QED
    BY <2>2 DEF S, p, d
<1>9. \A i \in 1..Backlog(k) : Pending[k][i] = Read(slot[k][(rd[k] + i - 1) % Slots])
  BY <1>5
<1> QED
  BY <1>3, <1>4, <1>8, <1>9

\* The oldest message of a queue, as its reader finds it.
LEMMA OldestIs ==
    ASSUME SizesAssumption, QueueInv, NEW k \in Queues, ~Resetting(k)
    PROVE  /\ Pending[k] = <<>> => rd[k] = wr[k] /\ NextSize(k) = 0
           /\ Pending[k] # <<>> =>
                 /\ rd[k] # wr[k] /\ slot[k][rd[k]] \in EntryIds /\ slot[k][rd[k]] # Null
                 /\ Read(slot[k][rd[k]]) = Head(Pending[k])
                 /\ NextSize(k) = Len(Head(Pending[k]))
                 /\ NextSize(k) = entry[slot[k][rd[k]]].length
                 /\ \E m \in 1..Total : Head(Pending[k]) = Bytes(m)
<1> DEFINE e == slot[k][rd[k]]
<1>1. ShapeInv
  BY DEF QueueInv
<1>2. /\ rd[k] \in 0..Slots - 1 /\ wr[k] \in 0..Slots - 1 /\ Slots \in Nat \ {0}
      /\ Backlog(k) = IF rd[k] <= wr[k] THEN wr[k] - rd[k] ELSE wr[k] - rd[k] + Slots
      /\ (rd[k] + 0) % Slots = rd[k] /\ Backlog(k) \in Nat
  <2>1. /\ rd[k] \in 0..Slots - 1 /\ wr[k] \in 0..Slots - 1 /\ Slots \in Nat \ {0}
        /\ Backlog(k) = IF rd[k] <= wr[k] THEN wr[k] - rd[k] ELSE wr[k] - rd[k] + Slots
        /\ Backlog(k) \in Nat
    BY <1>1, Places
  <2>2. (rd[k] + 0) % Slots = rd[k]
    <3> DEFINE r == rd[k]
    <3>1. r \in 0..Slots - 1 /\ Slots \in Nat \ {0}
      BY <2>1
    <3> HIDE DEF r
    <3>2. (r + 0) % Slots = r
      BY <3>1, Z3
    <3> QED
      BY <3>2 DEF r
  <2> QED
    BY <2>1, <2>2
<1>3. /\ Pending[k] \in Seq({Bytes(m) : m \in 1..Total}) /\ Len(Pending[k]) = Backlog(k)
      /\ \A i \in 1..Backlog(k) : Pending[k][i] = Read(slot[k][(rd[k] + i - 1) % Slots])
      /\ \A i \in Unread(k) :
            /\ slot[k][i] \in EntryIds
            /\ \E m \in 1..Total : Carries(slot[k][i], m) /\ Read(slot[k][i]) = Bytes(m)
  BY PendingIsWaiting
<1>4. ASSUME Pending[k] = <<>> PROVE rd[k] = wr[k] /\ NextSize(k) = 0
  <2>1. Backlog(k) = 0
    BY <1>3, <1>4
  <2>2. rd[k] = wr[k]
    <3> DEFINE r == rd[k]
               w == wr[k]
               d == Backlog(k)
    <3>1. /\ r \in 0..Slots - 1 /\ w \in 0..Slots - 1 /\ Slots \in Nat \ {0} /\ d = 0
          /\ d = IF r <= w THEN w - r ELSE w - r + Slots
      BY <1>2, <2>1
    <3> HIDE DEF r, w, d
    <3>2. r = w
      BY <3>1
    <3> QED
      BY <3>2 DEF r, w
  <2> QED
    BY <2>2 DEF NextSize
<1>5. ASSUME Pending[k] # <<>>
      PROVE  /\ rd[k] # wr[k] /\ e \in EntryIds /\ e # Null
             /\ Read(e) = Head(Pending[k])
             /\ NextSize(k) = Len(Head(Pending[k]))
             /\ NextSize(k) = entry[e].length
             /\ \E m \in 1..Total : Head(Pending[k]) = Bytes(m)
  <2>1. Backlog(k) \in Nat \ {0} /\ Head(Pending[k]) = Pending[k][1]
    <3> DEFINE S == {Bytes(m) : m \in 1..Total}
               p == Pending[k]
    <3>1. p \in Seq(S) /\ p # <<>> /\ Len(p) = Backlog(k)
      BY <1>3, <1>5
    <3> HIDE DEF S, p
    <3>2. Len(p) \in Nat \ {0} /\ Head(p) = p[1]
      BY <3>1
    <3> QED
      BY <3>1, <3>2 DEF p
  <2>2. rd[k] # wr[k]
    BY <1>2, <2>1
  <2>3. Head(Pending[k]) = Read(e)
    <3>1. 1 \in 1..Backlog(k) /\ rd[k] + 1 - 1 = rd[k] + 0
      BY <1>2, <2>1
    <3> QED
      BY <1>2, <1>3, <2>1, <3>1
  <2>4. rd[k] \in Unread(k)
    <3>1. 0 \in 0..Backlog(k) - 1
      BY <2>1
    <3> QED
      BY <1>2, <3>1 DEF Unread
  <2>5. PICK m \in 1..Total : e \in EntryIds /\ Carries(e, m) /\ Read(e) = Bytes(m)
    BY <1>3, <2>4
  <2>6. e # Null
    BY <2>5 DEF EntryIds, Null, SizesAssumption
  <2>7. NextSize(k) = entry[e].length /\ entry[e].length = Length[m] /\ Length[m] \in Nat
    BY <2>2, <2>5, <2>6 DEF NextSize, Carries, SizesAssumption
  <2>8. Len(Bytes(m)) = Length[m]
    BY <2>7 DEF Bytes
  <2> HIDE DEF e
  <2> QED
    BY <2>2, <2>3, <2>5, <2>6, <2>7, <2>8
<1> QED
  BY <1>4, <1>5

-----------------------------------------------------------------------------
(* One lemma for each action: it keeps QueueInv, and is a step of Fifo or  *)
(* changes nothing there.                                                  *)

FifoStep == Abstract!Next \/ UNCHANGED <<Pending, taken>>

\* A message is added to queue k, and the oldest one of k is handed over.
Gains(k, bytes) == Pending' = [Pending EXCEPT ![k] = Append(@, bytes)] /\ taken' = taken
Yields(k) ==
    /\ Pending[k] # <<>>
    /\ Pending' = [Pending EXCEPT ![k] = Tail(@)]
    /\ taken' = [taken EXCEPT ![k] = Append(@, Head(Pending[k]))]

LEMMA AdmitKeeps ==
    ASSUME SizesAssumption, Choked, QueueInv, NEW t \in Threads, NEW q \in Queues, Admit(t, q)
    PROVE  QueueInv' /\ UNCHANGED <<Pending, taken>>
<1>1. ShapeInv /\ AloneInv /\ CountExact /\ ChokeInv
  BY DEF QueueInv
<1>2. th[t] = Idle /\ th[t].pc = "idle" /\ th \in [Threads -> Calls] /\ sent \in 0..Total
  BY <1>1, CallShapes DEF Admit, ShapeInv
<1>3. sent + 1 \in 1..Total /\ sent' = sent + 1
  BY <1>2 DEF Admit, SizesAssumption
<1>4. /\ th'[t].pc = "entry" /\ th'[t].q = q
      /\ \A u \in Threads : u # t => th'[u] = th[u]
      /\ th' \in [Threads -> Calls]
  BY <1>2, <1>3 DEF Admit, Calls
<1>5. /\ \A u \in Threads : th[u].pc \notin {"reset rd", "reset wr"}
      /\ \A k \in Queues : ~Resetting(k)
  BY <1>1, <1>2, Undisturbed
<1>6. AloneInv' /\ \A k \in Queues : ~Resetting(k)'
  <2>1. \A u \in Threads : th'[u].pc \notin {"reset rd", "reset wr"}
    BY <1>4, <1>5
  <2> QED
    BY <2>1, StaysUndisturbed
<1>7. UNCHANGED <<queueVars, bufferVars, taken>>
  BY DEF Admit
<1>8. /\ \A k \in Queues : Backlog(k)' = Backlog(k)
      /\ CountExact' /\ ApartInv' /\ BytesInv'
      /\ Pending' = Pending
  <2>1. \A u \in Threads : Publishing(u)' => Publishing(u) /\ th'[u] = th[u]
    BY <1>4 DEF Publishing
  <2>2. UNCHANGED <<queueVars, entry, cell>>
    BY <1>7 DEF bufferVars
  <2> QED
    BY <1>5, <1>6, <2>1, <2>2, NothingMoves
<1>9. ShapeInv'
  <2>1. sent' \in 0..Total
    BY <1>3 DEF SizesAssumption
  <2> QED
    BY <1>1, <1>4, <1>7, <2>1 DEF ShapeInv, queueVars, bufferVars
<1>10. ChokeInv'
  <2> SUFFICES ASSUME NEW k \in Queues
               PROVE  Backlog(k)' + Cardinality(Adding(k)') <= Choke + Cardinality(Threads)
    BY DEF ChokeInv
  <2>1. CASE k = q
    <3>1. count[k] = Backlog(k) /\ count[k] <= Choke
      BY <1>1, <1>5, <2>1 DEF CountExact, Admit
    <3>2. IsFiniteSet(Threads) /\ Adding(k)' \subseteq Threads
      BY DEF Choked, Adding
    <3>3. /\ Cardinality(Adding(k)') \in Nat /\ Cardinality(Threads) \in Nat
          /\ Cardinality(Adding(k)') <= Cardinality(Threads)
      BY <3>2, FS_Subset, FS_CardinalityType
    <3>4. Backlog(k) \in Nat
      BY <1>1, Places
    <3> QED
      BY <1>8, <3>1, <3>3, <3>4 DEF SizesAssumption
  <2>2. CASE k # q
    <3>1. Adding(k)' = Adding(k)
      BY <1>2, <1>4, <2>2 DEF Adding, Handling
    <3> QED
      BY <1>1, <1>5, <1>8, <3>1 DEF ChokeInv
  <2> QED
    BY <2>1, <2>2
<1> QED
  BY <1>6, <1>7, <1>8, <1>9, <1>10 DEF QueueInv

LEMMA GetNextEntryKeeps ==
    ASSUME SizesAssumption, QueueInv, NEW t \in Threads, GetNextEntry(t)
    PROVE  QueueInv' /\ UNCHANGED <<Pending, taken>>
<1>1. ShapeInv /\ AloneInv /\ ChokeInv
  BY DEF QueueInv
<1>2. th[t].pc = "entry" /\ th \in [Threads -> Calls] /\ entryIdx \in EntryIds
      /\ th[t].q \in Queues /\ th[t].msg \in 1..Total
  BY <1>1, CallShapes DEF GetNextEntry, ShapeInv, Handling
<1>3. /\ th'[t].pc = "write" /\ th'[t].q = th[t].q
      /\ \A u \in Threads : u # t => th'[u] = th[u]
      /\ th' \in [Threads -> Calls]
  BY <1>2 DEF GetNextEntry, Calls
<1>4. /\ \A u \in Threads : th[u].pc \notin {"reset rd", "reset wr"}
      /\ \A k \in Queues : ~Resetting(k)
  BY <1>1, <1>2, Undisturbed
<1>5. AloneInv' /\ \A k \in Queues : ~Resetting(k)'
  <2>1. \A u \in Threads : th'[u].pc \notin {"reset rd", "reset wr"}
    BY <1>3, <1>4
  <2> QED
    BY <2>1, StaysUndisturbed
<1>6. UNCHANGED <<queueVars, entry, cell, writePtr, sent, taken>>
  BY DEF GetNextEntry
<1>7. /\ \A k \in Queues : Backlog(k)' = Backlog(k)
      /\ CountExact' /\ ApartInv' /\ BytesInv'
      /\ Pending' = Pending
  <2>1. \A u \in Threads : Publishing(u)' => Publishing(u) /\ th'[u] = th[u]
    BY <1>3 DEF Publishing
  <2> QED
    BY <1>4, <1>5, <1>6, <2>1, NothingMoves
<1>8. ShapeInv'
  <2>1. entryIdx' \in EntryIds
    BY <1>2 DEF GetNextEntry, Step, EntryIds, SizesAssumption
  <2> QED
    BY <1>1, <1>3, <1>6, <2>1 DEF ShapeInv, queueVars
<1>9. ChokeInv'
  <2>1. \A k \in Queues : Adding(k)' = Adding(k)
    BY <1>2, <1>3 DEF Adding, Handling
  <2> QED
    BY <1>1, <1>4, <1>7, <2>1 DEF ChokeInv
<1> QED
  BY <1>5, <1>6, <1>7, <1>8, <1>9 DEF QueueInv

LEMMA WriteKeeps ==
    ASSUME SizesAssumption, Choked, Roomy, Roomy', QueueInv, NEW t \in Threads, Write(t)
    PROVE  QueueInv' /\ UNCHANGED <<Pending, taken>>
<1>0. PICK e, msg, n, at : e = th[t].e /\ msg = th[t].msg /\ n = Length[msg] /\ at = writePtr
  OBVIOUS
<1>1. ShapeInv /\ AloneInv /\ CountExact /\ ChokeInv /\ ApartInv /\ BytesInv
  BY DEF QueueInv
<1>2. /\ th[t].pc = "write" /\ th \in [Threads -> Calls] /\ at \in 0..Size
      /\ e \in EntryIds /\ th[t].q \in Queues /\ msg \in 1..Total
      /\ th[t] \in [pc : {"write", "publish"}, q : Queues, msg : 1..Total, e : EntryIds]
  BY <1>0, <1>1, CallShapes DEF Write, WriteBytes, ShapeInv, Handling
<1>3. /\ Size \in Nat \ {0} /\ n \in 1..Size
      /\ Len(Bytes(msg)) = n /\ \A i \in 1..n : Bytes(msg)[i] = <<msg, i>>
  <2>1. n \in Nat \ {0} /\ n <= Size /\ Size \in Nat \ {0}
    BY <1>0, <1>2 DEF Choked, SizesAssumption
  <2>2. Bytes(msg) = [i \in 1..n |-> <<msg, i>>]
    BY <1>0 DEF Bytes
  <2> QED
    BY <2>1, <2>2
<1>4. /\ th'[t].pc = "publish" /\ th'[t].q = th[t].q /\ th'[t].e = e /\ th'[t].msg = msg
      /\ \A u \in Threads : u # t => th'[u] = th[u]
      /\ th' \in [Threads -> Calls]
  <2>2. th' = [th EXCEPT ![t].pc = "publish"]
    BY DEF Write, WriteBytes
  <2>3. /\ th'[t] \in [pc : {"write", "publish"}, q : Queues, msg : 1..Total, e : EntryIds]
        /\ th'[t].pc = "publish" /\ th'[t].q = th[t].q /\ th'[t].e = e /\ th'[t].msg = msg
    BY <1>0, <1>2, <2>2
  <2> QED
    BY <1>2, <2>2, <2>3 DEF Calls
<1>5. /\ \A u \in Threads : th[u].pc \notin {"reset rd", "reset wr"}
      /\ \A k \in Queues : ~Resetting(k)
  BY <1>1, <1>2, Undisturbed
<1>6. AloneInv' /\ \A k \in Queues : ~Resetting(k)'
  <2>1. \A u \in Threads : th'[u].pc \notin {"reset rd", "reset wr"}
    BY <1>4, <1>5
  <2> QED
    BY <2>1, StaysUndisturbed
<1>7. /\ slot' = slot /\ rd' = rd /\ wr' = wr /\ count' = count
      /\ entryIdx' = entryIdx /\ sent' = sent /\ taken' = taken
  BY DEF Write, WriteBytes, queueVars
<1>8. /\ \A k \in Queues : Backlog(k)' = Backlog(k) /\ Unread(k)' = Unread(k)
      /\ \A k \in Queues : \A i : Waits(k, i)' <=> Waits(k, i)
  <2>1. \A k \in Queues : Backlog(k)' = Backlog(k) /\ Unread(k)' = Unread(k)
    BY <1>7 DEF Backlog, Unread
  <2> QED
    BY <1>5, <1>6, <2>1 DEF Waits
<1>9. entry' = [entry EXCEPT ![e] = Entry(at, n)] /\ entry'[e].at = at /\ entry'[e].length = n
  <2>1. entry' = [entry EXCEPT ![e] = Entry(at, n)]
    BY <1>0, <1>3 DEF Write, WriteBytes
  <2> QED
    BY <1>1, <1>2, <2>1 DEF ShapeInv, Entry
<1>10. \A b \in 0..Size - 1 :
          cell'[b] = IF (b - at) % Size < n THEN <<msg, ((b - at) % Size) + 1>> ELSE cell[b]
  <2>1. cell' = [b \in 0..Size - 1 |-> IF (b - at) % Size < n
                                       THEN Bytes(msg)[((b - at) % Size) + 1] ELSE cell[b]]
    BY <1>0, <1>3 DEF Write, WriteBytes
  <2> TAKE b \in 0..Size - 1
  <2>2. (b - at) % Size \in 0..Size - 1
    BY <1>2, <1>3, RingBytes
  <2>3. (b - at) % Size < n => ((b - at) % Size) + 1 \in 1..n
    BY <1>3, <2>2
  <2> QED
    BY <1>3, <2>1, <2>3
<1>11. Carries(e, msg)'
  <2>1. ASSUME NEW i \in 1..n PROVE cell'[(at + i - 1) % Size] = <<msg, i>>
    <3>1. i - 1 \in 0..Size - 1 /\ i - 1 < n /\ at + i - 1 = at + (i - 1) /\ (i - 1) + 1 = i
      BY <1>2, <1>3
    <3>2. (at + (i - 1)) % Size \in 0..Size - 1 /\ (((at + (i - 1)) % Size) - at) % Size = i - 1
      BY <1>2, <1>3, <3>1, RingBytes, ZenonT(40)
    <3> QED
      BY <1>10, <3>1, <3>2
  <2> QED
    BY <1>0, <1>9, <2>1 DEF Carries
\* What is in an entry of another message still to be read is not written over.
<1>12. ASSUME NEW f \in EntryIds, NEW m \in 1..Total, Carries(f, m), f # e, f \in Live'
       PROVE  Carries(f, m)'
  <2>1. e \in Live'
    BY <1>2, <1>4 DEF Live, Publishing
  <2>2. Region(e)' \cap Region(f)' = {}
    BY <1>12, <2>1, <1>2 DEF Roomy
  <2>3. entry'[f] = entry[f] /\ entry[f].length = Length[m] /\ entry[f].at \in 0..Size
    BY <1>1, <1>2, <1>9, <1>12 DEF Carries, ShapeInv
  <2>4. Length[m] \in 1..Size
    BY <1>3 DEF Choked, SizesAssumption
  <2>5. ASSUME NEW i \in 1..Length[m]
        PROVE  cell'[(entry[f].at + i - 1) % Size] = cell[(entry[f].at + i - 1) % Size]
    <3> DEFINE b == (entry[f].at + (i - 1)) % Size
    <3>1. i - 1 \in 0..Length[m] - 1 /\ i - 1 \in 0..Size - 1 /\ entry[f].at + i - 1 = entry[f].at + (i - 1)
      BY <1>3, <2>3, <2>4, SMTT(30)
    <3>2. b \in 0..Size - 1
      BY <1>3, <2>3, <3>1, RingBytes
    <3>3. b \in Region(f)'
      BY <2>3, <3>1 DEF Region
    <3>4. (b - at) % Size \in 0..Size - 1 /\ (at + ((b - at) % Size)) % Size = b
      BY <1>2, <1>3, <3>2, RingBytes, ZenonT(40)
    <3>5. (b - at) % Size < n => b \in Region(e)'
      <4>1. (b - at) % Size < n => (b - at) % Size \in 0..n - 1
        BY <1>3, <3>4
      <4>2. Region(e)' = {(at + j) % Size : j \in 0..n - 1}
        BY <1>9 DEF Region
      <4> HIDE DEF b
      <4> QED
        BY <3>4, <4>1, <4>2
    <3>6. ~((b - at) % Size < n)
      BY <2>2, <3>3, <3>5
    <3> QED
      BY <1>10, <3>1, <3>2, <3>6
  <2> QED
    BY <1>12, <2>3, <2>5 DEF Carries
<1>13. \A k \in Queues : \A i \in Unread(k) :
          /\ slot[k][i] \in EntryIds /\ slot[k][i] # e /\ slot[k][i] \in Live'
          /\ \E m \in 1..Total : Carries(slot[k][i], m) /\ Carries(slot[k][i], m)'
  <2> TAKE k \in Queues
  <2> TAKE i \in Unread(k)
  <2>1. slot[k][i] \in EntryIds
    <3>1. slot[k][i] # Null
      BY <1>1, <1>5 DEF CountExact
    <3>2. i \in 0..Slots - 1
      BY <1>1, Places
    <3> QED
      BY <1>1, <3>1, <3>2, SMTT(30) DEF ShapeInv
  <2>2. slot[k][i] # e
    BY <1>0, <1>2 DEF Roomy, NeverSmacked
  <2>3. Waits(k, i) /\ Waits(k, i)'
    BY <1>5, <1>8 DEF Waits
  <2>4. slot[k][i] \in Live'
    BY <1>7, <1>8, <2>1, <2>3 DEF Live
  <2>5. PICK m \in 1..Total : Carries(slot[k][i], m)
    BY <1>1, <2>3 DEF BytesInv
  <2>6. Carries(slot[k][i], m)'
    <3> DEFINE f == slot[k][i]
    <3>1. f \in EntryIds /\ f # e /\ f \in Live' /\ Carries(f, m)
      BY <2>1, <2>2, <2>4, <2>5
    <3> QED
      BY <1>7, <1>12, <3>1 DEF Carries
  <2> QED
    BY <2>1, <2>2, <2>4, <2>5, <2>6
<1>14. ShapeInv'
  <2>1. writePtr' \in 0..Size
    <3>1. writePtr' = Advance(at, n)
      BY <1>0, <1>3 DEF Write, WriteBytes
    <3>2. at \in 0..Size /\ n \in 1..Size /\ Size \in Nat
      BY <1>2, <1>3
    <3>3. Advance(at, n) \in 0..Size
      BY <3>2 DEF Advance
    <3> QED
      BY <3>1, <3>3
  <2>2. entry' \in [EntryIds -> [at : 0..Size, length : Nat]]
    BY <1>1, <1>2, <1>3, <1>9 DEF ShapeInv, Entry
  <2> QED
    BY <1>1, <1>4, <1>7, <2>1, <2>2 DEF ShapeInv
<1>15. CountExact'
  BY <1>1, <1>5, <1>7, <1>8 DEF CountExact
<1>16. ChokeInv'
  <2>1. \A k \in Queues : Adding(k)' = Adding(k)
    BY <1>2, <1>4 DEF Adding, Handling
  <2> QED
    BY <1>1, <1>5, <1>8, <2>1 DEF ChokeInv
<1>17. ApartInv'
  <2>1. (\A k, l \in Queues : \A i \in Unread(k), j \in Unread(l) :
            Waits(k, i) /\ Waits(l, j) /\ slot[k][i] = slot[l][j] => k = l /\ i = j)'
    BY <1>1, <1>7, <1>8 DEF ApartInv
  <2>2. (\A k \in Queues : \A i \in Unread(k) : \A u \in Threads :
            Waits(k, i) /\ Publishing(u) => slot[k][i] # th[u].e)'
    <3> SUFFICES ASSUME NEW k \in Queues, NEW i \in Unread(k), NEW u \in Threads, Publishing(u)'
                 PROVE  slot[k][i] # th'[u].e
      BY <1>7, <1>8
    <3>1. CASE u = t
      BY <1>4, <1>13, <3>1
    <3>2. CASE u # t
      <4>1. Publishing(u) /\ th'[u] = th[u]
        BY <1>4, <3>2 DEF Publishing
      <4>2. Waits(k, i)
        BY <1>5 DEF Waits
      <4> QED
        BY <1>1, <4>1, <4>2 DEF ApartInv
    <3> QED
      BY <3>1, <3>2
  <2> QED
    BY <2>1, <2>2 DEF ApartInv
<1>18. BytesInv'
  <2>1. ASSUME NEW k \in Queues, NEW i \in Unread(k)', Waits(k, i)'
        PROVE  \E m \in 1..Total : Carries(slot[k][i], m)'
    <3>1. PICK m \in 1..Total : Carries(slot[k][i], m) /\ Carries(slot[k][i], m)'
      BY <1>8, <1>13
    <3> QED
      BY <3>1
  <2>2. ASSUME NEW u \in Threads, Publishing(u)' PROVE Carries(th[u].e, th[u].msg)'
    <3>1. CASE u = t
      BY <1>4, <1>11, <3>1 DEF Carries
    <3>2. CASE u # t
      <4>1. Publishing(u) /\ th'[u] = th[u]
        BY <1>4, <2>2, <3>2 DEF Publishing
      <4>2. th[u].e \in EntryIds /\ th[u].msg \in 1..Total
        BY <1>1, <4>1, CallShapes DEF Publishing, Handling
      <4>3. Carries(th[u].e, th[u].msg)
        BY <1>1, <4>1 DEF BytesInv
      <4>4. th[u].e # e
        BY <1>0, <1>2, <3>2, <4>1 DEF Roomy, Publishing
      <4>5. th[u].e \in Live'
        BY <2>2, <4>1, <4>2 DEF Live
      <4>6. PICK f, m : f = th[u].e /\ m = th[u].msg
        OBVIOUS
      <4>7. Carries(f, m)'
        BY <1>12, <4>2, <4>3, <4>4, <4>5, <4>6
      <4> QED
        BY <4>1, <4>6, <4>7 DEF Carries
    <3> QED
      BY <3>1, <3>2
  <2> QED
    BY <2>1, <2>2 DEF BytesInv
<1>19. Pending' = Pending
  <2>1. ASSUME NEW k \in Queues, NEW i \in Unread(k) PROVE Read(slot[k][i])' = Read(slot[k][i])
    <3>1. PICK m \in 1..Total : Carries(slot[k][i], m) /\ Carries(slot[k][i], m)'
      BY <1>13, <2>1
    <3>2. Read(slot[k][i]) = Bytes(m)
      BY <1>13, <3>1, CarriedIsRead
    <3>3. Read(slot[k][i])' = Bytes(m)
      BY <1>7, <3>1 DEF Carries, Read, Bytes
    <3> QED
      BY <3>2, <3>3
  <2>2. \A k \in Queues : \A i \in 1..Backlog(k) : (rd[k] + i - 1) % Slots \in Unread(k)
    BY <1>5, PendingIsWaiting
  <2>3. \A k \in Queues : \A i \in 1..Backlog(k) :
           Read(slot[k][(rd[k] + i - 1) % Slots])' = Read(slot[k][(rd[k] + i - 1) % Slots])
    <3> TAKE k \in Queues
    <3> TAKE i \in 1..Backlog(k)
    <3>1. (rd[k] + i - 1) % Slots \in Unread(k)
      BY <2>2
    <3>2. PICK j : j = (rd[k] + i - 1) % Slots
      OBVIOUS
    <3>3. Read(slot[k][j])' = Read(slot[k][j])
      BY <2>1, <3>1, <3>2
    <3> QED
      BY <1>7, <3>2, <3>3 DEF Read
  <2> QED
    BY <1>5, <1>6, <1>8, <2>3 DEF Pending
<1> QED
  BY <1>6, <1>7, <1>14, <1>15, <1>16, <1>17, <1>18, <1>19 DEF QueueInv

LEMMA PublishKeeps ==
    ASSUME SizesAssumption, Choked, Roomy, QueueInv, NEW t \in Threads, Publish(t)
    PROVE  QueueInv' /\ Gains(th[t].q, Bytes(th[t].msg))
<1>0. PICK q, e, msg, r, w, d : /\ q = th[t].q /\ e = th[t].e /\ msg = th[t].msg
                                /\ r = rd[q] /\ w = wr[q] /\ d = Backlog(q)
  OBVIOUS
<1>1. ShapeInv /\ AloneInv /\ CountExact /\ ChokeInv /\ ApartInv /\ BytesInv
  BY DEF QueueInv
<1>2. /\ th[t].pc = "publish" /\ th \in [Threads -> Calls]
      /\ e \in EntryIds /\ q \in Queues /\ msg \in 1..Total
  BY <1>0, <1>1, CallShapes DEF Publish, ShapeInv, Handling
<1>3. /\ \A u \in Threads : th[u].pc \notin {"reset rd", "reset wr"}
      /\ \A k \in Queues : ~Resetting(k)
  BY <1>1, <1>2, Undisturbed
<1>4. /\ th'[t].pc = "idle"
      /\ \A u \in Threads : u # t => th'[u] = th[u]
      /\ th' \in [Threads -> Calls]
  BY <1>2 DEF Publish, Calls, Idle
<1>5. AloneInv' /\ \A k \in Queues : ~Resetting(k)'
  <2>1. \A u \in Threads : th'[u].pc \notin {"reset rd", "reset wr"}
    BY <1>3, <1>4
  <2> QED
    BY <2>1, StaysUndisturbed
<1>6. /\ rd' = rd /\ entry' = entry /\ entryIdx' = entryIdx /\ cell' = cell
      /\ writePtr' = writePtr /\ sent' = sent /\ taken' = taken
  BY DEF Publish, bufferVars
<1>7. /\ Slots \in Nat \ {0} /\ r \in 0..Slots - 1 /\ w \in 0..Slots - 1
      /\ d = (w - r) % Slots /\ d \in 0..Slots - 1
  BY <1>0, <1>1, <1>2, Places DEF Backlog
<1>8. /\ slot' = [slot EXCEPT ![q][w] = e]
      /\ wr' = [wr EXCEPT ![q] = Step(w, Slots)]
      /\ count' = [count EXCEPT ![q] = (count[q] + 1) % Word]
  BY <1>0 DEF Publish
\* The choke has left a slot free.
<1>9. d < Slots - 1
  <2>1. t \in Adding(q)
    BY <1>0, <1>2 DEF Adding, Handling
  <2>2. IsFiniteSet(Adding(q)) /\ Cardinality(Adding(q)) \in Nat /\ Cardinality(Threads) \in Nat
    BY <1>2, AddersFit
  <2>3. Cardinality(Adding(q)) # 0
    BY <2>1, <2>2, FS_EmptySet
  <2>4. d + Cardinality(Adding(q)) <= Choke + Cardinality(Threads)
    BY <1>0, <1>1, <1>2, <1>3 DEF ChokeInv
  <2>5. Choke + Cardinality(Threads) < Slots /\ Choke \in Nat
    BY DEF Choked, SizesAssumption
  <2> QED
    BY <1>7, <2>2, <2>3, <2>4, <2>5
<1>10. /\ Step(w, Slots) \in 0..Slots - 1
       /\ (Step(w, Slots) - r) % Slots = d + 1
       /\ (r + d) % Slots = w
       /\ \A i \in 0..d - 1 : (r + i) % Slots # w
  <2>1. (w - r) % Slots < Slots - 1
    BY <1>7, <1>9
  <2>2. /\ Step(w, Slots) \in 0..Slots - 1
        /\ (Step(w, Slots) - r) % Slots = ((w - r) % Slots) + 1
        /\ (r + ((w - r) % Slots)) % Slots = w
        /\ \A i \in 0..((w - r) % Slots) - 1 : (r + i) % Slots # w
    BY <1>7, <2>1, RingAdd, ZenonT(40)
  <2> QED
    BY <1>7, <2>2
<1>11. /\ \A k \in Queues : k # q => Backlog(k)' = Backlog(k) /\ Unread(k)' = Unread(k)
       /\ Backlog(q)' = d + 1 /\ Unread(q)' = Unread(q) \cup {w} /\ w \notin Unread(q)
       /\ \A k \in Queues : \A i \in Unread(k)' : i \in Unread(k) \/ (k = q /\ i = w)
  <2>1. \A k \in Queues : k # q => wr'[k] = wr[k]
    BY <1>1, <1>8 DEF ShapeInv
  <2>2. wr'[q] = Step(w, Slots)
    BY <1>1, <1>2, <1>8 DEF ShapeInv
  <2>3. Backlog(q)' = d + 1
    BY <1>0, <1>6, <1>10, <2>2 DEF Backlog
  <2>4. Unread(q) = {(r + i) % Slots : i \in 0..d - 1}
    BY <1>0 DEF Unread
  <2>5. Unread(q)' = {(r + i) % Slots : i \in 0..d}
    <3>1. Unread(q)' = {(r + i) % Slots : i \in 0..(d + 1) - 1}
      BY <1>0, <1>6, <2>3 DEF Unread
    <3>2. (d + 1) - 1 = d
      BY <1>7
    <3> QED
      BY <3>1, <3>2
  <2>6. 0..d = (0..d - 1) \cup {d}
    BY <1>7
  <2>7. Unread(q)' = Unread(q) \cup {w} /\ w \notin Unread(q)
    BY <1>10, <2>4, <2>5, <2>6
  <2>8. ASSUME NEW k \in Queues, k # q PROVE Backlog(k)' = Backlog(k) /\ Unread(k)' = Unread(k)
    <3>1. Backlog(k)' = Backlog(k)
      BY <1>6, <2>1, <2>8 DEF Backlog
    <3> QED
      BY <1>6, <3>1 DEF Unread
  <2>9. ASSUME NEW k \in Queues, NEW i \in Unread(k)' PROVE i \in Unread(k) \/ (k = q /\ i = w)
    <3>1. CASE k = q
      BY <2>7, <2>9, <3>1 DEF Unread, Backlog
    <3>2. CASE k # q
      BY <2>8, <2>9, <3>2
    <3> QED
      BY <3>1, <3>2
  <2> QED
    BY <2>3, <2>7, <2>8, <2>9
<1>12. /\ \A k \in Queues : \A i \in Unread(k) : slot'[k][i] = slot[k][i]
       /\ slot'[q][w] = e
       /\ slot' \in [Queues -> [0..Slots - 1 -> EntryIds \cup {Null}]]
  <2>1. slot \in [Queues -> [0..Slots - 1 -> EntryIds \cup {Null}]]
    BY <1>1 DEF ShapeInv
  <2>2. \A k \in Queues : k # q => slot'[k] = slot[k]
    BY <1>8, <2>1
  <2>3. slot'[q] = [slot[q] EXCEPT ![w] = e]
    BY <1>2, <1>8, <2>1
  <2>4. slot'[q][w] = e /\ \A i \in 0..Slots - 1 : i # w => slot'[q][i] = slot[q][i]
    BY <1>2, <1>7, <2>1, <2>3
  <2>5. Unread(q) \subseteq 0..Slots - 1
    BY <1>1, <1>2, Places
  <2>6. slot' \in [Queues -> [0..Slots - 1 -> EntryIds \cup {Null}]]
    BY <1>2, <1>7, <1>8, <2>1
  <2> QED
    BY <1>11, <2>2, <2>4, <2>5, <2>6
<1>13. count'[q] = d + 1 /\ \A k \in Queues : k # q => count'[k] = count[k]
  <2>1. count[q] = d
    BY <1>0, <1>1, <1>2, <1>3 DEF CountExact
  <2>2. (d + 1) % Word = d + 1
    <3>1. d + 1 < Word /\ Word \in Nat \ {0} /\ d + 1 \in Nat
      BY <1>7, <1>9 DEF Choked, SizesAssumption
    <3> QED
      BY <3>1
  <2> QED
    BY <1>1, <1>2, <1>8, <2>1, <2>2 DEF ShapeInv
<1>14. ShapeInv'
  <2>1. wr' \in [Queues -> 0..Slots - 1]
    BY <1>1, <1>2, <1>8, <1>10 DEF ShapeInv
  <2>2. count' \in [Queues -> 0..Word - 1]
    <3>1. d + 1 \in 0..Word - 1
      BY <1>7, <1>9 DEF Choked, SizesAssumption
    <3> QED
      BY <1>1, <1>2, <1>8, <1>13, <3>1 DEF ShapeInv
  <2> QED
    BY <1>1, <1>4, <1>6, <1>12, <2>1, <2>2 DEF ShapeInv
<1>15. CountExact'
  <2>1. e # Null
    BY <1>2 DEF EntryIds, Null, SizesAssumption
  <2>2. \A k \in Queues : count'[k] = Backlog(k)'
    BY <1>1, <1>3, <1>11, <1>13 DEF CountExact
  <2>3. ASSUME NEW k \in Queues, NEW i \in Unread(k)' PROVE slot'[k][i] # Null
    <3>1. CASE i \in Unread(k)
      BY <1>1, <1>3, <1>12, <3>1, ZenonT(40) DEF CountExact
    <3>2. CASE i \notin Unread(k)
      BY <1>11, <1>12, <2>1, <2>3, <3>2
    <3> QED
      BY <3>1, <3>2
  <2> QED
    BY <2>2, <2>3 DEF CountExact
<1>16. ChokeInv'
  <2>1. \A k \in Queues : k # q => Adding(k)' = Adding(k)
    BY <1>0, <1>2, <1>4 DEF Adding, Handling
  <2>2. Adding(q)' = Adding(q) \ {t} /\ t \in Adding(q)
    BY <1>0, <1>2, <1>4 DEF Adding, Handling
  <2>3. /\ IsFiniteSet(Adding(q)) /\ Cardinality(Adding(q)) \in Nat
        /\ Cardinality(Threads) \in Nat
    BY <1>2, AddersFit
  <2>4. Cardinality(Adding(q)') = Cardinality(Adding(q)) - 1
    BY <2>2, <2>3, FS_RemoveElement, ZenonT(40)
  <2>5. d + Cardinality(Adding(q)) <= Choke + Cardinality(Threads)
    BY <1>0, <1>1, <1>2, <1>3 DEF ChokeInv
  <2>6. (d + 1) + Cardinality(Adding(q)') <= Choke + Cardinality(Threads)
    BY <1>7, <2>3, <2>4, <2>5
  <2>7. ASSUME NEW k \in Queues
        PROVE  Backlog(k)' + Cardinality(Adding(k)') <= Choke + Cardinality(Threads)
    BY <1>1, <1>3, <1>11, <2>1, <2>6 DEF ChokeInv
  <2> QED
    BY <2>7 DEF ChokeInv
<1>17. ApartInv'
  <2>1. ASSUME NEW k \in Queues, NEW i \in Unread(k) PROVE slot[k][i] # e
    <3>1. Waits(k, i) /\ Publishing(t)
      BY <1>2, <1>3 DEF Waits, Publishing
    <3> QED
      BY <1>0, <1>1, <3>1 DEF ApartInv
  <2>2. ASSUME NEW k \in Queues, NEW l \in Queues, NEW i \in Unread(k)', NEW j \in Unread(l)',
               slot'[k][i] = slot'[l][j]
        PROVE  k = l /\ i = j
    <3>1. CASE i \in Unread(k) /\ j \in Unread(l)
      <4>1. Waits(k, i) /\ Waits(l, j) /\ slot[k][i] = slot[l][j]
        BY <1>3, <1>12, <2>2, <3>1 DEF Waits
      <4> QED
        BY <1>1, <3>1, <4>1 DEF ApartInv
    <3>2. CASE i \notin Unread(k) /\ j \in Unread(l)
      BY <1>11, <1>12, <2>1, <2>2, <3>2, SMTT(30)
    <3>3. CASE i \in Unread(k) /\ j \notin Unread(l)
      BY <1>11, <1>12, <2>1, <2>2, <3>3, SMTT(30)
    <3>4. CASE i \notin Unread(k) /\ j \notin Unread(l)
      BY <1>11, <3>4
    <3> QED
      BY <3>1, <3>2, <3>3, <3>4
  <2>3. ASSUME NEW k \in Queues, NEW i \in Unread(k)', NEW u \in Threads, Publishing(u)'
        PROVE  slot'[k][i] # th'[u].e
    <3>1. u # t /\ th'[u] = th[u] /\ Publishing(u)
      BY <1>4, <2>3 DEF Publishing
    <3>2. CASE i \in Unread(k)
      <4>1. Waits(k, i) /\ slot'[k][i] = slot[k][i]
        BY <1>3, <1>12, <3>2 DEF Waits
      <4> QED
        BY <1>1, <3>1, <3>2, <4>1 DEF ApartInv
    <3>3. CASE i \notin Unread(k)
      <4>1. th[u].e # e
        BY <1>0, <1>2, <3>1 DEF Roomy, Publishing
      <4> QED
        BY <1>11, <1>12, <2>3, <3>1, <3>3, <4>1
    <3> QED
      BY <3>2, <3>3
  <2> QED
    BY <2>2, <2>3 DEF ApartInv
<1>18. BytesInv'
  <2>1. ASSUME NEW k \in Queues, NEW i \in Unread(k)' PROVE \E m \in 1..Total : Carries(slot[k][i], m)'
    <3>1. CASE i \in Unread(k)
      <4>1. PICK m \in 1..Total : Carries(slot[k][i], m)
        BY <1>1, <1>3, <3>1 DEF BytesInv, Waits
      <4>2. Carries(slot[k][i], m)'
        BY <1>6, <1>12, <3>1, <4>1 DEF Carries
      <4> QED
        BY <4>2
    <3>2. CASE i \notin Unread(k)
      <4>1. k = q /\ i = w /\ slot'[k][i] = e
        BY <1>11, <1>12, <2>1, <3>2
      <4>2. Carries(e, msg)
        BY <1>0, <1>1, <1>2 DEF BytesInv, Publishing
      <4>3. Carries(slot[k][i], msg)'
        BY <1>6, <4>1, <4>2 DEF Carries
      <4> QED
        BY <1>2, <4>3
    <3> QED
      BY <3>1, <3>2
  <2>2. ASSUME NEW u \in Threads, Publishing(u)' PROVE Carries(th[u].e, th[u].msg)'
    <3>1. th'[u] = th[u] /\ Carries(th[u].e, th[u].msg)
      BY <1>1, <1>4, <2>2 DEF BytesInv, Publishing
    <3> QED
      BY <1>6, <3>1 DEF Carries
  <2> QED
    BY <2>1, <2>2 DEF BytesInv
<1>19. QueueInv'
  BY <1>5, <1>14, <1>15, <1>16, <1>17, <1>18 DEF QueueInv
<1>20. \A k \in Queues : k # q => Pending'[k] = Pending[k]
  <2> TAKE k \in Queues
  <2> HAVE k # q
  <2>1. \A i \in 1..Backlog(k) :
           Read(slot[k][(rd[k] + i - 1) % Slots])' = Read(slot[k][(rd[k] + i - 1) % Slots])
    BY <1>3, <1>6, <1>12, PendingIsWaiting DEF Read
  <2>2. Backlog(k)' = Backlog(k)
    BY <1>11
  <2> QED
    BY <1>3, <1>5, <2>1, <2>2 DEF Pending
<1>21. Pending'[q] = Append(Pending[q], Bytes(msg))
  <2> DEFINE S == {Bytes(m) : m \in 1..Total}
             p == Pending[q]
  <2>1. /\ p \in Seq(S) /\ Len(p) = d
        /\ \A i \in 1..d : /\ p[i] = Read(slot[q][(r + i - 1) % Slots])
                           /\ (r + i - 1) % Slots \in Unread(q)
    BY <1>0, <1>2, <1>3, PendingIsWaiting
  <2>2. Pending'[q] = [i \in 1..d + 1 |-> Read(slot[q][(rd[q] + i - 1) % Slots])']
    BY <1>2, <1>5, <1>11 DEF Pending
  <2>3. ASSUME NEW i \in 1..d PROVE Pending'[q][i] = p[i]
    <3>1. i \in 1..d + 1
      BY <1>7
    <3>2. slot'[q][(r + i - 1) % Slots] = slot[q][(r + i - 1) % Slots]
      BY <1>2, <1>12, <2>1
    <3>3. Read(slot[q][(rd[q] + i - 1) % Slots])' = Read(slot[q][(r + i - 1) % Slots])
      BY <1>0, <1>6, <3>2 DEF Read
    <3> QED
      BY <2>1, <2>2, <3>1, <3>3
  <2>4. Pending'[q][d + 1] = Bytes(msg)
    <3>1. d + 1 \in 1..d + 1 /\ r + (d + 1) - 1 = r + d
      BY <1>7
    <3>2. Carries(e, msg)
      BY <1>0, <1>1, <1>2 DEF BytesInv, Publishing
    <3>3. Read(e) = Bytes(msg)
      BY <1>2, <3>2, CarriedIsRead
    <3>4. slot'[q][(r + (d + 1) - 1) % Slots] = e
      BY <1>10, <1>12, <3>1
    <3>5. Read(slot[q][(rd[q] + (d + 1) - 1) % Slots])' = Read(e)
      BY <1>0, <1>6, <3>4 DEF Read
    <3> QED
      BY <2>2, <3>1, <3>3, <3>5
  <2>5. Bytes(msg) \in S
    BY <1>2
  <2>6. Pending'[q] \in Seq(S) /\ Len(Pending'[q]) = d + 1
    <3>1. \A i \in 1..d + 1 : Pending'[q][i] \in S
      <4> TAKE i \in 1..d + 1
      <4>1. CASE i = d + 1
        BY <2>4, <2>5, <4>1
      <4>2. CASE i # d + 1
        <5>1. i \in 1..d
          BY <1>7, <4>2
        <5> HIDE DEF S, p
        <5>2. p[i] \in S
          BY <2>1, <5>1
        <5> QED
          BY <2>3, <5>1, <5>2
      <4> QED
        BY <4>1, <4>2
    <3>2. d + 1 \in Nat
      BY <1>7
    <3> DEFINE f == Pending'[q]
    <3>3. f \in [1..d + 1 -> S]
      BY <2>2, <3>1
    <3> HIDE DEF S, f
    <3>4. f \in Seq(S) /\ Len(f) = d + 1
      BY <3>2, <3>3, SeqOfLength
    <3> QED
      BY <3>4 DEF f
  <2> DEFINE x == Bytes(msg)
             f == Pending'[q]
  <2>7. /\ p \in Seq(S) /\ f \in Seq(S) /\ x \in S /\ Len(f) = Len(p) + 1
        /\ \A i \in 1..Len(p) : f[i] = p[i]
        /\ f[Len(p) + 1] = x
    BY <2>1, <2>3, <2>4, <2>5, <2>6
  <2> HIDE DEF S, p, f, x
  <2>8. f = Append(p, x)
    BY <2>7, LongerByOne
  <2> QED
    BY <2>8 DEF f, p, x
<1>22. Gains(q, Bytes(msg))
  <2>1. Pending' = [Pending EXCEPT ![q] = Append(@, Bytes(msg))]
    BY <1>2, <1>20, <1>21 DEF Pending
  <2> QED
    BY <1>6, <2>1 DEF Gains
<1> QED
  BY <1>0, <1>19, <1>22

LEMMA TakeKeeps ==
    ASSUME SizesAssumption, Choked, QueueInv, NEW t \in Threads, NEW q \in Queues, Take(t, q)
    PROVE  QueueInv' /\ Yields(q)
<1>0. PICK e, r, w, d : e = slot[q][r] /\ r = rd[q] /\ w = wr[q] /\ d = Backlog(q)
  OBVIOUS
<1>1. ShapeInv /\ AloneInv /\ CountExact /\ ChokeInv /\ ApartInv /\ BytesInv
  BY DEF QueueInv
<1>2. th[t] = Idle /\ th[t].pc = "idle"
  BY <1>1, CallShapes DEF Take
<1>3. /\ \A u \in Threads : th[u].pc \notin {"reset rd", "reset wr"}
      /\ \A k \in Queues : ~Resetting(k)
  BY <1>1, <1>2, Undisturbed
<1>4. th' = th /\ sent' = sent /\ wr' = wr /\ entryIdx' = entryIdx /\ cell' = cell /\ writePtr' = writePtr
  BY DEF Take, CheckQueue
<1>5. AloneInv' /\ \A k \in Queues : ~Resetting(k)'
  <2>1. \A u \in Threads : th'[u].pc \notin {"reset rd", "reset wr"}
    BY <1>3, <1>4
  <2> QED
    BY <2>1, StaysUndisturbed
<1>6. /\ Slots \in Nat \ {0} /\ r \in 0..Slots - 1 /\ w \in 0..Slots - 1
      /\ d = (w - r) % Slots /\ r # w
  BY <1>0, <1>1, Places DEF Backlog, Take, CheckQueue
<1>7. /\ Step(r, Slots) \in 0..Slots - 1
      /\ d \in 1..Slots - 1
      /\ (w - Step(r, Slots)) % Slots = d - 1
      /\ (r + 0) % Slots = r
  BY <1>6, RingTake
<1>8. r \in Unread(q)
  <2>1. 0 \in 0..d - 1
    BY <1>7
  <2>2. Unread(q) = {(r + i) % Slots : i \in 0..d - 1}
    BY <1>0 DEF Unread
  <2> QED
    BY <1>7, <2>1, <2>2
<1>9. PICK msg \in 1..Total : e \in EntryIds /\ Carries(e, msg) /\ Read(e) = Bytes(msg)
  BY <1>0, <1>3, <1>8, PendingIsWaiting, ZenonT(40)
<1>10. e # Null /\ entry[e].length <= Room
  BY <1>9 DEF EntryIds, Null, SizesAssumption, Carries, Choked
<1>11. /\ slot' = [slot EXCEPT ![q][r] = Null]
       /\ rd' = [rd EXCEPT ![q] = Step(r, Slots)]
       /\ count' = [count EXCEPT ![q] = (count[q] - 1) % Word]
       /\ entry' = [entry EXCEPT ![e] = Entry(0, 0)]
       /\ taken' = [taken EXCEPT ![q] = Append(@, Read(e))]
  BY <1>0, <1>10 DEF Take, CheckQueue
<1>12. /\ \A k \in Queues : k # q => Backlog(k)' = Backlog(k) /\ Unread(k)' = Unread(k)
       /\ Backlog(q)' = d - 1
       /\ \A k \in Queues : \A i \in Unread(k)' : i \in Unread(k) /\ (k # q \/ i # r)
  <2>1. rd'[q] = Step(r, Slots) /\ \A k \in Queues : k # q => rd'[k] = rd[k]
    BY <1>1, <1>11 DEF ShapeInv
  <2>2. ASSUME NEW k \in Queues, k # q PROVE Backlog(k)' = Backlog(k) /\ Unread(k)' = Unread(k)
    <3>1. Backlog(k)' = Backlog(k)
      BY <1>4, <2>1, <2>2 DEF Backlog
    <3> QED
      BY <2>1, <2>2, <3>1 DEF Unread
  <2>3. Backlog(q)' = d - 1
    BY <1>0, <1>4, <1>7, <2>1 DEF Backlog
  <2>4. Unread(q) = {(r + i) % Slots : i \in 0..d - 1}
    BY <1>0 DEF Unread
  <2>5. Unread(q)' = {(Step(r, Slots) + i) % Slots : i \in 0..(d - 1) - 1}
    BY <2>1, <2>3 DEF Unread
  <2>6. ASSUME NEW i \in 0..(d - 1) - 1
        PROVE  (Step(r, Slots) + i) % Slots \in Unread(q) /\ (Step(r, Slots) + i) % Slots # r
    <3>1. i \in 0..Slots - 2 /\ i + 1 \in 1..d - 1 /\ i + 1 \in 0..d - 1
      BY <1>6, <1>7
    <3>2. (Step(r, Slots) + i) % Slots = (r + (i + 1)) % Slots
      BY <1>6, <3>1, RingNext
    <3>3. (r + (i + 1)) % Slots # r
      BY <1>6, <1>7, <3>1, RingBehind
    <3> QED
      BY <2>4, <3>1, <3>2, <3>3
  <2>7. \A i \in Unread(q)' : i \in Unread(q) /\ i # r
    BY <2>5, <2>6
  <2>8. ASSUME NEW k \in Queues, NEW i \in Unread(k)' PROVE i \in Unread(k) /\ (k # q \/ i # r)
    <3>1. CASE k = q
      BY <2>7, <2>8, <3>1 DEF Unread, Backlog
    <3>2. CASE k # q
      BY <2>2, <2>8, <3>2
    <3> QED
      BY <3>1, <3>2
  <2> QED
    BY <2>2, <2>3, <2>8
<1>13. /\ \A k \in Queues : \A i \in Unread(k)' : slot'[k][i] = slot[k][i] /\ slot[k][i] # e
       /\ slot' \in [Queues -> [0..Slots - 1 -> EntryIds \cup {Null}]]
  <2>1. slot \in [Queues -> [0..Slots - 1 -> EntryIds \cup {Null}]]
    BY <1>1 DEF ShapeInv
  <2>2. \A k \in Queues : k # q => slot'[k] = slot[k]
    BY <1>11, <2>1
  <2>3. slot'[q] = [slot[q] EXCEPT ![r] = Null]
    BY <1>11, <2>1
  <2>4. slot' \in [Queues -> [0..Slots - 1 -> EntryIds \cup {Null}]]
    BY <1>6, <1>11, <2>1
  <2>5. ASSUME NEW k \in Queues, NEW i \in Unread(k)' PROVE slot'[k][i] = slot[k][i] /\ slot[k][i] # e
    <3>1. i \in Unread(k) /\ (k # q \/ i # r)
      BY <1>12, <2>5
    <3>2. i \in 0..Slots - 1
      BY <1>1, <3>1, Places
    <3>3. slot'[k][i] = slot[k][i]
      BY <2>1, <2>2, <2>3, <3>1, <3>2
    <3>4. Waits(k, i) /\ Waits(q, r)
      BY <1>3, <1>8, <3>1 DEF Waits
    <3>5. slot[k][i] # e
      BY <1>0, <1>1, <1>8, <3>1, <3>4 DEF ApartInv
    <3> QED
      BY <3>3, <3>5
  <2> QED
    BY <2>4, <2>5
<1>14. count'[q] = d - 1 /\ \A k \in Queues : k # q => count'[k] = count[k]
  <2>1. count[q] = d
    BY <1>0, <1>1, <1>3 DEF CountExact
  <2>2. (d - 1) % Word = d - 1
    <3>1. d - 1 < Word /\ Word \in Nat \ {0} /\ d - 1 \in Nat
      BY <1>6, <1>7 DEF Choked, SizesAssumption
    <3> QED
      BY <3>1, SMTT(30)
  <2> QED
    BY <1>1, <1>11, <2>1, <2>2 DEF ShapeInv
<1>15. ShapeInv'
  <2>1. rd' \in [Queues -> 0..Slots - 1]
    BY <1>1, <1>7, <1>11 DEF ShapeInv
  <2>2. count' \in [Queues -> 0..Word - 1]
    <3>1. d - 1 \in 0..Word - 1
      BY <1>6, <1>7, SMTT(30) DEF Choked, SizesAssumption
    <3> QED
      BY <1>1, <1>11, <1>14, <3>1 DEF ShapeInv
  <2>3. entry' \in [EntryIds -> [at : 0..Size, length : Nat]]
    <3>1. Entry(0, 0) \in [at : 0..Size, length : Nat]
      BY DEF Entry, SizesAssumption
    <3> QED
      BY <1>1, <1>11, <3>1 DEF ShapeInv
  <2> QED
    BY <1>1, <1>4, <1>13, <2>1, <2>2, <2>3 DEF ShapeInv
<1>16. CountExact'
  <2>1. \A k \in Queues : count'[k] = Backlog(k)'
    BY <1>1, <1>3, <1>12, <1>14 DEF CountExact
  <2>2. \A k \in Queues : \A i \in Unread(k)' : slot'[k][i] # Null
    BY <1>1, <1>3, <1>12, <1>13 DEF CountExact
  <2> QED
    BY <2>1, <2>2 DEF CountExact
<1>17. ChokeInv'
  <2>1. \A k \in Queues : Adding(k)' = Adding(k)
    BY <1>4 DEF Adding, Handling
  <2>2. ASSUME NEW k \in Queues
        PROVE  Backlog(k)' + Cardinality(Adding(k)') <= Choke + Cardinality(Threads)
    <3>1. Backlog(k) + Cardinality(Adding(k)) <= Choke + Cardinality(Threads)
      BY <1>1, <1>3 DEF ChokeInv
    <3>2. /\ Cardinality(Adding(k)) \in Nat /\ Cardinality(Threads) \in Nat /\ Choke \in Nat
          /\ Backlog(k) \in Nat
      BY <1>1, AddersFit, Places DEF SizesAssumption
    <3>3. CASE k = q
      <4>1. (d - 1) + Cardinality(Adding(k)) <= Choke + Cardinality(Threads)
        BY <1>0, <3>1, <3>2, <3>3
      <4> QED
        BY <1>12, <2>1, <3>3, <4>1
    <3>4. CASE k # q
      BY <1>12, <2>1, <3>1, <3>4
    <3> QED
      BY <3>3, <3>4
  <2> QED
    BY <2>2 DEF ChokeInv
<1>18. ApartInv'
  <2>1. ASSUME NEW k \in Queues, NEW l \in Queues, NEW i \in Unread(k)', NEW j \in Unread(l)',
               slot'[k][i] = slot'[l][j]
        PROVE  k = l /\ i = j
    <3>1. i \in Unread(k) /\ j \in Unread(l) /\ slot[k][i] = slot[l][j]
      BY <1>12, <1>13, <2>1
    <3>2. Waits(k, i) /\ Waits(l, j)
      BY <1>3, <3>1 DEF Waits
    <3> QED
      BY <1>1, <3>1, <3>2 DEF ApartInv
  <2>2. ASSUME NEW k \in Queues, NEW i \in Unread(k)', NEW u \in Threads, Publishing(u)'
        PROVE  slot'[k][i] # th'[u].e
    <3>1. i \in Unread(k) /\ slot'[k][i] = slot[k][i]
      BY <1>12, <1>13, <2>2
    <3>2. Waits(k, i) /\ Publishing(u)
      BY <1>3, <1>4, <2>2, <3>1 DEF Waits, Publishing
    <3> QED
      BY <1>1, <1>4, <3>1, <3>2 DEF ApartInv
  <2> QED
    BY <2>1, <2>2 DEF ApartInv
<1>19. BytesInv'
  <2>1. \A f \in EntryIds : f # e => entry'[f] = entry[f]
    BY <1>1, <1>11 DEF ShapeInv
  <2>2. ASSUME NEW k \in Queues, NEW i \in Unread(k)' PROVE \E m \in 1..Total : Carries(slot[k][i], m)'
    <3>1. i \in Unread(k) /\ slot'[k][i] = slot[k][i] /\ slot[k][i] # e
      BY <1>12, <1>13, <2>2
    <3>2. PICK m \in 1..Total : Carries(slot[k][i], m) /\ slot[k][i] \in EntryIds
      BY <1>3, <3>1, PendingIsWaiting
    <3>3. Carries(slot[k][i], m)'
      BY <1>4, <2>1, <3>1, <3>2 DEF Carries
    <3> QED
      BY <3>3
  <2>3. ASSUME NEW u \in Threads, Publishing(u)' PROVE Carries(th[u].e, th[u].msg)'
    <3>1. Publishing(u) /\ Carries(th[u].e, th[u].msg) /\ th[u].e \in EntryIds
      BY <1>1, <1>4, <2>3, CallShapes DEF BytesInv, Publishing
    <3>2. th[u].e # e
      <4>1. Waits(q, r)
        BY <1>3, <1>8 DEF Waits
      <4> QED
        BY <1>0, <1>1, <1>8, <3>1, <4>1 DEF ApartInv
    <3> QED
      BY <1>4, <2>1, <3>1, <3>2 DEF Carries
  <2> QED
    BY <2>2, <2>3 DEF BytesInv
<1>20. QueueInv'
  BY <1>5, <1>15, <1>16, <1>17, <1>18, <1>19 DEF QueueInv
<1>21. \A k \in Queues : k # q => Pending'[k] = Pending[k]
  <2> TAKE k \in Queues
  <2> HAVE k # q
  <2>1. Backlog(k)' = Backlog(k) /\ rd'[k] = rd[k]
    BY <1>1, <1>11, <1>12 DEF ShapeInv
  <2>2. ASSUME NEW i \in 1..Backlog(k)
        PROVE  Read(slot[k][(rd[k] + i - 1) % Slots])' = Read(slot[k][(rd[k] + i - 1) % Slots])
    <3>1. PICK j : j = (rd[k] + i - 1) % Slots /\ j \in Unread(k)
      BY <1>3, PendingIsWaiting
    <3>2. j \in Unread(k)'
      BY <1>12, <3>1
    <3>3. slot'[k][j] = slot[k][j] /\ slot[k][j] # e /\ slot[k][j] \in EntryIds
      BY <1>3, <1>13, <3>1, <3>2, PendingIsWaiting
    <3>4. entry'[slot[k][j]] = entry[slot[k][j]]
      BY <1>1, <1>11, <3>3 DEF ShapeInv
    <3>5. Read(slot[k][j])' = Read(slot[k][j])
      BY <1>4, <3>3, <3>4 DEF Read
    <3> QED
      BY <2>1, <3>1, <3>5 DEF Read
  <2> QED
    BY <1>3, <1>5, <2>1, <2>2 DEF Pending
<1>22. Pending[q] # <<>> /\ Head(Pending[q]) = Read(e) /\ Pending'[q] = Tail(Pending[q])
  <2> DEFINE S == {Bytes(m) : m \in 1..Total}
             p == Pending[q]
             f == Pending'[q]
  <2>1. /\ p \in Seq(S) /\ Len(p) = d
        /\ \A i \in 1..d : /\ p[i] = Read(slot[q][(r + i - 1) % Slots])
                           /\ (r + i - 1) % Slots \in Unread(q)
    BY <1>0, <1>3, PendingIsWaiting
  <2>2. f = [i \in 1..d - 1 |-> Read(slot[q][(rd[q] + i - 1) % Slots])']
    BY <1>5, <1>12 DEF Pending
  <2>3. p[1] = Read(e)
    <3>1. 1 \in 1..d /\ r + 1 - 1 = r + 0
      BY <1>6, <1>7
    <3> QED
      BY <1>0, <1>7, <2>1, <3>1
  <2>4. ASSUME NEW i \in 1..d - 1 PROVE f[i] = p[i + 1]
    <3>1. /\ i + 1 \in 1..d /\ i - 1 \in 0..d - 2 /\ i - 1 \in 0..Slots - 2
          /\ Step(r, Slots) + i - 1 = Step(r, Slots) + (i - 1)
          /\ r + ((i - 1) + 1) = r + (i + 1) - 1
      <4>1. r \in Int /\ Step(r, Slots) \in Int /\ d \in 1..Slots - 1 /\ Slots \in Nat
        BY <1>6, <1>7
      <4> HIDE DEF p, f, S
      <4> QED
        BY <4>1
    <3>2. PICK j : j = (r + (i + 1) - 1) % Slots
      OBVIOUS
    <3>3. rd'[q] = Step(r, Slots) /\ (Step(r, Slots) + i - 1) % Slots = j
      <4>1. (Step(r, Slots) + (i - 1)) % Slots = (r + ((i - 1) + 1)) % Slots
        BY <1>6, <3>1, RingNext
      <4>2. rd'[q] = Step(r, Slots)
        BY <1>1, <1>11 DEF ShapeInv
      <4> QED
        BY <3>1, <3>2, <4>1, <4>2
    <3>4. j \in Unread(q)'
      <4>1. i - 1 \in 0..Backlog(q)' - 1
        BY <1>7, <1>12, <3>1
      <4> QED
        BY <3>1, <3>3, <4>1 DEF Unread
    <3>5. slot'[q][j] = slot[q][j] /\ slot[q][j] # e /\ slot[q][j] \in EntryIds
      BY <1>3, <1>12, <1>13, <3>4, PendingIsWaiting
    <3>6. entry'[slot[q][j]] = entry[slot[q][j]]
      BY <1>1, <1>11, <3>5 DEF ShapeInv
    <3>7. Read(slot[q][j])' = Read(slot[q][j])
      BY <1>4, <3>5, <3>6 DEF Read
    <3>8. Read(slot[q][(rd[q] + i - 1) % Slots])' = Read(slot[q][j])
      BY <3>3, <3>7 DEF Read
    <3> QED
      BY <2>1, <2>2, <3>1, <3>2, <3>8
  <2>5. f \in Seq(S) /\ Len(f) = d - 1
    <3> HIDE DEF p, S
    <3>1. \A i \in 1..d - 1 : p[i + 1] \in S
      <4> TAKE i \in 1..d - 1
      <4>1. i + 1 \in 1..d
        BY <1>7
      <4> QED
        BY <2>1, <4>1
    <3>2. f \in [1..d - 1 -> S] /\ d - 1 \in Nat
      <4>1. \A i \in 1..d - 1 : f[i] \in S
        BY <2>4, <3>1
      <4>2. d - 1 \in Nat
        BY <1>6, <1>7
      <4> QED
        BY <2>2, <4>1, <4>2
    <3> HIDE DEF f
    <3> QED
      BY <3>2, SeqOfLength
  <2> HIDE DEF S, p, f
  <2>6. p # <<>> /\ Head(p) = p[1] /\ Len(f) = Len(p) - 1 /\ \A i \in 1..Len(f) : f[i] = p[i + 1]
    <3>1. d \in Nat \ {0} /\ Len(p) = d /\ p \in Seq(S) /\ Len(f) = d - 1
      BY <1>6, <1>7, <2>1, <2>5
    <3>2. p # <<>> /\ Head(p) = p[1]
      BY <3>1
    <3> QED
      BY <2>4, <3>1, <3>2
  <2>7. f = Tail(p)
    BY <2>1, <2>5, <2>6, ShorterByOne
  <2> QED
    BY <2>3, <2>6, <2>7 DEF p, f
<1>23. Yields(q)
  <2>1. Pending' = [Pending EXCEPT ![q] = Tail(@)]
    BY <1>21, <1>22 DEF Pending
  <2>2. taken' = [taken EXCEPT ![q] = Append(@, Head(Pending[q]))]
    BY <1>11, <1>22
  <2> QED
    BY <1>22, <2>1, <2>2 DEF Yields
<1> QED
  BY <1>20, <1>23

\* A reset of queue q leaves the other queues alone.
LEMMA OthersStay ==
    ASSUME SizesAssumption, QueueInv, NEW q \in Queues,
           entry' = entry, cell' = cell,
           \A k \in Queues : k # q =>
               /\ ~Resetting(k) /\ ~Resetting(k)'
               /\ slot'[k] = slot[k] /\ rd'[k] = rd[k] /\ wr'[k] = wr[k] /\ count'[k] = count[k],
           \A u \in Threads : ~Handling(u) /\ ~Handling(u)',
           ~Resetting(q)' => Backlog(q)' = 0 /\ count'[q] = 0, Choked
    PROVE  /\ CountExact' /\ ChokeInv' /\ ApartInv' /\ BytesInv'
           /\ \A k \in Queues : k # q => Pending'[k] = Pending[k]
           /\ Pending'[q] = <<>>
<1>1. CountExact /\ ChokeInv /\ ApartInv /\ BytesInv
  BY DEF QueueInv
<1>2. ASSUME NEW k \in Queues, k # q
      PROVE  Backlog(k)' = Backlog(k) /\ Unread(k)' = Unread(k)
  <2>1. Backlog(k)' = Backlog(k)
    BY <1>2 DEF Backlog
  <2> QED
    BY <1>2, <2>1 DEF Unread
<1>3. ASSUME NEW k \in Queues, NEW i, Waits(k, i)'
      PROVE  k # q /\ i \in Unread(k) /\ Waits(k, i)
  <2>1. k # q
    <3>1. CASE Resetting(q)'
      BY <1>3, <3>1 DEF Waits, Resetting
    <3>2. CASE ~Resetting(q)'
      <4> SUFFICES ASSUME k = q PROVE FALSE
        OBVIOUS
      <4>1. i \in Unread(k)'
        BY <1>3 DEF Waits
      <4>2. Unread(q)' = {}
        <5>1. Backlog(q)' = 0
          BY <3>2
        <5>2. 0..0 - 1 = {}
          OBVIOUS
        <5> QED
          BY <5>1, <5>2 DEF Unread
      <4> QED
        BY <4>1, <4>2 DEF Unread, Backlog
    <3> QED
      BY <3>1, <3>2
  <2>2. i \in Unread(k)
    BY <1>2, <1>3, <2>1 DEF Waits
  <2> QED
    BY <2>1, <2>2 DEF Waits
<1>4. CountExact'
  <2> SUFFICES ASSUME NEW k \in Queues, ~Resetting(k)'
               PROVE  count'[k] = Backlog(k)' /\ \A i \in Unread(k)' : slot'[k][i] # Null
    BY DEF CountExact
  <2>1. CASE k = q
    <3>1. \A i \in Unread(k)' : FALSE
      BY <1>3, <2>1 DEF Waits
    <3> QED
      BY <2>1, <3>1 DEF Backlog, Resetting
  <2>2. CASE k # q
    BY <1>1, <1>2, <2>2 DEF CountExact
  <2> QED
    BY <2>1, <2>2
<1>5. ChokeInv'
  <2>1. \A k \in Queues : Adding(k) = {} /\ Adding(k)' = {}
    BY DEF Adding
  <2>2. \A k \in Queues : k # q => Backlog(k)' + Cardinality(Adding(k)') <= Choke + Cardinality(Threads)
    BY <1>1, <1>2, <2>1 DEF ChokeInv
  <2>3. 0 + Cardinality(Adding(q)') <= Choke + Cardinality(Threads)
    <3>1. Cardinality(Threads) \in Nat /\ Choke \in Nat
      BY FS_CardinalityType DEF Choked, SizesAssumption
    <3>2. Adding(q)' = {}
      BY <2>1
    <3>3. Cardinality({}) = 0
      BY FS_EmptySet
    <3>4. Cardinality(Adding(q)') = 0
      BY <3>2, <3>3
    <3> QED
      BY <3>1, <3>4
  <2>4. ASSUME NEW k \in Queues, ~Resetting(k)'
        PROVE  Backlog(k)' + Cardinality(Adding(k)') <= Choke + Cardinality(Threads)
    <3>1. CASE k = q
      <4>1. Backlog(q)' = 0
        BY <2>4, <3>1 DEF Resetting
      <4>2. Backlog(q)' + Cardinality(Adding(q)') <= Choke + Cardinality(Threads)
        BY <2>3, <4>1
      <4> QED
        BY <3>1, <4>2 DEF Backlog, Adding
    <3>2. CASE k # q
      BY <2>2, <3>2
    <3> QED
      BY <3>1, <3>2
  <2> QED
    BY <2>4 DEF ChokeInv
<1>6. ApartInv'
  <2>1. ASSUME NEW k \in Queues, NEW l \in Queues, NEW i \in Unread(k)', NEW j \in Unread(l)',
               Waits(k, i)', Waits(l, j)', slot'[k][i] = slot'[l][j]
        PROVE  k = l /\ i = j
    <3>1. /\ i \in Unread(k) /\ j \in Unread(l) /\ slot[k][i] = slot[l][j]
          /\ Waits(k, i) /\ Waits(l, j)
      BY <1>3, <2>1
    <3> QED
      BY <1>1, <3>1 DEF ApartInv
  <2>2. \A u \in Threads : ~Publishing(u)'
    BY DEF Handling, Publishing
  <2> QED
    BY <2>1, <2>2 DEF ApartInv
<1>7. BytesInv'
  <2>1. ASSUME NEW k \in Queues, NEW i \in Unread(k)', Waits(k, i)'
        PROVE  \E m \in 1..Total : Carries(slot[k][i], m)'
    <3>1. i \in Unread(k) /\ Waits(k, i) /\ slot'[k][i] = slot[k][i]
      BY <1>3, <2>1
    <3>2. PICK m \in 1..Total : Carries(slot[k][i], m)
      BY <1>1, <3>1 DEF BytesInv
    <3>3. Carries(slot[k][i], m)'
      BY <3>1, <3>2 DEF Carries
    <3> QED
      BY <3>3
  <2>2. \A u \in Threads : ~Publishing(u)'
    BY DEF Handling, Publishing
  <2> QED
    BY <2>1, <2>2 DEF BytesInv
<1>8. ASSUME NEW k \in Queues, k # q PROVE Pending'[k] = Pending[k]
  <2>1. \A i : Read(slot[k][(rd[k] + i - 1) % Slots])' = Read(slot[k][(rd[k] + i - 1) % Slots])
    BY <1>8 DEF Read
  <2> QED
    BY <1>2, <1>8, <2>1 DEF Pending
<1>9. Pending'[q] = <<>>
  <2>1. CASE Resetting(q)'
    BY <2>1 DEF Pending
  <2>2. CASE ~Resetting(q)'
    <3>1. Backlog(q)' = 0 /\ 1..0 = {}
      BY <2>2
    <3>2. Pending'[q] = [i \in 1..0 |-> Read(slot[q][(rd[q] + i - 1) % Slots])']
      BY <2>2, <3>1 DEF Pending
    <3> QED
      BY <3>2
  <2> QED
    BY <2>1, <2>2
<1> QED
  BY <1>4, <1>5, <1>6, <1>7, <1>8, <1>9

LEMMA ResetCountKeeps ==
    ASSUME SizesAssumption, Choked, QueueInv, NEW t \in Threads, NEW q \in Queues, ResetCount(t, q)
    PROVE  QueueInv' /\ FifoStep
<1>1. ShapeInv /\ AloneInv
  BY DEF QueueInv
<1>2. th[t] = Idle /\ th[t].pc = "idle" /\ \A u \in Threads : u = t
  BY <1>1, CallShapes DEF ResetCount, Choked
<1>3. \A k \in Queues : ~Resetting(k)
  BY <1>1, <1>2, Undisturbed
<1>4. th'[t] = [pc |-> "reset rd", q |-> q] /\ th' \in [Threads -> Calls]
  BY <1>1 DEF ResetCount, ShapeInv, Calls
<1>5. th'[t].pc = "reset rd" /\ th'[t].q = q
  <2>1. \A k \in Queues : [pc |-> "reset rd", q |-> k].pc = "reset rd" /\ [pc |-> "reset rd", q |-> k].q = k
    OBVIOUS
  <2> QED
    BY <1>4, <2>1
<1>6. \A k \in Queues : Resetting(k)' <=> k = q
  BY <1>2, <1>5 DEF Resetting
<1>7. /\ slot' = slot /\ rd' = rd /\ wr' = wr /\ entry' = entry /\ entryIdx' = entryIdx
      /\ cell' = cell /\ writePtr' = writePtr /\ sent' = sent /\ taken' = taken
  BY DEF ResetCount, bufferVars
<1>8. count'[q] = 0 /\ \A k \in Queues : k # q => count'[k] = count[k]
  BY <1>1 DEF ResetCount, ShapeInv
<1>9. ShapeInv'
  <2>1. count' \in [Queues -> 0..Word - 1]
    <3>1. 0 \in 0..Word - 1
      BY DEF SizesAssumption
    <3> QED
      BY <1>1, <3>1 DEF ResetCount, ShapeInv
  <2> QED
    BY <1>1, <1>4, <1>7, <2>1 DEF ShapeInv
<1>10. AloneInv'
  BY <1>2, <1>5, <1>8 DEF AloneInv
<1>11. \A u \in Threads : ~Handling(u) /\ ~Handling(u)'
  BY <1>2, <1>5 DEF Handling
<1>12. /\ CountExact' /\ ChokeInv' /\ ApartInv' /\ BytesInv'
       /\ \A k \in Queues : k # q => Pending'[k] = Pending[k]
       /\ Pending'[q] = <<>>
  BY <1>3, <1>6, <1>7, <1>8, <1>11, OthersStay
<1>13. Pending' = [Pending EXCEPT ![q] = <<>>]
  BY <1>12 DEF Pending
<1>14. Abstract!Next
  BY <1>7, <1>13 DEF Abstract!Next, Abstract!Reset
<1> QED
  BY <1>9, <1>10, <1>12, <1>14 DEF QueueInv, FifoStep

LEMMA ResetReadKeeps ==
    ASSUME SizesAssumption, Choked, QueueInv, NEW t \in Threads, ResetRead(t)
    PROVE  QueueInv' /\ FifoStep
<1>0. PICK q : q = th[t].q
  OBVIOUS
<1>1. ShapeInv /\ AloneInv
  BY DEF QueueInv
<1>2. th[t].pc = "reset rd" /\ q \in Queues /\ count[q] = 0 /\ \A u \in Threads : u = t
  BY <1>0, <1>1, CallShapes DEF ResetRead, AloneInv
<1>3. th'[t].pc = "reset wr" /\ th'[t].q = q /\ th' \in [Threads -> Calls]
  <2>1. th[t] \in [pc : {"reset rd", "reset wr"}, q : Queues]
    BY <1>1, <1>2, CallShapes
  <2>2. th' = [th EXCEPT ![t].pc = "reset wr"] /\ th \in [Threads -> Calls]
    BY <1>1 DEF ResetRead, ShapeInv
  <2>3. /\ th'[t] \in [pc : {"reset rd", "reset wr"}, q : Queues]
        /\ th'[t].pc = "reset wr" /\ th'[t].q = q
    BY <1>0, <2>1, <2>2
  <2> QED
    BY <2>2, <2>3 DEF Calls
<1>4. \A k \in Queues : (Resetting(k) <=> k = q) /\ (Resetting(k)' <=> k = q)
  BY <1>0, <1>2, <1>3 DEF Resetting
<1>5. /\ slot' = slot /\ wr' = wr /\ count' = count /\ entry' = entry /\ entryIdx' = entryIdx
      /\ cell' = cell /\ writePtr' = writePtr /\ sent' = sent /\ taken' = taken
  BY DEF ResetRead, bufferVars
<1>6. rd'[q] = 0 /\ \A k \in Queues : k # q => rd'[k] = rd[k]
  BY <1>0, <1>1, <1>2 DEF ResetRead, ShapeInv
<1>7. ShapeInv'
  <2>1. rd' \in [Queues -> 0..Slots - 1]
    <3>1. 0 \in 0..Slots - 1
      BY DEF SizesAssumption
    <3> QED
      BY <1>1, <3>1 DEF ResetRead, ShapeInv
  <2> QED
    BY <1>1, <1>3, <1>5, <2>1 DEF ShapeInv
<1>8. AloneInv'
  BY <1>2, <1>3, <1>5, <1>6 DEF AloneInv
<1>9. \A u \in Threads : ~Handling(u) /\ ~Handling(u)'
  BY <1>2, <1>3 DEF Handling
<1>10. /\ CountExact' /\ ChokeInv' /\ ApartInv' /\ BytesInv'
       /\ \A k \in Queues : k # q => Pending'[k] = Pending[k]
       /\ Pending'[q] = <<>>
  BY <1>2, <1>4, <1>5, <1>6, <1>9, OthersStay
<1>11. Pending' = Pending
  <2>1. Pending[q] = <<>>
    BY <1>2, <1>4 DEF Pending
  <2>2. \A k \in Queues : Pending'[k] = Pending[k]
    BY <1>10, <2>1
  <2> QED
    BY <2>2 DEF Pending
<1> QED
  BY <1>5, <1>7, <1>8, <1>10, <1>11 DEF QueueInv, FifoStep

LEMMA ResetWriteKeeps ==
    ASSUME SizesAssumption, Choked, QueueInv, NEW t \in Threads, ResetWrite(t)
    PROVE  QueueInv' /\ FifoStep
<1>0. PICK q : q = th[t].q
  OBVIOUS
<1>1. ShapeInv /\ AloneInv
  BY DEF QueueInv
<1>2. /\ th[t].pc = "reset wr" /\ q \in Queues /\ count[q] = 0 /\ rd[q] = 0
      /\ \A u \in Threads : u = t
  BY <1>0, <1>1, CallShapes DEF ResetWrite, AloneInv
<1>3. th'[t].pc = "idle" /\ th' \in [Threads -> Calls]
  BY <1>1 DEF ResetWrite, ShapeInv, Calls, Idle
<1>4. \A k \in Queues : (Resetting(k) <=> k = q) /\ ~Resetting(k)'
  BY <1>0, <1>2, <1>3 DEF Resetting
<1>5. /\ rd' = rd /\ count' = count /\ entry' = entry /\ entryIdx' = entryIdx
      /\ cell' = cell /\ writePtr' = writePtr /\ sent' = sent /\ taken' = taken
  BY DEF ResetWrite, bufferVars
<1>6. wr'[q] = 0 /\ \A k \in Queues : k # q => wr'[k] = wr[k] /\ slot'[k] = slot[k]
  BY <1>0, <1>1, <1>2 DEF ResetWrite, ShapeInv
<1>7. ShapeInv'
  <2>1. 0 \in 0..Slots - 1
    BY DEF SizesAssumption
  <2>2. wr' \in [Queues -> 0..Slots - 1]
    BY <1>1, <2>1 DEF ResetWrite, ShapeInv
  <2>3. slot' \in [Queues -> [0..Slots - 1 -> EntryIds \cup {Null}]]
    BY <1>0, <1>1, <1>2, <2>1 DEF ResetWrite, ShapeInv
  <2> QED
    BY <1>1, <1>3, <1>5, <2>2, <2>3 DEF ShapeInv
<1>8. AloneInv'
  BY <1>2, <1>3 DEF AloneInv
<1>9. \A u \in Threads : ~Handling(u) /\ ~Handling(u)'
  BY <1>2, <1>3 DEF Handling
<1>10. Backlog(q)' = 0
  <2>1. (0 - 0) % Slots = 0
    BY DEF SizesAssumption
  <2> QED
    BY <1>2, <1>5, <1>6, <2>1 DEF Backlog
<1>11. /\ CountExact' /\ ChokeInv' /\ ApartInv' /\ BytesInv'
       /\ \A k \in Queues : k # q => Pending'[k] = Pending[k]
       /\ Pending'[q] = <<>>
  BY <1>2, <1>4, <1>5, <1>6, <1>9, <1>10, OthersStay
<1>12. Pending' = Pending
  <2>1. Pending[q] = <<>>
    BY <1>2, <1>4 DEF Pending
  <2>2. \A k \in Queues : Pending'[k] = Pending[k]
    BY <1>11, <2>1
  <2> QED
    BY <2>2 DEF Pending
<1> QED
  BY <1>5, <1>7, <1>8, <1>11, <1>12 DEF QueueInv, FifoStep

-----------------------------------------------------------------------------
LEMMA QueueInit ==
    ASSUME SizesAssumption, Choked, Init
    PROVE  QueueInv /\ Abstract!Init
<1>1. /\ Slots \in Nat \ {0} /\ Entries \in Nat \ {0} /\ Size \in Nat \ {0} /\ Word \in Nat \ {0}
      /\ Choke \in Nat /\ Total \in Nat
  BY DEF SizesAssumption
<1>2. \A t \in Threads : th[t] = Idle /\ th[t].pc = "idle"
  BY DEF Init, Idle
<1>3. \A k \in Queues : ~Resetting(k) /\ rd[k] = 0 /\ wr[k] = 0 /\ count[k] = 0 /\ taken[k] = <<>>
  BY <1>2 DEF Resetting, Init
<1>4. \A k \in Queues : Backlog(k) = 0 /\ Unread(k) = {}
  <2>1. (0 - 0) % Slots = 0 /\ 0..0 - 1 = {}
    BY <1>1
  <2>2. \A k \in Queues : Backlog(k) = 0
    BY <1>3, <2>1 DEF Backlog
  <2> QED
    BY <2>1, <2>2 DEF Unread
<1>5. ShapeInv
  <2>1. 0 \in EntryIds /\ Null \in EntryIds \cup {Null} /\ 0 \in 0..Slots - 1 /\ 0 \in 0..Word - 1
        /\ 0 \in 0..Size /\ 0 \in 0..Total /\ Entry(0, 0) \in [at : 0..Size, length : Nat]
    BY <1>1 DEF EntryIds, Entry
  <2> QED
    BY <2>1 DEF Init, ShapeInv, Calls
<1>6. AloneInv /\ CountExact /\ ApartInv /\ BytesInv
  BY <1>2, <1>3, <1>4 DEF AloneInv, CountExact, ApartInv, BytesInv, Publishing
<1>7. ChokeInv
  <2>1. \A k \in Queues : Adding(k) = {}
    BY <1>2 DEF Adding, Handling
  <2>2. Cardinality({}) = 0 /\ Cardinality(Threads) \in Nat
    BY FS_EmptySet, FS_CardinalityType DEF Choked
  <2>3. \A k \in Queues : Cardinality(Adding(k)) = 0
    BY <2>1, <2>2
  <2>4. 0 + 0 <= Choke + Cardinality(Threads)
    BY <1>1, <2>2
  <2> QED
    BY <1>4, <2>3, <2>4 DEF ChokeInv
<1>8. Abstract!Init
  <2>1. 1..0 = {}
    OBVIOUS
  <2>2. \A k \in Queues : Pending[k] = <<>>
    BY <1>3, <1>4, <2>1 DEF Pending
  <2>3. Pending = [k \in Queues |-> <<>>]
    BY <2>2 DEF Pending
  <2>4. taken = [k \in Queues |-> <<>>]
    BY DEF Init
  <2> QED
    BY <2>3, <2>4 DEF Abstract!Init
<1> QED
  BY <1>5, <1>6, <1>7, <1>8 DEF QueueInv

\* What stands still keeps everything.
Stands == UNCHANGED vars

LEMMA StutterKeeps ==
    ASSUME QueueInv, Stands
    PROVE  QueueInv' /\ UNCHANGED <<Pending, taken>>
<1>1. /\ slot' = slot /\ rd' = rd /\ wr' = wr /\ count' = count /\ entry' = entry
      /\ entryIdx' = entryIdx /\ cell' = cell /\ writePtr' = writePtr /\ th' = th
      /\ sent' = sent /\ taken' = taken
  BY DEF Stands, vars, queueVars, bufferVars
<1>2. ShapeInv'
  BY <1>1 DEF QueueInv, ShapeInv
<1>3. AloneInv'
  BY <1>1 DEF QueueInv, AloneInv
<1>4. CountExact'
  BY <1>1, ZenonT(40) DEF QueueInv, CountExact, Resetting, Backlog, Unread
<1>5. ChokeInv'
  BY <1>1 DEF QueueInv, ChokeInv, Resetting, Backlog, Adding, Handling
<1>9. \A k \in Queues : Unread(k)' = Unread(k) /\ \A i : Waits(k, i)' <=> Waits(k, i)
  BY <1>1 DEF Waits, Resetting, Backlog, Unread
<1>6. ApartInv'
  BY <1>1, <1>9 DEF QueueInv, ApartInv, Publishing
<1>7. BytesInv'
  <2>1. ASSUME NEW k \in Queues, NEW i \in Unread(k)', Waits(k, i)'
        PROVE  \E m \in 1..Total : Carries(slot[k][i], m)'
    <3>1. PICK m \in 1..Total : Carries(slot[k][i], m)
      BY <1>9, <2>1 DEF QueueInv, BytesInv
    <3>2. Carries(slot[k][i], m)'
      BY <1>1, <3>1 DEF Carries
    <3> QED
      BY <3>2
  <2>2. ASSUME NEW u \in Threads, Publishing(u)' PROVE Carries(th[u].e, th[u].msg)'
    BY <1>1, <2>2 DEF QueueInv, BytesInv, Publishing, Carries
  <2> QED
    BY <2>1, <2>2 DEF BytesInv
<1>8. Pending' = Pending
  BY <1>1 DEF Pending, Resetting, Backlog, Read
<1> QED
  BY <1>1, <1>2, <1>3, <1>4, <1>5, <1>6, <1>7, <1>8 DEF QueueInv

LEMMA QueueStep ==
    ASSUME SizesAssumption, Choked, Roomy, Roomy', QueueInv, [Next]_vars
    PROVE  QueueInv' /\ [Abstract!Next]_(Abstract!fifoVars)
<1>1. QueueInv' /\ FifoStep
  <2>1. CASE Next
    <3>1. PICK t \in Threads : Use(t) \/ ResetQueue(t)
      BY <2>1 DEF Next
    <3>2. CASE \E q \in Queues : Admit(t, q)
      BY <3>2, AdmitKeeps DEF FifoStep
    <3>3. CASE \E q \in Queues : Take(t, q)
      <4>1. PICK q \in Queues : Take(t, q)
        BY <3>3
      <4>2. QueueInv' /\ Yields(q)
        BY <4>1, TakeKeeps
      <4>3. Abstract!Take(q)
        BY <4>2 DEF Yields, Abstract!Take
      <4> QED
        BY <4>2, <4>3 DEF FifoStep, Abstract!Next
    <3>4. CASE GetNextEntry(t)
      BY <3>4, GetNextEntryKeeps DEF FifoStep
    <3>5. CASE Write(t)
      BY <3>5, WriteKeeps DEF FifoStep
    <3>6. CASE Publish(t)
      <4>1. QueueInv' /\ Gains(th[t].q, Bytes(th[t].msg))
        BY <3>6, PublishKeeps
      <4>2. th[t].q \in Queues /\ th[t].msg \in 1..Total
        BY <3>6, CallShapes DEF Publish, Handling, QueueInv
      <4>3. Abstract!Add(th[t].q, Bytes(th[t].msg))
        BY <4>1 DEF Gains, Abstract!Add
      <4>4. Bytes(th[t].msg) \in {Bytes(m) : m \in 1..Total}
        BY <4>2
      <4> QED
        BY <4>1, <4>2, <4>3, <4>4, ZenonT(30) DEF FifoStep, Abstract!Next
    <3>7. CASE \E q \in Queues : ResetCount(t, q)
      BY <3>7, ResetCountKeeps
    <3>8. CASE ResetRead(t)
      BY <3>8, ResetReadKeeps
    <3>9. CASE ResetWrite(t)
      BY <3>9, ResetWriteKeeps
    <3> QED
      BY <3>1, <3>2, <3>3, <3>4, <3>5, <3>6, <3>7, <3>8, <3>9 DEF Use, ResetQueue
  <2>2. CASE UNCHANGED vars
    BY <2>2, StutterKeeps DEF FifoStep, Stands
  <2> QED
    BY <2>1, <2>2
<1> QED
  BY <1>1 DEF FifoStep, Abstract!fifoVars

\* The queues implement Fifo, as long as the rings have room: every step of the
\* threads is an addition, a hand-over or a reset of the abstract queue, or
\* nothing to it (MessageQueue::Add, CheckQueue and ResetQueue, CircularBuffer).
THEOREM QueuesAreFifo ==
    ASSUME SizesAssumption, Choked
    PROVE  Spec /\ []Roomy => Abstract!Init /\ [][Abstract!Next]_(Abstract!fifoVars)
<1>1. Init => QueueInv /\ Abstract!Init
  BY QueueInit
<1>2. QueueInv /\ Roomy /\ Roomy' /\ [Next]_vars => QueueInv' /\ [Abstract!Next]_(Abstract!fifoVars)
  BY QueueStep
<1> QED
  BY <1>1, <1>2, PTL DEF Spec

\* Under the same conditions Count() is the number of messages that wait, although
\* it is kept apart from the indices the readers go by (m_EntriesInQueue).
THEOREM CountIsExact ==
    ASSUME SizesAssumption, Choked
    PROVE  Spec /\ []Roomy => []CountExact
<1>1. Init => QueueInv
  BY QueueInit
<1>2. QueueInv /\ Roomy /\ Roomy' /\ [Next]_vars => QueueInv'
  BY QueueStep
<1>3. QueueInv => CountExact
  BY DEF QueueInv
<1> QED
  BY <1>1, <1>2, <1>3, PTL DEF Spec

=============================================================================
