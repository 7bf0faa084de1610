-------------------------- MODULE MCRecords_proofs ---------------------------
(***************************************************************************)
(* The records of an avatar and the status events, for any avatars,        *)
(* players and bounds: first the outbox on its own, then the records of an *)
(* avatar.                                                                 *)
(***************************************************************************)
EXTENDS MCRecords, FiniteSetTheorems, TLAPS

-----------------------------------------------------------------------------
(* What the outbox keeps. *)

Wreck(p) == [kind |-> "player_destroyed", player |-> p]
Revival(p) == [kind |-> "jumpstarted", player |-> p]

\* The batch is what is left of the unsent rows, in order.
BatchInv ==
    /\ notifier \notin {"deliver", "mark"} => batch = <<>>
    /\ notifier = "mark" => batch # <<>>
    /\ \A i \in 1..Len(batch) : batch[i] \notin sent
    /\ \A i, j \in 1..Len(batch) : i # j => batch[i] # batch[j]
    /\ \A i \in 1..Len(batch) : \A j \in 1..(batch[i] - 1) :
           j \in sent \/ \E h \in 1..(i - 1) : batch[h] = j

\* The rows are marked in order.
PrefixInv == \A i \in sent : \A j \in 1..(i - 1) : j \in sent

\* A record that is fresh has a line.
FreshInv == \A p \in Players : tracker[p].fresh => tracker[p].line # 0

\* A kind that nobody may switch off is on.
SwitchInv == Outbox!Kinds \ Switchable \subseteq on \cap enabled

\* A row is marked when its line is out.
MarkInv == notifier = "mark" => rows[batch[1]].kind = "jumpstarted" \/ Outbox!Posted(batch[1])

\* The next row may be out already, after a fault: it will be repeated.
Posts == {lines[l].row : l \in Outbox!Lines}
Owed == IF notifier # "mark" /\ \E i \in Posts : i \notin sent THEN 1 ELSE 0
RepeatInv == Len(lines) + Owed <= Cardinality(Posts) + faults

\* The i-th event the server emitted: inserted, or still in the save queue.
Emitted == 1..(Len(rows) + Len(events))
Ev(i) == IF i <= Len(rows) THEN rows[i] ELSE events[i - Len(rows)]

\* Between two jumpstarts of a player there is a wreck, and a ship that is down
\* was wrecked after its last one.
ServerInv ==
    /\ \A p \in Players : \A i, j \in Emitted :
           j < i /\ Ev(j) = Revival(p) /\ Ev(i) = Revival(p) =>
               \E v \in Emitted : j < v /\ v < i /\ Ev(v) = Wreck(p)
    /\ \A p \in down : \A j \in Emitted :
           Ev(j) = Revival(p) => \E v \in Emitted : j < v /\ Ev(v) = Wreck(p)

\* A row is dealt with: marked, or about to be.
Done(i) == i \in sent \/ (notifier = "mark" /\ i = batch[1])

\* The wreck on file is a line nobody struck, of the player's latest wreck so far.
OnFile(p, l) ==
    /\ rows[lines[l].row] = Wreck(p)
    /\ lines[l].struck = 0
    /\ \A v \in Outbox!Ids : v > lines[l].row /\ rows[v] = Wreck(p) => ~Done(v)
TrackInv == \A p \in Players : tracker[p].line # 0 => OnFile(p, tracker[p].line)

\* A line that is struck through is of the wreck the jumpstart revives from.
Fits(l) == rows[lines[l].struck].kind = "jumpstarted" /\ Outbox!IsWreckOf(lines[l].row, lines[l].struck)
StruckInv == \A l \in Outbox!Lines : lines[l].struck # 0 => Fits(l)

\* The latest wreck of a player that is out has a line that is on file, was struck
\* or was forgotten.
Latest(p, w) == /\ rows[w] = Wreck(p) /\ Done(w)
                /\ \A v \in Outbox!Ids : v > w /\ rows[v] = Wreck(p) => ~Outbox!Posted(v)
Kept(p, w, l) == /\ lines[l].row = w
                 /\ \/ l \in forgotten \/ lines[l].struck # 0
                    \/ tracker[p].line = l /\ tracker[p].fresh
FileInv == \A p \in Players : \A w \in Outbox!Ids : Latest(p, w) => \E l \in Outbox!Lines : Kept(p, w, l)

\* Annotated, from the moment the jumpstart is dealt with.
Revived(w, i, l) == lines[l].row = w /\ (lines[l].struck = i \/ l \in forgotten)
AnnotatedInv ==
    \A i, w \in Outbox!Ids :
        Done(i) /\ rows[i].kind = "jumpstarted" /\ Outbox!IsWreckOf(w, i) /\ Outbox!Posted(w) =>
            \E l \in Outbox!Lines : Revived(w, i, l)

ChannelInv == /\ Outbox!TypeOK /\ BatchInv /\ PrefixInv /\ FreshInv /\ SwitchInv /\ Outbox!InOrder /\ Outbox!NothingDropped
              /\ MarkInv /\ RepeatInv
WreckInv == ServerInv /\ TrackInv /\ StruckInv /\ FileInv /\ AnnotatedInv

-----------------------------------------------------------------------------
(* Types, and what each operation changes. *)

LineType == [row : Outbox!Ids, struck : {0} \cup Outbox!Ids]

\* A sequence is a function on its positions, and the other way round.
LEMMA SeqFunction ==
    ASSUME NEW S
    PROVE  /\ \A s \in Seq(S) : Len(s) \in Nat /\ s \in [1..Len(s) -> S]
           /\ \A n \in Nat : \A s \in [1..n -> S] : s \in Seq(S) /\ Len(s) = n
OBVIOUS

\* The records the notifier works with.
LEMMA Typing ==
    ASSUME Outbox!TypeOK
    PROVE  /\ Len(rows) \in Nat /\ Len(lines) \in Nat /\ Len(batch) \in Nat /\ Len(events) \in Nat
           /\ \A i \in Outbox!Ids : rows[i] \in Outbox!Events
           /\ \A l \in Outbox!Lines : lines[l].row \in Outbox!Ids /\ lines[l].struck \in {0} \cup Outbox!Ids
           /\ \A i \in 1..Len(batch) : batch[i] \in Outbox!Ids
           /\ \A i \in 1..Len(events) : events[i] \in Outbox!Events
           /\ \A p \in Players : tracker[p].line \in {0} \cup Outbox!Lines /\ tracker[p].fresh \in BOOLEAN
<1>1. /\ Len(rows) \in Nat /\ Len(lines) \in Nat /\ Len(batch) \in Nat /\ Len(events) \in Nat
      /\ \A i \in Outbox!Ids : rows[i] \in Outbox!Events
      /\ \A i \in 1..Len(events) : events[i] \in Outbox!Events
  BY DEF Outbox!TypeOK, Outbox!Ids
<1>2. \A i \in 1..Len(batch) : batch[i] \in Outbox!Ids
  BY DEF Outbox!TypeOK
<1>3. \A l \in Outbox!Lines : lines[l] \in LineType
  <2>1. lines \in Seq(LineType)
    BY DEF Outbox!TypeOK, LineType
  <2> QED
    BY <2>1, SeqFunction DEF Outbox!Lines
<1>4. \A p \in Players : tracker[p] \in [line : {0} \cup Outbox!Lines, fresh : BOOLEAN]
  BY DEF Outbox!TypeOK
<1> QED
  BY <1>1, <1>2, <1>3, <1>4 DEF LineType

\* The rows are finitely many.
LEMMA IdsFinite ==
    ASSUME Outbox!TypeOK
    PROVE  IsFiniteSet(Outbox!Ids)
<1>1. Len(rows) \in Nat
  BY Typing
<1>2. IsFiniteSet(1..Len(rows))
  BY <1>1, FS_Interval
<1> QED
  BY <1>2 DEF Outbox!Ids

\* The head of a batch is its first row, and the rest are the others in order.
LEMMA HeadTail ==
    ASSUME Outbox!TypeOK, batch # <<>>
    PROVE  /\ Len(batch) >= 1 /\ Head(batch) = batch[1] /\ batch[1] \in Outbox!Ids
           /\ Tail(batch) \in Seq(Outbox!Ids) /\ Len(Tail(batch)) = Len(batch) - 1
           /\ \A i \in 1..(Len(batch) - 1) : Tail(batch)[i] = batch[i + 1]
BY DEF Outbox!TypeOK

\* The notifier's step leaves the server's side alone, and the other way round.
LEMMA LinesGrow ==
    ASSUME Outbox!TypeOK, NEW x \in LineType, lines' = Append(lines, x), rows' = rows
    PROVE  /\ lines' \in Seq(LineType')
           /\ Len(lines') = Len(lines) + 1 /\ Outbox!Lines' = Outbox!Lines \cup {Len(lines')}
           /\ lines'[Len(lines')] = x
           /\ \A l \in Outbox!Lines : lines'[l] = lines[l] /\ l # Len(lines')
<1>1. lines \in Seq(LineType) /\ LineType' = LineType /\ Len(lines) \in Nat
  BY DEF Outbox!TypeOK, Outbox!Ids, LineType
<1>2. lines' \in Seq(LineType') /\ Len(lines') = Len(lines) + 1
  BY <1>1
<1>3. Outbox!Lines' = Outbox!Lines \cup {Len(lines')}
  BY <1>1, <1>2 DEF Outbox!Lines
<1>4. lines'[Len(lines')] = x /\ \A l \in Outbox!Lines : lines'[l] = lines[l] /\ l # Len(lines')
  BY <1>1, <1>2 DEF Outbox!Lines
<1> QED
  BY <1>1, <1>2, <1>3, <1>4

\* A strike changes the mark of one line.
LEMMA LinesStruck ==
    ASSUME Outbox!TypeOK, NEW k \in Outbox!Lines, NEW i \in Outbox!Ids, lines' = [lines EXCEPT ![k].struck = i], rows' = rows
    PROVE  /\ lines' \in Seq(LineType')
           /\ Len(lines') = Len(lines) /\ Outbox!Lines' = Outbox!Lines
           /\ \A l \in Outbox!Lines : /\ lines'[l].row = lines[l].row
                                      /\ lines'[l].struck = IF l = k THEN i ELSE lines[l].struck
<1>1. lines \in Seq(LineType) /\ LineType' = LineType /\ Len(lines) \in Nat
  BY DEF Outbox!TypeOK, Outbox!Ids, LineType
<1> DEFINE r == [lines[k] EXCEPT !.struck = i]
<1>2. lines \in [Outbox!Lines -> LineType]
  BY <1>1, SeqFunction DEF Outbox!Lines
<1>3. r \in LineType /\ r.row = lines[k].row /\ r.struck = i
  BY <1>2 DEF LineType
<1>4. lines' = [lines EXCEPT ![k] = r]
  OBVIOUS
<1> HIDE DEF r
<1>5. lines' \in [Outbox!Lines -> LineType] /\ \A l \in Outbox!Lines : lines'[l] = IF l = k THEN r ELSE lines[l]
  BY <1>2, <1>3, <1>4
<1>6. lines' \in Seq(LineType) /\ Len(lines') = Len(lines)
  BY <1>1, <1>5, SeqFunction DEF Outbox!Lines
<1> QED
  BY <1>1, <1>3, <1>5, <1>6 DEF Outbox!Lines

\* Nobody but the save thread touches the rows, nobody but the notifier what it
\* has sent and posted.
LEMMA TypeServer ==
    ASSUME Outbox!BoundsAssumption, Outbox!TypeOK, NEW p \in Players, Outbox!Server(p)
    PROVE  Outbox!TypeOK'
<1>1. /\ UNCHANGED <<rows, sent, on, lines, deleted, notifier, batch, enabled, tracker, forgotten, faults>>
      /\ down' \subseteq Players
  BY DEF Outbox!Server, Outbox!Destroyed, Outbox!JumpStart, Outbox!Towed, Outbox!Login,
     Outbox!table, Outbox!discord, Outbox!TypeOK
<1>2. events' \in Seq(Outbox!Events) /\ emitted' \in 0..MaxEvents
  <2>1. ASSUME NEW k \in Outbox!Kinds, Outbox!EmitExternalStatusEvent(k, p)
        PROVE  events' \in Seq(Outbox!Events) /\ emitted' \in 0..MaxEvents
    <3>1. [kind |-> k, player |-> p] \in Outbox!Events
      BY DEF Outbox!Events
    <3> QED
      BY <2>1, <3>1 DEF Outbox!EmitExternalStatusEvent, Outbox!TypeOK, Outbox!BoundsAssumption
  <2> QED
    BY <2>1 DEF Outbox!Server, Outbox!Destroyed, Outbox!JumpStart, Outbox!Towed,
       Outbox!Login, Outbox!Kinds, Outbox!TypeOK
<1> QED
  BY <1>1, <1>2 DEF Outbox!TypeOK, Outbox!Ids, Outbox!Lines

\* An inserted row gets the next number.
LEMMA RowsGrow ==
    ASSUME Outbox!TypeOK, Outbox!HandleExternalStatusEvent
    PROVE  /\ rows' \in Seq(Outbox!Events) /\ Len(rows') = Len(rows) + 1 /\ Outbox!Ids \subseteq Outbox!Ids'
           /\ events' \in Seq(Outbox!Events) /\ Len(events') = Len(events) - 1 /\ Len(events) >= 1
           /\ \A i \in Outbox!Ids : rows'[i] = rows[i]
           /\ rows'[Len(rows) + 1] = events[1]
           /\ \A i \in 1..(Len(events) - 1) : events'[i] = events[i + 1]
           /\ Outbox!Ids' = Outbox!Ids \cup {Len(rows) + 1}
<1>1. events \in Seq(Outbox!Events) /\ rows \in Seq(Outbox!Events) /\ events # <<>>
  BY DEF Outbox!TypeOK, Outbox!HandleExternalStatusEvent
<1>2. events' = Tail(events) /\ rows' = Append(rows, Head(events))
  BY DEF Outbox!HandleExternalStatusEvent
<1>3. Head(events) \in Outbox!Events /\ Head(events) = events[1] /\ Len(events) >= 1 /\ Len(rows) \in Nat
  BY <1>1
<1>4. /\ events' \in Seq(Outbox!Events) /\ Len(events') = Len(events) - 1
      /\ \A i \in 1..(Len(events) - 1) : events'[i] = events[i + 1]
  BY <1>1, <1>2
<1>5. rows' \in Seq(Outbox!Events) /\ Len(rows') = Len(rows) + 1 /\ rows'[Len(rows) + 1] = events[1]
  BY <1>1, <1>2, <1>3
<1>6. \A i \in Outbox!Ids : rows'[i] = rows[i]
  BY <1>1, <1>2, <1>3 DEF Outbox!Ids
<1>7. Outbox!Ids' = Outbox!Ids \cup {Len(rows) + 1}
  BY <1>3, <1>5 DEF Outbox!Ids
<1> QED
  BY <1>3, <1>4, <1>5, <1>6, <1>7

\* A larger table keeps lines and batch typed.
LEMMA TypeInsert ==
    ASSUME Outbox!TypeOK, Outbox!HandleExternalStatusEvent
    PROVE  Outbox!TypeOK'
<1>1. Outbox!Ids \subseteq Outbox!Ids' /\ rows' \in Seq(Outbox!Events) /\ events' \in Seq(Outbox!Events)
  BY RowsGrow
<1>2. UNCHANGED <<down, emitted, sent, on, lines, deleted, notifier, batch, enabled, tracker, forgotten, faults>>
  BY DEF Outbox!HandleExternalStatusEvent, Outbox!discord
<1>3. LineType \subseteq LineType'
  BY <1>1 DEF LineType
<1>4. lines' \in Seq(LineType')
  <2>1. lines \in Seq(LineType)
    BY DEF Outbox!TypeOK, LineType
  <2>2. lines \in [1..Len(lines) -> LineType'] /\ Len(lines) \in Nat
    BY <1>3, <2>1, SeqFunction
  <2> QED
    BY <1>2, <2>2, SeqFunction
<1>5. batch' \in Seq(Outbox!Ids')
  <2>1. batch \in [1..Len(batch) -> Outbox!Ids'] /\ Len(batch) \in Nat
    BY <1>1, SeqFunction DEF Outbox!TypeOK
  <2> QED
    BY <1>2, <2>1, SeqFunction
<1> QED
  BY <1>1, <1>2, <1>4, <1>5 DEF Outbox!TypeOK, LineType, Outbox!Lines

\* The steps of the notifier keep the types.
LEMMA TypeNotifier ==
    ASSUME Outbox!BoundsAssumption, Outbox!TypeOK, Outbox!Notifier, notifier = "mark" => batch # <<>>
    PROVE  Outbox!TypeOK'
<1>0. UNCHANGED <<down, events, emitted, rows, on, deleted>> /\ Outbox!Ids' = Outbox!Ids /\ LineType' = LineType
  BY DEF Outbox!Notifier, Outbox!Connect, Outbox!Wake, Outbox!SelectUnsent,
     Outbox!DeliveryFails, Outbox!Suppress, Outbox!Post, Outbox!PostMisreported,
     Outbox!Edit, Outbox!Consume, Outbox!Mark, Outbox!Drained, Outbox!DatabaseError,
     Outbox!Die, Outbox!Restart, Outbox!server, Outbox!table, Outbox!discord, Outbox!Ids,
     LineType
<1>1. /\ sent \subseteq Outbox!Ids /\ enabled \subseteq Outbox!Kinds /\ lines \in Seq(LineType)
      /\ deleted \subseteq Outbox!Lines /\ forgotten \subseteq Outbox!Lines /\ batch \in Seq(Outbox!Ids)
      /\ tracker \in [Players -> [line : {0} \cup Outbox!Lines, fresh : BOOLEAN]]
      /\ faults \in 0..MaxFaults /\ MaxFaults \in Nat /\ on \subseteq Outbox!Kinds
  BY DEF Outbox!TypeOK, LineType, Outbox!BoundsAssumption
<1>2. ASSUME /\ sent' \subseteq Outbox!Ids /\ enabled' \subseteq Outbox!Kinds /\ lines' \in Seq(LineType)
             /\ deleted' \subseteq Outbox!Lines' /\ forgotten' \subseteq Outbox!Lines' /\ batch' \in Seq(Outbox!Ids)
             /\ tracker' \in [Players -> [line : {0} \cup Outbox!Lines', fresh : BOOLEAN]]
             /\ faults' \in 0..MaxFaults
             /\ notifier' \in {"off", "connect", "select", "deliver", "mark", "wait"}
      PROVE  Outbox!TypeOK'
  BY <1>0, <1>2 DEF Outbox!TypeOK, LineType
<1>3. <<>> \in Seq(Outbox!Ids) /\ Outbox!Kinds \subseteq Outbox!Kinds
  OBVIOUS
<1>4. CASE Outbox!Connect \/ Outbox!Wake \/ Outbox!Restart \/ Outbox!DeliveryFails \/ Outbox!Drained
  BY <1>0, <1>1, <1>2, <1>3, <1>4 DEF Outbox!Connect, Outbox!Wake, Outbox!Restart,
     Outbox!DeliveryFails, Outbox!Drained, Outbox!At, Outbox!LeaveDrain, Outbox!table,
     Outbox!discord, Outbox!Lines
<1>5. CASE Outbox!DatabaseError \/ Outbox!Die
  <2>1. faults' \in 0..MaxFaults /\ notifier' \in {"connect", "off"} /\ Outbox!LeaveDrain
    BY <1>1, <1>5 DEF Outbox!DatabaseError, Outbox!Die, Outbox!Fault
  <2>2. lines' = lines /\ sent' = sent /\ Outbox!Lines' = Outbox!Lines /\ Outbox!Lines = 1..Len(lines)
    BY <1>5 DEF Outbox!DatabaseError, Outbox!Die, Outbox!table, Outbox!discord, Outbox!Lines
  <2>3. forgotten' \subseteq Outbox!Lines'
    BY <1>1, <1>5, <2>2 DEF Outbox!DatabaseError, Outbox!Die
  <2>4. tracker' \in [Players -> [line : {0} \cup Outbox!Lines', fresh : BOOLEAN]]
    <3>1. Outbox!NoWreck \in [line : {0} \cup Outbox!Lines, fresh : BOOLEAN]
      BY DEF Outbox!NoWreck
    <3> QED
      BY <1>1, <1>5, <2>2, <3>1 DEF Outbox!DatabaseError, Outbox!Die
  <2>5. notifier' \in {"off", "connect"} /\ batch' = <<>> /\ enabled' = Outbox!Kinds
    BY <2>1 DEF Outbox!LeaveDrain
  <2>6. sent' \subseteq Outbox!Ids /\ deleted' \subseteq Outbox!Lines' /\ lines' \in Seq(LineType)
    BY <1>0, <1>1, <2>2
  <2>7. batch' \in Seq(Outbox!Ids) /\ enabled' \subseteq Outbox!Kinds
    BY <1>3, <2>5
  <2>8. notifier' \in {"off", "connect", "select", "deliver", "mark", "wait"}
    BY <2>5
  <2> QED
    BY <1>2, <2>1, <2>3, <2>4, <2>6, <2>7, <2>8
<1>6. CASE Outbox!SelectUnsent
  <2>1. batch' \in Seq(Outbox!Ids)
    <3>1. IsFiniteSet(Outbox!Ids \ sent)
      BY IdsFinite, FS_Subset
    <3>2. Cardinality(Outbox!Ids \ sent) \in Nat
      BY <3>1, FS_CardinalityType
    <3>3. batch' \in [1..Cardinality(Outbox!Ids \ sent) -> Outbox!Ids]
      BY <1>6 DEF Outbox!SelectUnsent, Outbox!Unsent, Outbox!Cardinality, Cardinality
    <3> QED
      BY <3>2, <3>3, SeqFunction
  <2>2. UNCHANGED <<sent, lines, tracker, forgotten, faults>> /\ notifier' = "deliver" /\ enabled' \subseteq Outbox!Kinds
    BY <1>1, <1>6 DEF Outbox!SelectUnsent, Outbox!At, Outbox!table, Outbox!discord
  <2> QED
    BY <1>0, <1>1, <1>2, <2>1, <2>2 DEF Outbox!Lines
<1>7. CASE Outbox!Suppress \/ Outbox!Mark
  <2>1. batch # <<>>
    BY <1>7 DEF Outbox!Suppress, Outbox!Mark, Outbox!At
  <2>2. Head(batch) \in Outbox!Ids /\ Tail(batch) \in Seq(Outbox!Ids)
    BY <2>1, HeadTail
  <2>3. UNCHANGED <<lines, tracker, forgotten, faults, enabled>> /\ notifier' = "deliver"
    BY <1>7 DEF Outbox!Suppress, Outbox!Mark, Outbox!At, Outbox!discord
  <2>4. batch' = Tail(batch) /\ sent' = sent \cup {Head(batch)}
    BY <1>7 DEF Outbox!Suppress, Outbox!Mark
  <2> QED
    BY <1>0, <1>1, <1>2, <2>2, <2>3, <2>4 DEF Outbox!Lines
<1>8. CASE Outbox!Post \/ Outbox!PostMisreported
  <2>1. batch # <<>> /\ lines' = Append(lines, Outbox!Line) /\ rows' = rows
    BY <1>8, <1>0 DEF Outbox!Post, Outbox!PostMisreported
  <2>2. Outbox!Line \in LineType
    BY <2>1, HeadTail DEF Outbox!Line, LineType
  <2>3. /\ lines' \in Seq(LineType') /\ Len(lines') = Len(lines) + 1
        /\ Outbox!Lines' = Outbox!Lines \cup {Len(lines')}
    BY <2>1, <2>2, LinesGrow
  <2>4. tracker' \in [Players -> [line : {0} \cup Outbox!Lines', fresh : BOOLEAN]]
    <3>1. tracker \in [Players -> [line : {0} \cup Outbox!Lines', fresh : BOOLEAN]]
      BY <1>1, <2>3
    <3>2. Outbox!NoWreck \in [line : {0} \cup Outbox!Lines', fresh : BOOLEAN]
      BY DEF Outbox!NoWreck
    <3>3. [line |-> Len(lines'), fresh |-> TRUE] \in [line : {0} \cup Outbox!Lines', fresh : BOOLEAN]
      BY <2>3
    <3> QED
      BY <1>8, <3>1, <3>2, <3>3 DEF Outbox!Post, Outbox!PostMisreported, Outbox!RecordDeath
  <2>5. /\ UNCHANGED <<sent, forgotten>> /\ notifier' \in {"mark", "wait"}
        /\ batch' \in Seq(Outbox!Ids) /\ enabled' \subseteq Outbox!Kinds
    BY <1>1, <1>3, <1>8 DEF Outbox!Post, Outbox!PostMisreported, Outbox!At,
       Outbox!LeaveDrain, Outbox!table
  <2>6. faults' \in 0..MaxFaults
    BY <1>1, <1>8 DEF Outbox!Post, Outbox!PostMisreported, Outbox!Fault
  <2> QED
    BY <1>0, <1>1, <1>2, <2>3, <2>4, <2>5, <2>6
<1>9. CASE Outbox!Edit
  <2>1. /\ batch # <<>> /\ Outbox!Event.player \in Players /\ tracker[Outbox!Event.player].line \in Outbox!Lines
        /\ Head(batch) \in Outbox!Ids
    <3>1. batch # <<>> /\ Outbox!RecentDeath(Outbox!Event.player)
      BY <1>9 DEF Outbox!Edit
    <3>2. Head(batch) \in Outbox!Ids /\ Outbox!Event \in Outbox!Events
      BY <3>1, HeadTail, Typing DEF Outbox!Event
    <3> QED
      BY <3>1, <3>2, Typing DEF Outbox!RecentDeath, Outbox!Events
  <2>2. lines' \in Seq(LineType') /\ Outbox!Lines' = Outbox!Lines
    BY <1>0, <1>9, <2>1, LinesStruck DEF Outbox!Edit, Outbox!Strike
  <2>3. tracker' \in [Players -> [line : {0} \cup Outbox!Lines', fresh : BOOLEAN]]
    BY <1>1, <1>9, <2>1, <2>2 DEF Outbox!Edit, Outbox!Clear, Outbox!NoWreck
  <2>4. UNCHANGED <<sent, forgotten, faults, batch, enabled>> /\ notifier' = "mark"
    BY <1>9 DEF Outbox!Edit, Outbox!At, Outbox!table
  <2> QED
    BY <1>0, <1>1, <1>2, <2>2, <2>3, <2>4
<1>10. CASE Outbox!Consume
  <2>1. tracker' \in [Players -> [line : {0} \cup Outbox!Lines, fresh : BOOLEAN]]
    BY <1>1, <1>10 DEF Outbox!Consume, Outbox!Clear, Outbox!NoWreck
  <2>2. UNCHANGED <<sent, lines, forgotten, faults, batch, enabled>> /\ notifier' = "mark"
    BY <1>10 DEF Outbox!Consume, Outbox!At, Outbox!table, Outbox!discord
  <2> QED
    BY <1>0, <1>1, <1>2, <2>1, <2>2 DEF Outbox!Lines
<1> QED
  BY <1>4, <1>5, <1>6, <1>7, <1>8, <1>9, <1>10 DEF Outbox!Notifier

\* Every step keeps the types.
LEMMA TypeStep ==
    ASSUME Outbox!BoundsAssumption, Outbox!TypeOK, BatchInv, FreshInv, [Outbox!Next]_(Outbox!vars)
    PROVE  Outbox!TypeOK' /\ FreshInv'
<1>1. CASE UNCHANGED Outbox!vars
  BY <1>1 DEF Outbox!vars, Outbox!server, Outbox!table, Outbox!discord, Outbox!TypeOK,
     Outbox!Ids, Outbox!Lines, FreshInv
<1>2. ASSUME NEW k \in Outbox!Kinds, Outbox!SetKindEnabled(k) PROVE Outbox!TypeOK'
  <2>1. UNCHANGED <<down, events, emitted, rows, sent, lines, deleted, notifier, batch, enabled, tracker,
                    forgotten, faults>>
    BY <1>2 DEF Outbox!SetKindEnabled, Outbox!server, Outbox!table, Outbox!discord
  <2>2. on' \subseteq Outbox!Kinds
    BY <1>2 DEF Outbox!SetKindEnabled, Outbox!TypeOK
  <2> QED
    BY <2>1, <2>2 DEF Outbox!TypeOK, Outbox!Ids, Outbox!Lines
<1>3. ASSUME NEW l \in 1..Len(lines), Outbox!Moderate(l) PROVE Outbox!TypeOK'
  BY <1>3 DEF Outbox!Moderate, Outbox!server, Outbox!table, Outbox!TypeOK, Outbox!Ids, Outbox!Lines
<1>4. ASSUME NEW p \in Players, Outbox!WindowElapses(p) PROVE Outbox!TypeOK'
  <2>1. UNCHANGED <<down, events, emitted, rows, sent, on, lines, deleted, notifier, batch, enabled, faults>>
    BY <1>4 DEF Outbox!WindowElapses, Outbox!server, Outbox!table, Outbox!discord
  <2>2. tracker' \in [Players -> [line : {0} \cup Outbox!Lines, fresh : BOOLEAN]]
    BY <1>4 DEF Outbox!WindowElapses, Outbox!TypeOK
  <2>3. forgotten' \subseteq Outbox!Lines
    BY <1>4, Typing DEF Outbox!WindowElapses, Outbox!TypeOK, FreshInv
  <2> QED
    BY <2>1, <2>2, <2>3 DEF Outbox!TypeOK, Outbox!Ids, Outbox!Lines
<1>5. Outbox!TypeOK'
  BY <1>1, <1>2, <1>3, <1>4, TypeServer, TypeInsert, TypeNotifier DEF Outbox!Next, BatchInv
<1>6. ASSUME NEW p \in Players, tracker'[p] \in {tracker[p], Outbox!NoWreck, [tracker[p] EXCEPT !.fresh = FALSE]}
      PROVE  tracker'[p].fresh => tracker'[p].line # 0
  <2>1. tracker[p] \in [line : {0} \cup Outbox!Lines, fresh : BOOLEAN]
    BY DEF Outbox!TypeOK
  <2> QED
    BY <1>6, <2>1 DEF Outbox!NoWreck, FreshInv
<1>7. ASSUME Outbox!Post PROVE FreshInv'
  <2>1. batch # <<>> /\ lines' = Append(lines, Outbox!Line) /\ rows' = rows
    BY <1>7 DEF Outbox!Post, Outbox!table
  <2>2. Outbox!Line \in LineType
    BY <2>1, HeadTail DEF Outbox!Line, LineType
  <2>3. Len(lines') # 0
    BY <2>1, <2>2, LinesGrow, Typing
  <2>4. \A p \in Players : tracker'[p] \in {tracker[p], Outbox!NoWreck, [line |-> Len(lines'), fresh |-> TRUE]}
    BY <1>7 DEF Outbox!Post, Outbox!RecordDeath
  <2>5. ASSUME NEW p \in Players PROVE tracker'[p].fresh => tracker'[p].line # 0
    <3>1. CASE tracker'[p] = [line |-> Len(lines'), fresh |-> TRUE]
      BY <2>3, <3>1
    <3> QED
      BY <1>6, <2>4, <3>1
  <2> QED
    BY <2>5 DEF FreshInv
<1>8. ASSUME ~Outbox!Post, \A q \in Players : ~Outbox!WindowElapses(q), NEW p \in Players
      PROVE  tracker'[p] \in {tracker[p], Outbox!NoWreck}
  <2>1. ASSUME NEW q \in Players PROVE Outbox!Clear(q)[p] \in {tracker[p], Outbox!NoWreck}
    BY DEF Outbox!Clear, Outbox!TypeOK
  <2>2. Outbox!Event.kind = "jumpstarted" /\ (Outbox!Edit \/ Outbox!Consume) => Outbox!Event.player \in Players
    BY HeadTail, Typing DEF Outbox!Edit, Outbox!Consume, Outbox!Event, Outbox!Events
  <2>3. CASE Outbox!Edit \/ Outbox!Consume
    BY <2>1, <2>2, <2>3 DEF Outbox!Edit, Outbox!Consume
  <2>4. CASE Outbox!Die
    BY <2>4 DEF Outbox!Die
  <2> QED
    BY <1>8, <2>3, <2>4 DEF Outbox!Next, Outbox!Server, Outbox!HandleExternalStatusEvent,
       Outbox!SetKindEnabled, Outbox!Moderate, Outbox!Notifier, Outbox!Connect, Outbox!Wake,
       Outbox!SelectUnsent, Outbox!DeliveryFails, Outbox!Suppress, Outbox!PostMisreported,
       Outbox!Mark, Outbox!Drained, Outbox!DatabaseError, Outbox!Restart, Outbox!vars
<1>9. ASSUME NEW q \in Players, Outbox!WindowElapses(q) PROVE FreshInv'
  <2>1. \A p \in Players : tracker'[p] \in {tracker[p], [tracker[p] EXCEPT !.fresh = FALSE]}
    BY <1>9 DEF Outbox!WindowElapses, Outbox!TypeOK
  <2> QED
    BY <1>6, <2>1 DEF FreshInv
<1>10. FreshInv'
  BY <1>6, <1>7, <1>8, <1>9 DEF FreshInv
<1> QED
  BY <1>5, <1>10

-----------------------------------------------------------------------------
(* Order, marks and switches. *)

\* The steps that neither mark a row, post a line nor change the batch, but for
\* dropping it.
Aside ==
    /\ UNCHANGED <<sent, lines>>
    /\ \/ UNCHANGED <<notifier, batch>>
       \/ notifier' \notin {"deliver", "mark"} /\ batch' = <<>>
       \/ notifier \notin {"deliver", "mark"} /\ notifier' \notin {"deliver", "mark"} /\ UNCHANGED batch
    /\ \A i \in Outbox!Ids : rows'[i] = rows[i]
    /\ Outbox!Ids \subseteq Outbox!Ids'

\* Every step is one of those, or one of the six that are told apart below.
LEMMA StepKinds ==
    ASSUME Outbox!TypeOK, [Outbox!Next]_(Outbox!vars)
    PROVE  Aside \/ Outbox!SelectUnsent \/ Outbox!Suppress \/ Outbox!Mark \/ Outbox!Post \/ Outbox!PostMisreported \/ Outbox!Edit \/ Outbox!Consume
<1>1. CASE Outbox!HandleExternalStatusEvent
  BY <1>1, RowsGrow DEF Outbox!HandleExternalStatusEvent, Outbox!discord, Aside
<1>2. CASE Outbox!Notifier
  BY <1>2 DEF Outbox!Notifier, Outbox!Connect, Outbox!Wake, Outbox!DeliveryFails,
     Outbox!Drained, Outbox!DatabaseError, Outbox!Die, Outbox!Restart, Outbox!At,
     Outbox!LeaveDrain, Outbox!table, Outbox!discord, Aside, Outbox!Ids
<1>3. CASE ~Outbox!HandleExternalStatusEvent /\ ~Outbox!Notifier
  BY <1>3 DEF Outbox!Next, Outbox!Server, Outbox!SetKindEnabled, Outbox!Moderate,
     Outbox!WindowElapses, Outbox!vars, Outbox!table, Outbox!discord, Aside, Outbox!Ids
<1> QED
  BY <1>1, <1>2, <1>3

\* The batch keeps its order.
LEMMA BatchStep ==
    ASSUME Outbox!TypeOK, BatchInv, [Outbox!Next]_(Outbox!vars)
    PROVE  BatchInv'
<1>1. CASE Aside
  BY <1>1 DEF Aside, BatchInv
<1>2. CASE Outbox!SelectUnsent
  <2>1. batch' \in Outbox!Unsent /\ notifier' = "deliver" /\ sent' = sent
    BY <1>2 DEF Outbox!SelectUnsent, Outbox!At, Outbox!table
  <2>2. Cardinality(Outbox!Ids \ sent) \in Nat
    <3>1. IsFiniteSet(Outbox!Ids \ sent)
      BY IdsFinite, FS_Subset
    <3> QED
      BY <3>1, FS_CardinalityType
  <2> DEFINE n == Cardinality(Outbox!Ids \ sent)
  <2>3. /\ batch' \in [1..n -> Outbox!Ids \ sent] /\ Len(batch') = n
        /\ \A i \in 1..n : \A j \in Outbox!Ids \ sent : (j < batch'[i]) <=> (\E h \in 1..(i - 1) : batch'[h] = j)
    BY <2>1, <2>2, SeqFunction DEF Outbox!Unsent, Outbox!Cardinality, Cardinality
  <2> HIDE DEF n
  <2>4. \A i \in 1..n : batch'[i] \in Outbox!Ids /\ batch'[i] \notin sent'
    BY <2>1, <2>3
  <2>5. \A i, j \in 1..n : i # j => batch'[i] # batch'[j]
    <3>0. n \in Nat
      BY <2>2 DEF n
    <3>1. ASSUME NEW i \in 1..n, NEW h \in 1..(i - 1) PROVE batch'[h] < batch'[i]
      <4>1. h \in 1..n
        BY <3>0
      <4>2. batch'[h] \in Outbox!Ids \ sent
        BY <2>3, <4>1
      <4> QED
        BY <2>3, <4>2
    <3>2. \A i \in 1..n : batch'[i] \in Nat
      BY <2>4, Typing DEF Outbox!Ids
    <3> QED
      BY <3>0, <3>1, <3>2
  <2>6. \A i \in 1..n : \A j \in 1..(batch'[i] - 1) : j \in Outbox!Ids /\ j < batch'[i]
    BY <2>4, Typing DEF Outbox!Ids
  <2> QED
    BY <2>1, <2>3, <2>4, <2>5, <2>6 DEF BatchInv
<1>3. CASE Outbox!Suppress \/ Outbox!Mark
  <2>1. batch # <<>> /\ batch' = Tail(batch) /\ sent' = sent \cup {batch[1]} /\ notifier' = "deliver"
    BY <1>3, HeadTail DEF Outbox!Suppress, Outbox!Mark, Outbox!At, BatchInv
  <2>2. /\ Len(batch') = Len(batch) - 1 /\ Len(batch) >= 1 /\ Len(batch) \in Nat
        /\ \A i \in 1..(Len(batch) - 1) : batch'[i] = batch[i + 1]
    BY <2>1, HeadTail, Typing
  <2>3. \A i \in 1..Len(batch') : batch'[i] \notin sent'
    BY <2>1, <2>2 DEF BatchInv
  <2>4. \A i, j \in 1..Len(batch') : i # j => batch'[i] # batch'[j]
    BY <2>2 DEF BatchInv
  <2>5. ASSUME NEW i \in 1..Len(batch'), NEW j \in 1..(batch'[i] - 1)
        PROVE  j \in sent' \/ \E h \in 1..(i - 1) : batch'[h] = j
    <3>1. i + 1 \in 1..Len(batch) /\ j \in 1..(batch[i + 1] - 1)
      BY <2>2
    <3>2. CASE j \in sent
      BY <2>1, <3>2
    <3>3. CASE j \notin sent
      <4>1. PICK h \in 1..i : batch[h] = j
        BY <2>2, <3>1, <3>3 DEF BatchInv
      <4>2. CASE h = 1
        BY <2>1, <4>1, <4>2
      <4>3. CASE h # 1
        <5>1. h - 1 \in 1..(i - 1) /\ h - 1 \in 1..(Len(batch) - 1) /\ (h - 1) + 1 = h
          BY <2>2, <4>3
        <5> QED
          BY <2>2, <4>1, <5>1
      <4> QED
        BY <4>2, <4>3
    <3> QED
      BY <3>2, <3>3
  <2> QED
    BY <2>1, <2>3, <2>4, <2>5 DEF BatchInv
<1>4. CASE Outbox!Post \/ Outbox!Edit \/ Outbox!Consume
  BY <1>4 DEF Outbox!Post, Outbox!Edit, Outbox!Consume, Outbox!At, Outbox!table, BatchInv
<1>5. CASE Outbox!PostMisreported
  BY <1>5 DEF Outbox!PostMisreported, Outbox!At, Outbox!LeaveDrain, Outbox!table, BatchInv
<1> QED
  BY <1>1, <1>2, <1>3, <1>4, <1>5, StepKinds

\* The row at the head of the batch is the first one that is not sent.
LEMMA FirstUnsent ==
    ASSUME Outbox!TypeOK, BatchInv, batch # <<>>
    PROVE  /\ Head(batch) = batch[1] /\ batch[1] \in Outbox!Ids \ sent
           /\ \A j \in 1..(batch[1] - 1) : j \in sent
BY HeadTail, Typing DEF BatchInv

\* A kind nobody may switch off stays on.
LEMMA SwitchStep ==
    ASSUME SwitchInv, [Outbox!Next]_(Outbox!vars)
    PROVE  SwitchInv'
<1>1. \A k : Outbox!SetKindEnabled(k) => SwitchInv'
  BY DEF Outbox!SetKindEnabled, SwitchInv
<1>2. CASE Outbox!SelectUnsent
  BY <1>2 DEF Outbox!SelectUnsent, SwitchInv
<1>3. CASE Outbox!Notifier /\ ~Outbox!SelectUnsent
  BY <1>3 DEF Outbox!Notifier, Outbox!Connect, Outbox!Wake, Outbox!DeliveryFails,
     Outbox!Suppress, Outbox!Post, Outbox!PostMisreported, Outbox!Edit, Outbox!Consume,
     Outbox!Mark, Outbox!Drained, Outbox!DatabaseError, Outbox!Die, Outbox!Restart,
     Outbox!LeaveDrain, SwitchInv
<1> QED
  BY <1>1, <1>2, <1>3 DEF Outbox!Next, Outbox!Server, Outbox!HandleExternalStatusEvent,
     Outbox!Moderate, Outbox!WindowElapses, Outbox!vars, SwitchInv

\* A post adds a line of the first row that is not sent.
LEMMA PostGrows ==
    ASSUME Outbox!TypeOK, BatchInv, Outbox!Post \/ Outbox!PostMisreported
    PROVE  /\ batch # <<>> /\ batch[1] \in Outbox!Ids \ sent /\ Outbox!Event = rows[batch[1]]
           /\ UNCHANGED <<rows, sent>> /\ Outbox!Ids' = Outbox!Ids
           /\ Len(lines') = Len(lines) + 1 /\ Outbox!Lines' = Outbox!Lines \cup {Len(lines')}
           /\ lines'[Len(lines')].row = batch[1] /\ lines'[Len(lines')].struck = 0
           /\ \A l \in Outbox!Lines : lines'[l] = lines[l] /\ l # Len(lines')
<1>1. batch # <<>> /\ lines' = Append(lines, Outbox!Line) /\ UNCHANGED <<rows, sent>> /\ Outbox!Ids' = Outbox!Ids
  BY DEF Outbox!Post, Outbox!PostMisreported, Outbox!table, Outbox!Ids
<1>2. batch[1] \in Outbox!Ids \ sent /\ Head(batch) = batch[1] /\ Outbox!Event = rows[batch[1]]
  BY <1>1, FirstUnsent DEF Outbox!Event
<1>3. Outbox!Line \in LineType /\ Outbox!Line.row = batch[1] /\ Outbox!Line.struck = 0
  BY <1>2 DEF Outbox!Line, LineType
<1>4. /\ Len(lines') = Len(lines) + 1 /\ Outbox!Lines' = Outbox!Lines \cup {Len(lines')}
      /\ lines'[Len(lines')] = Outbox!Line
      /\ \A l \in Outbox!Lines : lines'[l] = lines[l] /\ l # Len(lines')
  <2> HIDE DEF Outbox!Line
  <2> QED
    BY <1>1, <1>3, LinesGrow
<1> QED
  BY <1>1, <1>2, <1>3, <1>4

\* An edit strikes the line on file for the jumpstarted player.
LEMMA EditStrikes ==
    ASSUME Outbox!TypeOK, BatchInv, Outbox!Edit
    PROVE  /\ batch # <<>> /\ batch[1] \in Outbox!Ids \ sent /\ Outbox!Event = rows[batch[1]]
           /\ Outbox!Event.player \in Players /\ Outbox!Event.kind = "jumpstarted"
           /\ tracker[Outbox!Event.player].line \in Outbox!Lines /\ tracker[Outbox!Event.player].fresh
           /\ tracker[Outbox!Event.player].line # 0
           /\ UNCHANGED <<rows, sent, batch, forgotten>> /\ Outbox!Ids' = Outbox!Ids /\ notifier' = "mark"
           /\ Len(lines') = Len(lines) /\ Outbox!Lines' = Outbox!Lines
           /\ \A l \in Outbox!Lines : /\ lines'[l].row = lines[l].row
                                      /\ lines'[l].struck = IF l = tracker[Outbox!Event.player].line THEN batch[1]
                                                            ELSE lines[l].struck
<1>1. /\ batch # <<>> /\ UNCHANGED <<rows, sent, batch, forgotten>> /\ Outbox!Ids' = Outbox!Ids /\ notifier' = "mark"
      /\ Outbox!Event.kind = "jumpstarted" /\ Outbox!RecentDeath(Outbox!Event.player)
      /\ lines' = Outbox!Strike(tracker[Outbox!Event.player].line)
  BY DEF Outbox!Edit, Outbox!At, Outbox!table, Outbox!Ids
<1>2. batch[1] \in Outbox!Ids \ sent /\ Head(batch) = batch[1] /\ Outbox!Event = rows[batch[1]]
  BY <1>1, FirstUnsent DEF Outbox!Event
<1>3. Outbox!Event \in Outbox!Events /\ Outbox!Event.player \in Players
  BY <1>2, Typing DEF Outbox!Events
<1>4. /\ tracker[Outbox!Event.player].line \in Outbox!Lines /\ tracker[Outbox!Event.player].fresh
      /\ tracker[Outbox!Event.player].line # 0
  BY <1>1, <1>3, Typing DEF Outbox!RecentDeath
<1>5. /\ Len(lines') = Len(lines) /\ Outbox!Lines' = Outbox!Lines
      /\ \A l \in Outbox!Lines : /\ lines'[l].row = lines[l].row
                                 /\ lines'[l].struck = IF l = tracker[Outbox!Event.player].line THEN batch[1]
                                                       ELSE lines[l].struck
  BY <1>1, <1>2, <1>4, LinesStruck DEF Outbox!Strike
<1> QED
  BY <1>1, <1>2, <1>3, <1>4, <1>5

\* Lines stay in the order of their rows.
LEMMA OrderStep ==
    ASSUME Outbox!TypeOK, BatchInv, Outbox!InOrder, [Outbox!Next]_(Outbox!vars)
    PROVE  Outbox!InOrder'
<1>1. CASE Aside \/ Outbox!SelectUnsent \/ Outbox!Consume
  BY <1>1 DEF Aside, Outbox!SelectUnsent, Outbox!Consume, Outbox!table, Outbox!discord,
     Outbox!InOrder, Outbox!Lines
<1>2. CASE Outbox!Suppress \/ Outbox!Mark
  BY <1>2 DEF Outbox!Suppress, Outbox!Mark, Outbox!discord, Outbox!InOrder, Outbox!Lines
<1>3. CASE Outbox!Post \/ Outbox!PostMisreported
  <2>1. \A j \in 1..(batch[1] - 1) : j \in sent
    BY <1>3, PostGrows, FirstUnsent
  <2> QED
    BY <1>3, <2>1, PostGrows DEF Outbox!InOrder
<1>4. CASE Outbox!Edit
  BY <1>4, EditStrikes DEF Outbox!InOrder
<1> QED
  BY <1>1, <1>2, <1>3, <1>4, StepKinds

\* What is marked is out, may be switched off or is a jumpstart.
LEMMA MarkStep ==
    ASSUME Outbox!SwitchableAssumption, Outbox!TypeOK, BatchInv, SwitchInv, Outbox!NothingDropped, MarkInv, [Outbox!Next]_(Outbox!vars)
    PROVE  Outbox!NothingDropped' /\ MarkInv'
<1>1. CASE Aside
  <2>1. UNCHANGED <<sent, lines>> /\ \A i \in Outbox!Ids : rows'[i] = rows[i]
    BY <1>1 DEF Aside
  <2>2. \A i \in sent : i \in Outbox!Ids
    BY DEF Outbox!TypeOK
  <2>3. notifier' = "mark" => notifier = "mark" /\ batch' = batch
    BY <1>1 DEF Aside
  <2>4. notifier = "mark" => batch[1] \in Outbox!Ids
    BY HeadTail DEF BatchInv
  <2> QED
    BY <2>1, <2>2, <2>3, <2>4 DEF Outbox!NothingDropped, MarkInv, Outbox!Posted, Outbox!Lines
<1>2. CASE Outbox!SelectUnsent
  BY <1>2 DEF Outbox!SelectUnsent, Outbox!At, Outbox!table, Outbox!discord,
     Outbox!NothingDropped, MarkInv, Outbox!Posted, Outbox!Lines
<1>3. CASE Outbox!Suppress
  <2>1. /\ batch # <<>> /\ rows[Head(batch)].kind \notin enabled /\ sent' = sent \cup {Head(batch)}
        /\ UNCHANGED <<rows, lines, notifier>> /\ notifier = "deliver"
    BY <1>3 DEF Outbox!Suppress, Outbox!Suppressed, Outbox!Event, Outbox!discord
  <2>2. rows[Head(batch)] \in Outbox!Events
    BY <2>1, HeadTail, Typing
  <2>3. rows[Head(batch)].kind \in Switchable
    BY <2>1, <2>2 DEF SwitchInv, Outbox!Events
  <2> QED
    BY <2>1, <2>3 DEF Outbox!NothingDropped, MarkInv, Outbox!Posted, Outbox!Lines
<1>4. CASE Outbox!Mark
  <2>1. /\ notifier = "mark" /\ sent' = sent \cup {Head(batch)} /\ UNCHANGED <<rows, lines>> /\ notifier' = "deliver"
    BY <1>4 DEF Outbox!Mark, Outbox!At, Outbox!discord
  <2>2. Head(batch) = batch[1]
    BY <2>1, HeadTail DEF BatchInv
  <2> QED
    BY <2>1, <2>2 DEF Outbox!NothingDropped, MarkInv, Outbox!Posted, Outbox!Lines
<1>5. CASE Outbox!Post \/ Outbox!PostMisreported
  <2>1. \A i : Outbox!Posted(i) => Outbox!Posted(i)'
    BY <1>5, PostGrows DEF Outbox!Posted
  <2>2. notifier' = "mark" => batch' = batch
    BY <1>5 DEF Outbox!Post, Outbox!PostMisreported, Outbox!At
  <2>3. notifier' = "mark" => Outbox!Posted(batch[1])'
    BY <1>5, <2>2, PostGrows DEF Outbox!Posted
  <2> QED
    BY <1>5, <2>1, <2>2, <2>3, PostGrows DEF Outbox!NothingDropped, MarkInv
<1>6. CASE Outbox!Edit
  <2>1. \A i : Outbox!Posted(i) => Outbox!Posted(i)'
    BY <1>6, EditStrikes DEF Outbox!Posted
  <2> QED
    BY <1>6, <2>1, EditStrikes DEF Outbox!NothingDropped, MarkInv
<1>7. CASE Outbox!Consume
  <2>1. /\ batch # <<>> /\ UNCHANGED <<rows, sent, lines, batch>> /\ Outbox!Event.kind = "jumpstarted"
    BY <1>7 DEF Outbox!Consume, Outbox!table, Outbox!discord
  <2>2. Outbox!Event = rows[batch[1]]
    BY <2>1, HeadTail DEF Outbox!Event
  <2> QED
    BY <2>1, <2>2 DEF Outbox!NothingDropped, MarkInv, Outbox!Posted, Outbox!Lines
<1> QED
  BY <1>1, <1>2, <1>3, <1>4, <1>5, <1>6, <1>7, StepKinds

-----------------------------------------------------------------------------
(* Lines that are repeated. *)

\* A mark is given up only in a fault, and no fault is forgotten.
LEMMA FaultStep ==
    ASSUME Outbox!TypeOK, [Outbox!Next]_(Outbox!vars)
    PROVE  /\ faults \in Nat /\ faults' \in Nat /\ faults' >= faults
           /\ notifier = "mark" /\ notifier' # "mark" /\ ~Outbox!Mark => faults' > faults
           /\ Outbox!PostMisreported => faults' > faults
<1>1. faults \in Nat
  BY DEF Outbox!TypeOK
<1>2. CASE Outbox!Notifier
  BY <1>1, <1>2 DEF Outbox!Notifier, Outbox!Connect, Outbox!Wake, Outbox!SelectUnsent,
     Outbox!DeliveryFails, Outbox!Suppress, Outbox!Post, Outbox!PostMisreported,
     Outbox!Edit, Outbox!Consume, Outbox!Drained, Outbox!Mark, Outbox!DatabaseError,
     Outbox!Die, Outbox!Restart, Outbox!At, Outbox!Fault
<1>3. CASE ~Outbox!Notifier
  <2>1. UNCHANGED <<faults, notifier>>
    BY <1>3 DEF Outbox!Next, Outbox!Server, Outbox!HandleExternalStatusEvent,
       Outbox!SetKindEnabled, Outbox!Moderate, Outbox!WindowElapses, Outbox!vars
  <2> QED
    BY <1>1, <1>3, <2>1 DEF Outbox!Notifier
<1> QED
  BY <1>2, <1>3

\* The rows in the channel are finitely many.
LEMMA PostsFinite ==
    ASSUME Outbox!TypeOK
    PROVE  IsFiniteSet(Posts) /\ Cardinality(Posts) \in Nat
<1>1. IsFiniteSet(Outbox!Ids)
  <2>1. Len(rows) \in Int /\ 1 \in Int
    BY Typing
  <2> QED
    BY <2>1, FS_Interval DEF Outbox!Ids
<1>2. Posts \subseteq Outbox!Ids
  BY Typing DEF Posts
<1> QED
  BY <1>1, <1>2, FS_Subset, FS_CardinalityType

\* The only row that can be out without being marked is the next one.
LEMMA OutUnmarked ==
    ASSUME Outbox!TypeOK, BatchInv, Outbox!InOrder, batch # <<>>, NEW i \in Posts, i \notin sent
    PROVE  i = batch[1]
<1>1. i \in Outbox!Ids /\ batch[1] \in Outbox!Ids \ sent /\ \A j \in 1..(batch[1] - 1) : j \in sent
  BY FirstUnsent, Typing DEF Posts
<1>2. \A j \in 1..(i - 1) : j \in sent
  BY DEF Posts, Outbox!InOrder
<1>3. i \in Nat /\ batch[1] \in Nat /\ i >= 1 /\ batch[1] >= 1
  BY <1>1, Typing DEF Outbox!Ids
<1> QED
  BY <1>1, <1>2, <1>3

\* The sums the accounts of the channel are made of: n lines, o owed, c rows, f
\* faults, before and after.
LEMMA Accounts ==
    ASSUME NEW n \in Nat, NEW o \in Nat, NEW c \in Nat, NEW f \in Nat, NEW p \in Nat, NEW g \in Nat
    PROVE  /\ p <= o /\ f <= g => p + f <= o + g
           /\ p <= 1 /\ f < g => p + f <= o + g /\ p + f <= g
           /\ n + o <= c + f /\ p + f <= g /\ o = 1 => (n + 1) + p <= c + g
OBVIOUS

\* A line is repeated at the price of a fault.
LEMMA RepeatStep ==
    ASSUME Outbox!TypeOK, Outbox!TypeOK', BatchInv, Outbox!InOrder, RepeatInv, [Outbox!Next]_(Outbox!vars)
    PROVE  RepeatInv'
<1>1. /\ Len(lines) \in Nat /\ Owed \in Nat /\ Owed' \in Nat /\ Owed' <= 1
      /\ faults \in Nat /\ faults' \in Nat /\ faults <= faults'
      /\ Cardinality(Posts) \in Nat /\ IsFiniteSet(Posts)
  <2>1. faults' >= faults => faults <= faults'
    BY FaultStep
  <2> QED
    BY <2>1, Typing, FaultStep, PostsFinite DEF Owed
<1>0. Len(lines) + Owed <= Cardinality(Posts) + faults
  BY DEF RepeatInv
<1>2. ASSUME Posts' = Posts, Len(lines') = Len(lines), Owed' + faults <= Owed + faults'
      PROVE  RepeatInv'
  <2>1. Len(lines) + Owed' <= Cardinality(Posts) + faults'
    <3>1. \A n, o, c, f, p, g \in Nat : n + o <= c + f /\ p + f <= o + g => n + p <= c + g
      OBVIOUS
    <3> QED
      BY <1>0, <1>1, <1>2, <3>1
  <2> QED
    BY <1>2, <2>1 DEF RepeatInv
<1>3. CASE Aside \/ Outbox!SelectUnsent \/ Outbox!Consume
  <2>1. UNCHANGED <<sent, lines>>
    BY <1>3 DEF Aside, Outbox!SelectUnsent, Outbox!Consume, Outbox!table, Outbox!discord
  <2>2. Posts' = Posts
    BY <2>1 DEF Posts, Outbox!Lines
  <2>3. Owed' <= Owed \/ (notifier = "mark" /\ notifier' # "mark")
    BY <2>1, <2>2 DEF Owed
  <2>4. notifier = "mark" /\ notifier' # "mark" => faults < faults'
    BY <1>3, FaultStep DEF Aside, Outbox!SelectUnsent, Outbox!Consume, Outbox!Mark, Outbox!At
  <2>5. Owed' + faults <= Owed + faults'
    BY <1>1, <2>3, <2>4, Accounts
  <2> QED
    BY <1>2, <2>1, <2>2, <2>5
<1>4. CASE Outbox!Suppress \/ Outbox!Mark
  <2>1. /\ Posts' = Posts /\ UNCHANGED lines
        /\ sent' = sent \cup {Head(batch)} /\ notifier' = "deliver"
    BY <1>4 DEF Outbox!Suppress, Outbox!Mark, Outbox!At, Outbox!discord, Posts, Outbox!Lines
  <2>2. Owed' <= Owed
    <3>1. CASE Outbox!Suppress
      BY <2>1, <3>1 DEF Owed, Outbox!Suppress
    <3>2. CASE Outbox!Mark
      <4>1. batch # <<>> /\ Head(batch) = batch[1]
        BY <3>2, HeadTail DEF Outbox!Mark, Outbox!At, BatchInv
      <4>2. \A i \in Posts : i \in sent'
        BY <2>1, <4>1, OutUnmarked
      <4> QED
        BY <1>1, <2>1, <4>2 DEF Owed
    <3> QED
      BY <1>4, <3>1, <3>2
  <2>3. Owed' + faults <= Owed + faults'
    BY <1>1, <2>2, Accounts
  <2> QED
    BY <1>2, <2>1, <2>3
<1>5. CASE Outbox!Post \/ Outbox!PostMisreported
  <2>1. Len(lines') = Len(lines) + 1 /\ batch[1] \notin sent /\ notifier = "deliver"
    BY <1>5, PostGrows DEF Outbox!Post, Outbox!PostMisreported, Outbox!At
  <2>2. Owed' + faults <= faults'
    <3>1. CASE Outbox!Post
      <4>1. Owed' = 0 /\ faults' = faults
        BY <3>1 DEF Outbox!Post, Outbox!At, Owed
      <4> QED
        BY <1>1, <4>1
    <3>2. CASE Outbox!PostMisreported
      <4>1. faults < faults'
        BY <3>2, FaultStep
      <4> QED
        BY <1>1, <4>1, Accounts
    <3> QED
      BY <1>5, <3>1, <3>2
  <2> DEFINE i == batch[1]
  <2>3. Posts' = Posts \cup {i}
    BY <1>5, PostGrows DEF Posts
  <2> HIDE DEF i
  <2>4. CASE i \in Posts
    <3>1. Owed = 1
      BY <2>1, <2>4 DEF i, Owed
    <3>2. Posts' = Posts
      BY <2>3, <2>4
    <3>3. (Len(lines) + 1) + Owed' <= Cardinality(Posts) + faults'
      BY <1>1, <2>2, <3>1, Accounts DEF RepeatInv
    <3> QED
      BY <2>1, <3>2, <3>3 DEF RepeatInv
  <2>5. CASE i \notin Posts
    <3>1. Cardinality(Posts \cup {i}) = Cardinality(Posts) + 1
      BY <1>1, <2>5, FS_AddElement
    <3>2. (Len(lines) + 1) + Owed' <= (Cardinality(Posts) + 1) + faults'
      <4>1. \A n, o, c, f, p, g \in Nat :
                n + o <= c + f /\ p + f <= g => (n + 1) + p <= (c + 1) + g
        OBVIOUS
      <4> QED
        BY <1>0, <1>1, <2>2, <4>1
    <3>3. Cardinality(Posts)' = Cardinality(Posts) + 1
      BY <2>3, <3>1
    <3> QED
      BY <2>1, <3>2, <3>3 DEF RepeatInv
  <2> QED
    BY <2>4, <2>5
<1>6. CASE Outbox!Edit
  <2>1. Posts' = Posts
    BY <1>6, EditStrikes DEF Posts
  <2>2. Owed' = 0 /\ Len(lines') = Len(lines)
    BY <1>6, EditStrikes DEF Owed
  <2>3. Owed' <= Owed
    BY <1>1, <2>2
  <2>4. Owed' + faults <= Owed + faults'
    BY <1>1, <2>3, Accounts
  <2> QED
    BY <1>2, <2>1, <2>2, <2>4
<1> QED
  BY <1>3, <1>4, <1>5, <1>6, StepKinds

\* The accounts of the channel bound its repetitions.
LEMMA RepeatMeans ==
    ASSUME Outbox!TypeOK, RepeatInv
    PROVE  Outbox!RepeatedByFaults
<1>1. Owed \in Nat /\ Len(lines) \in Nat /\ faults \in Nat /\ Cardinality(Posts) \in Nat
  BY Typing, PostsFinite DEF Owed, Outbox!TypeOK
<1>2. Outbox!RepeatedByFaults <=> Len(lines) <= Cardinality(Posts) + faults
  BY DEF Outbox!RepeatedByFaults, Outbox!Cardinality, Cardinality, Posts
<1> QED
  BY <1>1, <1>2 DEF RepeatInv

-----------------------------------------------------------------------------
(* What the server emits. *)

\* An inserted row was the first event of the queue.
LEMMA InsertKeeps ==
    ASSUME Outbox!TypeOK, Outbox!HandleExternalStatusEvent
    PROVE  Emitted' = Emitted /\ down' = down /\ \A i \in Emitted : Ev(i)' = Ev(i)
<1>1. /\ Len(rows) \in Nat /\ Len(events) \in Nat /\ Len(rows') = Len(rows) + 1
      /\ Len(events') = Len(events) - 1 /\ Len(events) >= 1
  BY Typing, RowsGrow
<1>2. Emitted' = Emitted /\ down' = down
  BY <1>1 DEF Emitted, Outbox!HandleExternalStatusEvent
<1>3. ASSUME NEW i \in Emitted PROVE Ev(i)' = Ev(i)
  <2>1. CASE i <= Len(rows)
    <3>1. i \in Outbox!Ids /\ i <= Len(rows')
      BY <1>1, <2>1 DEF Outbox!Ids, Emitted
    <3> QED
      BY <2>1, <3>1, RowsGrow DEF Ev
  <2>2. CASE i = Len(rows) + 1
    <3>1. i <= Len(rows') /\ ~(i <= Len(rows)) /\ i - Len(rows) = 1
      BY <1>1, <2>2
    <3> QED
      BY <2>2, <3>1, RowsGrow DEF Ev
  <2>3. CASE i > Len(rows) + 1
    <3>1. /\ ~(i <= Len(rows')) /\ ~(i <= Len(rows))
          /\ i - Len(rows') \in 1..(Len(events) - 1) /\ (i - Len(rows')) + 1 = i - Len(rows)
      BY <1>1, <2>3 DEF Emitted
    <3>2. events'[i - Len(rows')] = events[i - Len(rows)]
      BY <3>1, RowsGrow
    <3> QED
      BY <3>1, <3>2 DEF Ev
  <2> QED
    BY <1>1, <2>1, <2>2, <2>3 DEF Emitted
<1> QED
  BY <1>2, <1>3

\* An emitted event comes last.
LEMMA EmitGrows ==
    ASSUME Outbox!TypeOK, NEW k \in Outbox!Kinds, NEW p \in Players, Outbox!EmitExternalStatusEvent(k, p), rows' = rows
    PROVE  \E n \in Nat : /\ Emitted = 1..n /\ Emitted' = 1..(n + 1)
                          /\ \A i \in 1..n : Ev(i)' = Ev(i)
                          /\ Ev(n + 1)' = [kind |-> k, player |-> p]
<1> DEFINE e == [kind |-> k, player |-> p]
<1>1. e \in Outbox!Events
  BY DEF Outbox!Events
<1>2. events' = Append(events, e) /\ events \in Seq(Outbox!Events)
  BY DEF Outbox!EmitExternalStatusEvent, Outbox!TypeOK
<1> HIDE DEF e
<1>3. /\ Len(events) \in Nat /\ Len(rows) \in Nat /\ Len(events') = Len(events) + 1
      /\ events'[Len(events) + 1] = e /\ \A i \in 1..Len(events) : events'[i] = events[i]
  BY <1>1, <1>2, Typing
<1>n. PICK n \in Nat : n = Len(rows) + Len(events)
  BY <1>3
<1>4. Emitted = 1..n /\ Emitted' = 1..(n + 1)
  BY <1>3, <1>n DEF Emitted
<1>5. ASSUME NEW i \in 1..n PROVE Ev(i)' = Ev(i)
  <2>1. CASE i <= Len(rows)
    BY <2>1 DEF Ev
  <2>2. CASE ~(i <= Len(rows))
    <3>1. i - Len(rows) \in 1..Len(events)
      BY <1>3, <1>n, <2>2
    <3> QED
      BY <1>3, <2>2, <3>1 DEF Ev
  <2> QED
    BY <2>1, <2>2
<1>6. Ev(n + 1)' = e
  <2>1. ~(n + 1 <= Len(rows)) /\ (n + 1) - Len(rows) = Len(events) + 1
    BY <1>3, <1>n
  <2> QED
    BY <1>3, <2>1 DEF Ev
<1> QED
  BY <1>4, <1>5, <1>6 DEF e

\* Wrecks and jumpstarts of a player take turns.
LEMMA ServerStep ==
    ASSUME Outbox!TypeOK, ServerInv, [Outbox!Next]_(Outbox!vars)
    PROVE  ServerInv'
<1>1. ASSUME Emitted' = Emitted, down' \subseteq down, \A i \in Emitted : Ev(i)' = Ev(i)
      PROVE  ServerInv'
  BY <1>1 DEF ServerInv
<1>2. CASE Outbox!HandleExternalStatusEvent
  BY <1>1, <1>2, InsertKeeps
<1>3. ASSUME NEW p \in Players, Outbox!Server(p) PROVE ServerInv'
  <2>1. rows' = rows
    BY <1>3 DEF Outbox!Server, Outbox!table
  <2>2. CASE Outbox!Towed(p)
    BY <1>1, <2>1, <2>2 DEF Outbox!Towed, Emitted, Ev
  <2>3. ASSUME NEW k \in Outbox!Kinds, Outbox!EmitExternalStatusEvent(k, p),
               /\ k = "player_destroyed" => down' = down \cup {p}
               /\ k = "jumpstarted" => p \in down /\ down' = down \ {p}
               /\ k = "login" => down' = down
        PROVE  ServerInv'
    <3>1. PICK n \in Nat : /\ Emitted = 1..n /\ Emitted' = 1..(n + 1)
                           /\ \A i \in 1..n : Ev(i)' = Ev(i)
                           /\ Ev(n + 1)' = [kind |-> k, player |-> p]
      BY <2>1, <2>3, EmitGrows
    <3>2. ASSUME NEW i \in Emitted' PROVE i \in Emitted \/ i = n + 1
      BY <3>1
    <3>3. ASSUME NEW i \in Emitted PROVE i \in 1..n /\ i \in Emitted' /\ i < n + 1 /\ Ev(i)' = Ev(i)
      BY <3>1
    <3>4. n + 1 \in Emitted'
      BY <3>1
    <3>5. ASSUME NEW q \in Players, NEW i \in Emitted', NEW j \in Emitted',
                 j < i, Ev(j)' = Revival(q), Ev(i)' = Revival(q)
          PROVE  \E v \in Emitted' : j < v /\ v < i /\ Ev(v)' = Wreck(q)
      <4>1. j \in Emitted
        BY <3>1, <3>5
      <4>2. CASE i \in Emitted
        BY <3>3, <3>5, <4>1, <4>2 DEF ServerInv
      <4>3. CASE i = n + 1
        <5>1. k = "jumpstarted" /\ q = p /\ p \in down
          BY <2>3, <3>1, <3>5, <4>3 DEF Revival
        <5>2. PICK v \in Emitted : j < v /\ Ev(v) = Wreck(q)
          BY <3>3, <3>5, <4>1, <5>1 DEF ServerInv
        <5> QED
          BY <3>3, <4>3, <5>2
      <4> QED
        BY <3>2, <4>2, <4>3
    <3>6. ASSUME NEW q \in down', NEW j \in Emitted', Ev(j)' = Revival(q)
          PROVE  \E v \in Emitted' : j < v /\ Ev(v)' = Wreck(q)
      <4>1. k \in {"player_destroyed", "jumpstarted", "login"}
        BY DEF Outbox!Kinds
      <4>2. CASE k = "player_destroyed" /\ q = p
        <5>1. j # n + 1
          BY <3>1, <3>6, <4>2 DEF Revival
        <5>2. j < n + 1
          BY <3>2, <3>3, <5>1
        <5> QED
          BY <3>1, <3>4, <4>2, <5>2 DEF Wreck
      <4>3. CASE ~(k = "player_destroyed" /\ q = p)
        <5>1. q \in down /\ ~(k = "jumpstarted" /\ q = p)
          BY <2>3, <3>6, <4>1, <4>3
        <5>2. j \in Emitted
          BY <3>1, <3>2, <3>6, <5>1 DEF Revival
        <5> QED
          BY <3>3, <3>6, <5>1, <5>2 DEF ServerInv
      <4> QED
        BY <4>2, <4>3
    <3> QED
      BY <3>5, <3>6 DEF ServerInv
  <2> QED
    BY <1>3, <2>2, <2>3 DEF Outbox!Server, Outbox!Destroyed, Outbox!JumpStart, Outbox!Login,
       Outbox!Kinds
<1>4. CASE ~Outbox!HandleExternalStatusEvent /\ ~\E p \in Players : Outbox!Server(p)
  <2>1. UNCHANGED <<down, events, rows>>
    BY <1>4 DEF Outbox!Next, Outbox!SetKindEnabled, Outbox!Moderate, Outbox!WindowElapses,
       Outbox!Notifier, Outbox!Connect, Outbox!Wake, Outbox!SelectUnsent,
       Outbox!DeliveryFails, Outbox!Suppress, Outbox!Post, Outbox!PostMisreported,
       Outbox!Edit, Outbox!Consume, Outbox!Mark, Outbox!Drained, Outbox!DatabaseError,
       Outbox!Die, Outbox!Restart, Outbox!vars, Outbox!server, Outbox!table
  <2> QED
    BY <1>1, <2>1 DEF Emitted, Ev
<1> QED
  BY <1>2, <1>3, <1>4

-----------------------------------------------------------------------------
(* The wreck that a jumpstart strikes through. *)

\* Rows are marked in order.
LEMMA PrefixStep ==
    ASSUME Outbox!TypeOK, BatchInv, PrefixInv, [Outbox!Next]_(Outbox!vars)
    PROVE  PrefixInv'
<1>1. CASE sent' = sent
  BY <1>1 DEF PrefixInv
<1>2. CASE Outbox!Suppress \/ Outbox!Mark
  <2>1. batch # <<>> /\ sent' = sent \cup {Head(batch)}
    BY <1>2 DEF Outbox!Suppress, Outbox!Mark, Outbox!At, BatchInv
  <2>2. sent' = sent \cup {batch[1]} /\ \A j \in 1..(batch[1] - 1) : j \in sent
    BY <2>1, FirstUnsent
  <2> QED
    BY <2>2 DEF PrefixInv
<1> QED
  BY <1>1, <1>2, StepKinds DEF Aside, Outbox!SelectUnsent, Outbox!Post,
     Outbox!PostMisreported, Outbox!Edit, Outbox!Consume, Outbox!table

\* A row before the first unsent one is sent, and no row after it is.
LEMMA AroundHead ==
    ASSUME Outbox!TypeOK, BatchInv, PrefixInv, Outbox!InOrder, batch # <<>>
    PROVE  /\ Head(batch) = batch[1] /\ batch[1] \in Outbox!Ids \ sent
           /\ \A i \in Outbox!Ids : i < batch[1] <=> i \in sent
           /\ \A l \in Outbox!Lines : lines[l].row <= batch[1]
<1>1. Head(batch) = batch[1] /\ batch[1] \in Outbox!Ids \ sent /\ \A j \in 1..(batch[1] - 1) : j \in sent
  BY FirstUnsent
<1>2. batch[1] \in Nat /\ batch[1] >= 1 /\ \A i \in Outbox!Ids : i \in Nat /\ i >= 1
  BY <1>1, Typing DEF Outbox!Ids
<1>3. ASSUME NEW i \in Outbox!Ids PROVE i < batch[1] <=> i \in sent
  <2>1. i < batch[1] => i \in sent
    BY <1>1, <1>2
  <2>2. i > batch[1] /\ i \in sent => batch[1] \in sent
    BY <1>2 DEF PrefixInv
  <2> QED
    BY <1>1, <1>2, <2>1, <2>2
<1>4. ASSUME NEW l \in Outbox!Lines PROVE lines[l].row <= batch[1]
  <2>1. lines[l].row \in Outbox!Ids
    BY Typing
  <2>2. lines[l].row > batch[1] => batch[1] \in sent
    BY <1>2, <2>1 DEF Outbox!InOrder
  <2> QED
    BY <1>1, <1>2, <2>1, <2>2
<1> QED
  BY <1>1, <1>3, <1>4

\* The tracker forgets a wreck on file only when its window closes or the notifier
\* dies.
Remembers ==
    /\ forgotten \subseteq forgotten'
    /\ \A p \in Players :
          \/ tracker'[p] = tracker[p]
          \/ /\ tracker'[p].line \in {0, tracker[p].line}
             /\ tracker[p].fresh => tracker[p].line \in forgotten'

LEMMA SideStep ==
    ASSUME Outbox!TypeOK, FreshInv, [Outbox!Next]_(Outbox!vars)
    PROVE  \/ Aside /\ Remembers
           \/ Outbox!SelectUnsent \/ Outbox!Suppress \/ Outbox!Mark \/ Outbox!Post \/ Outbox!PostMisreported \/ Outbox!Edit \/ Outbox!Consume
<1>1. ASSUME NEW q \in Players, Outbox!WindowElapses(q) PROVE Remembers
  <2>1. /\ forgotten' = forgotten \cup {tracker[q].line}
        /\ tracker' = [tracker EXCEPT ![q].fresh = FALSE]
    BY <1>1 DEF Outbox!WindowElapses
  <2>2. ASSUME NEW p \in Players PROVE tracker'[p] = tracker[p] \/ (p = q /\ tracker'[p].line = tracker[p].line)
    <3>1. tracker[p] \in [line : {0} \cup Outbox!Lines, fresh : BOOLEAN]
      BY DEF Outbox!TypeOK
    <3> QED
      BY <2>1, <3>1 DEF Outbox!TypeOK
  <2> QED
    BY <2>1, <2>2 DEF Remembers
<1>2. CASE Outbox!Die
  <2>1. tracker' = [p \in Players |-> Outbox!NoWreck] /\ Outbox!Lines \subseteq forgotten' /\ forgotten \subseteq forgotten'
    BY <1>2 DEF Outbox!Die, Outbox!Lines
  <2>2. \A p \in Players : tracker'[p].line = 0 /\ (tracker[p].fresh => tracker[p].line \in Outbox!Lines)
    BY <2>1, Typing DEF Outbox!NoWreck, FreshInv
  <2> QED
    BY <1>2, <2>1, <2>2, StepKinds DEF Remembers
<1>3. CASE UNCHANGED <<tracker, forgotten>>
  BY <1>3, StepKinds DEF Remembers
<1> QED
  BY <1>1, <1>2, <1>3, StepKinds DEF Outbox!Next, Outbox!Server,
     Outbox!HandleExternalStatusEvent, Outbox!SetKindEnabled, Outbox!Moderate,
     Outbox!Notifier, Outbox!Connect, Outbox!Wake, Outbox!DeliveryFails, Outbox!Drained,
     Outbox!DatabaseError, Outbox!Restart, Outbox!vars

\* No row changes, and no line but by a strike.
LEMMA Keeps ==
    ASSUME Outbox!TypeOK, BatchInv, [Outbox!Next]_(Outbox!vars)
    PROVE  /\ Outbox!Ids \subseteq Outbox!Ids' /\ \A i \in Outbox!Ids : rows'[i] = rows[i]
           /\ Outbox!Lines \subseteq Outbox!Lines' /\ \A l \in Outbox!Lines : lines'[l].row = lines[l].row
           /\ ~Outbox!Edit => \A l \in Outbox!Lines : lines'[l].struck = lines[l].struck
           /\ ~Outbox!Post /\ ~Outbox!PostMisreported => Outbox!Lines' = Outbox!Lines
<1>1. CASE Aside
  BY <1>1 DEF Aside, Outbox!Lines
<1>2. CASE Outbox!SelectUnsent \/ Outbox!Suppress \/ Outbox!Mark \/ Outbox!Consume
  BY <1>2 DEF Outbox!SelectUnsent, Outbox!Suppress, Outbox!Mark, Outbox!Consume,
     Outbox!table, Outbox!discord, Outbox!Lines, Outbox!Ids
<1>3. CASE Outbox!Post \/ Outbox!PostMisreported
  BY <1>3, PostGrows
<1>4. CASE Outbox!Edit
  BY <1>4, EditStrikes
<1> QED
  BY <1>1, <1>2, <1>3, <1>4, StepKinds

\* A row is dealt with by one of four steps at the head of the batch; a wreck or a
\* jumpstart is not suppressed.
LEMMA DoneStep ==
    ASSUME Outbox!WrecksStayOn, Outbox!TypeOK, BatchInv, SwitchInv, [Outbox!Next]_(Outbox!vars), NEW i \in Outbox!Ids', Done(i)'
    PROVE  /\ i \in Outbox!Ids
           /\ \/ Done(i)
              \/ /\ i = batch[1] /\ batch # <<>> /\ i \notin sent
                 /\ \/ Outbox!Post \/ Outbox!Edit \/ Outbox!Consume
                    \/ Outbox!Suppress /\ rows[i].kind \notin {"player_destroyed", "jumpstarted"}
<1>1. sent \subseteq Outbox!Ids /\ (notifier = "mark" => batch[1] \in Outbox!Ids)
  BY HeadTail DEF Outbox!TypeOK, BatchInv
<1>2. CASE Aside
  BY <1>1, <1>2 DEF Aside, Done
<1>3. CASE Outbox!SelectUnsent
  BY <1>1, <1>3 DEF Outbox!SelectUnsent, Outbox!At, Outbox!table, Done
<1>4. CASE Outbox!Suppress
  <2>1. /\ batch # <<>> /\ sent' = sent \cup {batch[1]} /\ batch[1] \in Outbox!Ids \ sent /\ notifier' # "mark"
        /\ rows[batch[1]].kind \notin enabled
    BY <1>4, FirstUnsent DEF Outbox!Suppress, Outbox!Suppressed, Outbox!Event
  <2>2. rows[batch[1]].kind \in Outbox!Kinds
    BY <2>1, Typing DEF Outbox!Events
  <2>3. rows[batch[1]].kind \notin {"player_destroyed", "jumpstarted"}
    BY <2>1, <2>2 DEF SwitchInv, Outbox!WrecksStayOn
  <2> QED
    BY <1>1, <1>4, <2>1, <2>3 DEF Done
<1>5. CASE Outbox!Mark
  <2>1. batch # <<>> /\ sent' = sent \cup {batch[1]} /\ notifier = "mark" /\ notifier' # "mark"
    BY <1>5, HeadTail DEF Outbox!Mark, Outbox!At, BatchInv
  <2> QED
    BY <1>1, <2>1 DEF Done
<1>6. CASE Outbox!Post \/ Outbox!Edit \/ Outbox!Consume
  <2>1. batch # <<>> /\ sent' = sent /\ batch' = batch /\ notifier = "deliver"
    BY <1>6 DEF Outbox!Post, Outbox!Edit, Outbox!Consume, Outbox!At, Outbox!table
  <2>2. batch[1] \in Outbox!Ids \ sent
    BY <2>1, FirstUnsent
  <2> QED
    BY <1>1, <1>6, <2>1, <2>2 DEF Done
<1>7. CASE Outbox!PostMisreported
  BY <1>1, <1>7 DEF Outbox!PostMisreported, Outbox!At, Outbox!table, Done
<1> QED
  BY <1>2, <1>3, <1>4, <1>5, <1>6, <1>7, StepKinds

\* The wreck of a jumpstart is settled once both are inserted, and there is one.
LEMMA WreckStable ==
    ASSUME Outbox!TypeOK, Outbox!Ids \subseteq Outbox!Ids', \A i \in Outbox!Ids : rows'[i] = rows[i], NEW w \in Outbox!Ids, NEW i \in Outbox!Ids
    PROVE  Outbox!IsWreckOf(w, i)' <=> Outbox!IsWreckOf(w, i)
<1>1. \A v \in (w + 1)..(i - 1) : v \in Outbox!Ids
  BY Typing DEF Outbox!Ids
<1> QED
  BY <1>1 DEF Outbox!IsWreckOf

LEMMA WreckUnique ==
    ASSUME Outbox!TypeOK, NEW w \in Outbox!Ids, NEW u \in Outbox!Ids, NEW i \in Outbox!Ids, Outbox!IsWreckOf(w, i), Outbox!IsWreckOf(u, i)
    PROVE  w = u
<1>1. w \in Nat /\ u \in Nat /\ i \in Nat /\ w < i /\ u < i
  BY Typing DEF Outbox!Ids, Outbox!IsWreckOf
<1>2. w < u => u \in (w + 1)..(i - 1)
  BY <1>1
<1>3. u < w => w \in (u + 1)..(i - 1)
  BY <1>1
<1> QED
  BY <1>1, <1>2, <1>3 DEF Outbox!IsWreckOf

\* The line on file for a jumpstarted player is of the wreck it revives from.
LEMMA OnFileWreck ==
    ASSUME Outbox!TypeOK, BatchInv, PrefixInv, Outbox!InOrder, TrackInv, Outbox!Edit
    PROVE  LET l == tracker[Outbox!Event.player].line IN
              l \in Outbox!Lines /\ lines[l].struck = 0 /\ Outbox!IsWreckOf(lines[l].row, batch[1])
<1> DEFINE p == Outbox!Event.player
<1> DEFINE l == tracker[p].line
<1> DEFINE w == lines[l].row
<1>1. /\ p \in Players /\ l \in Outbox!Lines /\ l # 0 /\ batch # <<>> /\ rows[batch[1]].kind = "jumpstarted"
      /\ rows[batch[1]].player = p
  BY EditStrikes
<1>2. OnFile(p, l)
  BY <1>1 DEF TrackInv
<1>3. /\ batch[1] \in Outbox!Ids /\ (\A i \in Outbox!Ids : i < batch[1] <=> i \in sent) /\ w <= batch[1] /\ w \in Outbox!Ids
      /\ w \in Nat /\ batch[1] \in Nat
  BY <1>1, AroundHead, Typing DEF Outbox!Ids
<1>4. rows[w] = Wreck(p) /\ w # batch[1]
  BY <1>1, <1>2 DEF OnFile, Wreck
<1>5. ASSUME NEW v \in (w + 1)..(batch[1] - 1) PROVE rows[v] # Wreck(p)
  <2>1. v \in Outbox!Ids /\ v < batch[1] /\ v > w
    BY <1>3, Typing, SMTT(30) DEF Outbox!Ids
  <2>2. Done(v)
    BY <1>3, <2>1 DEF Done
  <2> QED
    BY <1>2, <2>1, <2>2 DEF OnFile
<1>6. w < batch[1]
  BY <1>3, <1>4
<1>7. Outbox!IsWreckOf(w, batch[1])
  BY <1>1, <1>4, <1>5, <1>6 DEF Outbox!IsWreckOf, Wreck
<1> QED
  BY <1>1, <1>2, <1>7 DEF OnFile

\* A line struck through is of the wreck that its jumpstart revives from.
LEMMA StruckStep ==
    ASSUME Outbox!TypeOK, BatchInv, PrefixInv, Outbox!InOrder, TrackInv, StruckInv, [Outbox!Next]_(Outbox!vars)
    PROVE  StruckInv'
<1>1. ASSUME NEW l \in Outbox!Lines, lines'[l].struck = lines[l].struck, lines[l].struck # 0
      PROVE  Fits(l)'
  <2>1. PICK s \in Outbox!Ids, w \in Outbox!Ids : s = lines[l].struck /\ w = lines[l].row
    BY <1>1, Typing
  <2>2. lines'[l].row = w /\ lines'[l].struck = s /\ rows'[s] = rows[s]
    BY <1>1, <2>1, Keeps
  <2>3. rows[s].kind = "jumpstarted" /\ Outbox!IsWreckOf(w, s)
    BY <1>1, <2>1 DEF StruckInv, Fits
  <2>4. Outbox!IsWreckOf(w, s)'
    BY <2>3, Keeps, WreckStable
  <2> QED
    BY <2>2, <2>3, <2>4 DEF Fits, Outbox!IsWreckOf
<1>2. CASE Outbox!Edit
  <2> DEFINE k == tracker[Outbox!Event.player].line
  <2>1. PICK i \in Outbox!Ids, w \in Outbox!Ids : i = batch[1] /\ w = lines[k].row
    BY <1>2, EditStrikes, Typing
  <2>2. /\ Outbox!IsWreckOf(w, i) /\ rows[i].kind = "jumpstarted" /\ rows' = rows
        /\ Outbox!Lines' = Outbox!Lines
        /\ \A l \in Outbox!Lines : l = k => lines'[l].row = w /\ lines'[l].struck = i
    BY <1>2, <2>1, EditStrikes, OnFileWreck
  <2>3. Outbox!IsWreckOf(w, i)'
    BY <2>2, Keeps, WreckStable
  <2>4. \A l \in Outbox!Lines : l = k \/ lines'[l].struck = lines[l].struck
    BY <1>2, EditStrikes
  <2>5. ASSUME NEW l \in Outbox!Lines', lines'[l].struck # 0
        PROVE  Fits(l)'
    <3>1. CASE l = k
      BY <2>2, <2>3, <3>1 DEF Fits, Outbox!IsWreckOf
    <3> QED
      BY <1>1, <2>2, <2>4, <2>5, <3>1
  <2> QED
    BY <2>5 DEF StruckInv
<1>3. CASE ~Outbox!Edit
  <2>1. \A l \in Outbox!Lines : lines'[l].struck = lines[l].struck
    BY <1>3, Keeps
  <2>2. \A l \in Outbox!Lines' : l \in Outbox!Lines \/ lines'[l].struck = 0
    BY Keeps, PostGrows
  <2> QED
    BY <1>1, <2>1, <2>2 DEF StruckInv
<1> QED
  BY <1>2, <1>3

\* A wreck on file stays the player's latest one that is dealt with.
LEMMA TrackStep ==
    ASSUME Outbox!WrecksStayOn, Outbox!TypeOK, BatchInv, PrefixInv, FreshInv, SwitchInv, Outbox!InOrder, TrackInv, [Outbox!Next]_(Outbox!vars)
    PROVE  TrackInv'
<1>1. ASSUME NEW p \in Players, tracker'[p].line = tracker[p].line, tracker[p].line # 0,
             \A i \in Outbox!Ids : i = batch[1] /\ (Outbox!Post \/ Outbox!Edit \/ Outbox!Consume) => rows[i] # Wreck(p),
             Outbox!Edit => p # Outbox!Event.player
      PROVE  OnFile(p, tracker[p].line)'
  <2>1. PICK l \in Outbox!Lines : l = tracker[p].line
    BY <1>1, Typing
  <2>2. OnFile(p, l)
    BY <1>1, <2>1 DEF TrackInv
  <2>3. PICK w \in Outbox!Ids : w = lines[l].row
    BY Typing
  <2>4. lines'[l].row = w /\ rows'[w] = Wreck(p) /\ l \in Outbox!Lines'
    BY <2>2, <2>3, Keeps DEF OnFile
  <2>5. lines'[l].struck = 0
    <3>1. CASE Outbox!Edit
      <4>1. OnFile(Outbox!Event.player, tracker[Outbox!Event.player].line)
        BY <3>1, EditStrikes DEF TrackInv
      <4>2. l # tracker[Outbox!Event.player].line
        BY <1>1, <2>2, <3>1, <4>1 DEF OnFile, Wreck
      <4> QED
        BY <2>2, <3>1, <4>2, EditStrikes DEF OnFile
    <3> QED
      BY <2>2, <3>1, Keeps DEF OnFile
  <2>6. ASSUME NEW v \in Outbox!Ids', v > w, rows'[v] = Wreck(p) PROVE ~Done(v)'
    <3>1. SUFFICES ASSUME Done(v)' PROVE FALSE
      OBVIOUS
    <3>2. v \in Outbox!Ids /\ rows[v] = Wreck(p)
      BY <2>6, <3>1, DoneStep, Keeps
    <3>3. ~Done(v)
      BY <2>2, <2>3, <2>6, <3>2 DEF OnFile
    <3>4. v = batch[1] /\ Outbox!Suppress /\ rows[v].kind # "player_destroyed"
      BY <1>1, <3>1, <3>2, <3>3, DoneStep
    <3> QED
      BY <3>2, <3>4 DEF Wreck
  <2> QED
    BY <1>1, <2>1, <2>4, <2>5, <2>6 DEF OnFile
<1>2. CASE Outbox!Post
  <2>1. /\ batch # <<>> /\ batch[1] \in Outbox!Ids /\ Outbox!Event = rows[batch[1]] /\ rows' = rows /\ sent' = sent
        /\ Outbox!Ids' = Outbox!Ids /\ lines'[Len(lines')].row = batch[1] /\ lines'[Len(lines')].struck = 0
    BY <1>2, PostGrows
  <2>2. Outbox!Event \in Outbox!Events /\ batch' = batch /\ Outbox!Event.kind # "jumpstarted" /\ notifier' = "mark"
    BY <1>2, <2>1, Typing DEF Outbox!Post, Outbox!At
  <2>3. CASE Outbox!Event.kind = "player_destroyed"
    <3>1. Outbox!Event = Wreck(Outbox!Event.player) /\ Outbox!Event.player \in Players
      BY <2>2, <2>3 DEF Outbox!Events, Wreck
    <3>2. tracker' = Outbox!RecordDeath(Outbox!Event.player, Len(lines'))
      BY <1>2, <2>3 DEF Outbox!Post
    <3>3. OnFile(Outbox!Event.player, tracker[Outbox!Event.player].line)'
      <4>1. PICK p \in Players : p = Outbox!Event.player
        BY <3>1
      <4>2. tracker'[p].line = Len(lines')
        BY <3>2, <4>1 DEF Outbox!RecordDeath
      <4>3. ASSUME NEW v \in Outbox!Ids, v > batch[1] PROVE ~Done(v)'
        <5>1. v \notin sent /\ v # batch[1]
          BY <2>1, <4>3, AroundHead, Typing DEF Outbox!Ids
        <5> QED
          BY <2>1, <2>2, <5>1 DEF Done
      <4>4. OnFile(p, tracker[p].line)'
        BY <2>1, <3>1, <4>1, <4>2, <4>3 DEF OnFile
      <4>5. Outbox!Event.player' = p
        BY <2>1, <2>2, <4>1 DEF Outbox!Event
      <4> QED
        BY <4>4, <4>5
    <3>4. ASSUME NEW p \in Players, tracker'[p].line # 0, p # Outbox!Event.player
          PROVE  OnFile(p, tracker[p].line)'
      <4>1. tracker'[p].line = tracker[p].line
        BY <3>2, <3>4 DEF Outbox!RecordDeath, Outbox!NoWreck
      <4>2. rows[batch[1]] # Wreck(p)
        BY <2>1, <3>1, <3>4 DEF Wreck
      <4>3. ~Outbox!Edit
        BY <1>2, <2>2 DEF Outbox!Edit
      <4> QED
        BY <1>1, <3>4, <4>1, <4>2, <4>3
    <3>5. Outbox!Event' = Outbox!Event
      BY <2>1, <2>2 DEF Outbox!Event
    <3> QED
      BY <3>3, <3>4, <3>5 DEF TrackInv
  <2>4. CASE Outbox!Event.kind # "player_destroyed"
    <3>1. tracker' = tracker
      BY <1>2, <2>4 DEF Outbox!Post
    <3>2. ~Outbox!Edit /\ \A p \in Players : rows[batch[1]] # Wreck(p)
      BY <2>1, <2>2, <2>4 DEF Outbox!Edit, Wreck
    <3> QED
      BY <1>1, <3>1, <3>2 DEF TrackInv
  <2> QED
    BY <2>3, <2>4
<1>3. CASE Outbox!Edit \/ Outbox!Consume
  <2>1. batch # <<>> /\ Outbox!Event.kind = "jumpstarted" /\ tracker' = Outbox!Clear(Outbox!Event.player)
    BY <1>3 DEF Outbox!Edit, Outbox!Consume
  <2>2. batch[1] \in Outbox!Ids /\ Outbox!Event = rows[batch[1]] /\ Outbox!Event.player \in Players
    BY <2>1, HeadTail, Typing DEF Outbox!Event, Outbox!Events
  <2>3. ASSUME NEW p \in Players, tracker'[p].line # 0
        PROVE  p # Outbox!Event.player /\ tracker'[p].line = tracker[p].line
    BY <2>1, <2>2, <2>3 DEF Outbox!Clear, Outbox!NoWreck, Outbox!TypeOK
  <2>4. \A p \in Players : rows[batch[1]] # Wreck(p)
    BY <2>1, <2>2 DEF Wreck
  <2> QED
    BY <1>1, <2>3, <2>4 DEF TrackInv
<1>4. CASE ~Outbox!Post /\ ~Outbox!Edit /\ ~Outbox!Consume
  <2>1. ASSUME NEW p \in Players, tracker'[p].line # 0
        PROVE  tracker'[p].line = tracker[p].line
    BY <1>4, <2>1, SideStep DEF Remembers, Outbox!SelectUnsent, Outbox!Suppress,
       Outbox!Mark, Outbox!PostMisreported
  <2> QED
    BY <1>1, <1>4, <2>1 DEF TrackInv
<1> QED
  BY <1>2, <1>3, <1>4

\* The latest wreck that is out keeps its line on file, or the line was struck or
\* forgotten.
LEMMA FileStep ==
    ASSUME Outbox!WrecksStayOn, Outbox!TypeOK, BatchInv, PrefixInv, FreshInv, SwitchInv, Outbox!InOrder, TrackInv, FileInv,
           [Outbox!Next]_(Outbox!vars)
    PROVE  FileInv'
<1>1. ASSUME NEW p \in Players, NEW w \in Outbox!Ids', Latest(p, w)'
      PROVE  w \in Outbox!Ids /\ rows[w] = Wreck(p) /\ (Latest(p, w) \/ (w = batch[1] /\ Outbox!Post))
  <2>1. w \in Outbox!Ids /\ rows[w] = Wreck(p)
    BY <1>1, DoneStep, Keeps DEF Latest
  <2>2. Done(w) \/ (w = batch[1] /\ Outbox!Post)
    <3>1. rows[w].kind = "player_destroyed"
      BY <2>1 DEF Wreck
    <3>2. Done(w) \/ (w = batch[1] /\ (Outbox!Post \/ Outbox!Edit \/ Outbox!Consume))
      BY <1>1, <3>1, DoneStep DEF Latest
    <3>3. ASSUME Outbox!Edit \/ Outbox!Consume PROVE rows[batch[1]].kind = "jumpstarted"
      <4>1. batch # <<>> /\ rows[Head(batch)].kind = "jumpstarted"
        BY <3>3 DEF Outbox!Edit, Outbox!Consume, Outbox!Event
      <4> QED
        BY <4>1, HeadTail
    <3> QED
      BY <3>1, <3>2, <3>3
  <2>3. ASSUME NEW v \in Outbox!Ids, v > w, rows[v] = Wreck(p) PROVE ~Outbox!Posted(v)
    <3>1. ~Outbox!Posted(v)'
      BY <1>1, <2>3, Keeps DEF Latest
    <3> QED
      BY <3>1, Keeps DEF Outbox!Posted
  <2> QED
    BY <2>1, <2>2, <2>3 DEF Latest
<1>2. ASSUME NEW p \in Players, NEW w \in Outbox!Ids, NEW l \in Outbox!Lines, Kept(p, w, l),
             \/ tracker'[p] = tracker[p]
             \/ tracker[p].line = l /\ tracker[p].fresh => l \in forgotten' \/ lines'[l].struck # 0
      PROVE  Kept(p, w, l)'
  <2>1. lines'[l].row = w
    BY <1>2, Keeps DEF Kept
  <2>2. forgotten \subseteq forgotten'
    BY SideStep DEF Remembers, Outbox!SelectUnsent, Outbox!Suppress, Outbox!Mark,
       Outbox!Post, Outbox!PostMisreported, Outbox!Edit, Outbox!Consume
  <2>3. lines[l].struck # 0 => lines'[l].struck # 0
    <3>1. CASE Outbox!Edit
      <4>1. batch[1] # 0
        BY <3>1, EditStrikes, Typing DEF Outbox!Ids
      <4> QED
        BY <3>1, <4>1, EditStrikes
    <3> QED
      BY <3>1, Keeps
  <2> QED
    BY <1>2, <2>1, <2>2, <2>3 DEF Kept
<1>3. ASSUME NEW p \in Players, NEW w \in Outbox!Ids', Latest(p, w)'
      PROVE  \E l \in Outbox!Lines' : Kept(p, w, l)'
  <2>1. w \in Outbox!Ids /\ rows[w] = Wreck(p) /\ (Latest(p, w) \/ (w = batch[1] /\ Outbox!Post))
    BY <1>1, <1>3
  <2>2. CASE w = batch[1] /\ Outbox!Post
    <3>1. /\ Outbox!Event = Wreck(p) /\ Len(lines') \in Outbox!Lines' /\ lines'[Len(lines')].row = w
      BY <2>1, <2>2, PostGrows
    <3>2. tracker'[p] = [line |-> Len(lines'), fresh |-> TRUE]
      BY <2>2, <3>1 DEF Outbox!Post, Outbox!RecordDeath, Wreck
    <3> QED
      BY <3>1, <3>2 DEF Kept
  <2>3. CASE Latest(p, w) /\ ~(w = batch[1] /\ Outbox!Post)
    <3>1. PICK l \in Outbox!Lines : Kept(p, w, l)
      BY <2>1, <2>3 DEF FileInv
    <3>2. l \in Outbox!Lines'
      BY Keeps
    <3>3. ASSUME Outbox!Post PROVE tracker'[p] = tracker[p] \/ ~tracker[p].fresh
      <4>1. Outbox!Event = rows[batch[1]] /\ Outbox!Posted(batch[1])' /\ batch[1] \in Outbox!Ids /\ batch # <<>>
        <5>1. Len(lines') \in Outbox!Lines' /\ lines'[Len(lines')].row = batch[1] /\ batch' = batch
          BY <3>3, PostGrows DEF Outbox!Post
        <5> QED
          BY <3>3, <5>1, PostGrows DEF Outbox!Posted
      <4>2. rows[batch[1]] # Wreck(p)
        <5>1. SUFFICES ASSUME rows[batch[1]] = Wreck(p) PROVE FALSE
          OBVIOUS
        <5>2. w < batch[1]
          <6>1. notifier # "mark"
            BY <3>3 DEF Outbox!Post, Outbox!At
          <6>2. w \in sent
            BY <2>3, <6>1 DEF Latest, Done
          <6> QED
            BY <2>1, <4>1, <6>2, AroundHead
        <5>3. PICK v \in Outbox!Ids : v = batch[1]
          BY <4>1
        <5>4. v > w /\ v \in Outbox!Ids' /\ rows'[v] = Wreck(p)
          BY <2>1, <5>1, <5>2, <5>3, Keeps, Typing DEF Outbox!Ids
        <5>5. ~Outbox!Posted(v)'
          BY <1>3, <5>4 DEF Latest
        <5>6. batch' = batch
          BY <3>3 DEF Outbox!Post
        <5> QED
          BY <4>1, <5>3, <5>5, <5>6
      <4>3. Outbox!Event.kind = "player_destroyed" => Outbox!Event.player # p
        <5>1. Outbox!Event \in Outbox!Events
          BY <4>1, Typing
        <5> QED
          BY <4>1, <4>2, <5>1 DEF Outbox!Events, Wreck
      <4> QED
        BY <3>3, <4>3 DEF Outbox!Post, Outbox!RecordDeath
    <3>4. ASSUME Outbox!Edit PROVE tracker'[p] = tracker[p] \/ (tracker[p].line = l => lines'[l].struck # 0)
      <4>1. CASE p = Outbox!Event.player
        <5>1. batch[1] # 0
          BY <3>4, EditStrikes, Typing DEF Outbox!Ids
        <5> QED
          BY <3>4, <4>1, <5>1, EditStrikes
      <4>2. CASE p # Outbox!Event.player
        BY <3>4, <4>2 DEF Outbox!Edit, Outbox!Clear, Outbox!TypeOK
      <4> QED
        BY <4>1, <4>2
    <3>5. ASSUME Outbox!Consume PROVE tracker'[p] = tracker[p] \/ ~(tracker[p].line = l /\ tracker[p].fresh)
      <4>1. l # 0
        BY Typing DEF Outbox!Lines
      <4>2. CASE p = Outbox!Event.player
        BY <3>5, <4>1, <4>2 DEF Outbox!Consume, Outbox!RecentDeath
      <4>3. CASE p # Outbox!Event.player
        BY <3>5, <4>3 DEF Outbox!Consume, Outbox!Clear, Outbox!TypeOK
      <4> QED
        BY <4>2, <4>3
    <3>6. ASSUME ~Outbox!Post, ~Outbox!Edit, ~Outbox!Consume
          PROVE  tracker'[p] = tracker[p] \/ (tracker[p].fresh => tracker[p].line \in forgotten')
      BY <3>6, SideStep DEF Remembers, Outbox!SelectUnsent, Outbox!Suppress, Outbox!Mark,
         Outbox!PostMisreported
    <3>7. \/ tracker'[p] = tracker[p]
          \/ tracker[p].line = l /\ tracker[p].fresh => l \in forgotten' \/ lines'[l].struck # 0
      BY <3>3, <3>4, <3>5, <3>6
    <3> QED
      BY <1>2, <2>1, <3>1, <3>2, <3>7
  <2> QED
    BY <2>1, <2>2, <2>3
<1> QED
  BY <1>3 DEF FileInv

\* A line of the wreck is struck once and for all: two jumpstarts do not revive
\* from the same wreck.
LEMMA OneJumpstart ==
    ASSUME Outbox!TypeOK, ServerInv, NEW p \in Players, NEW w \in Outbox!Ids, NEW i \in Outbox!Ids, NEW s \in Outbox!Ids,
           rows[i] = Revival(p), rows[s] = Revival(p), Outbox!IsWreckOf(w, i), Outbox!IsWreckOf(w, s)
    PROVE  i = s
<1>1. /\ Len(rows) \in Nat /\ Len(events) \in Nat
      /\ i \in 1..Len(rows) /\ s \in 1..Len(rows) /\ w \in 1..Len(rows) /\ w < i /\ w < s
  BY Typing DEF Outbox!Ids, Outbox!IsWreckOf
<1>2. i \in Emitted /\ s \in Emitted /\ Ev(i) = Revival(p) /\ Ev(s) = Revival(p)
  BY <1>1 DEF Emitted, Ev
<1>3. ASSUME NEW a \in Outbox!Ids, NEW b \in Outbox!Ids, a < b, w < a, Outbox!IsWreckOf(w, b), rows[a] = Revival(p),
             rows[b] = Revival(p)
      PROVE  FALSE
  <2>1. /\ a \in 1..Len(rows) /\ b \in 1..Len(rows) /\ a \in Emitted /\ b \in Emitted
        /\ Ev(a) = Revival(p) /\ Ev(b) = Revival(p)
    BY <1>1, <1>3 DEF Outbox!Ids, Emitted, Ev
  <2>2. PICK v \in Emitted : a < v /\ v < b /\ Ev(v) = Wreck(p)
    BY <1>3, <2>1 DEF ServerInv
  <2>3. v \in (w + 1)..(b - 1) /\ Ev(v) = rows[v]
    BY <1>1, <1>3, <2>1, <2>2 DEF Emitted, Ev
  <2> QED
    BY <1>3, <2>2, <2>3 DEF Outbox!IsWreckOf, Wreck, Revival
<1> QED
  BY <1>1, <1>3

\* A jumpstart finds its wreck on file, or struck or forgotten before.
LEMMA ConsumeFinds ==
    ASSUME Outbox!TypeOK, BatchInv, PrefixInv, Outbox!InOrder, ServerInv, StruckInv, FileInv, Outbox!Consume,
           NEW w \in Outbox!Ids, NEW i \in Outbox!Ids, i = batch[1], Outbox!IsWreckOf(w, i), Outbox!Posted(w)
    PROVE  \E l \in Outbox!Lines : Revived(w, i, l)
<1>1. batch # <<>> /\ notifier = "deliver" /\ rows[i].kind = "jumpstarted" /\ ~Outbox!RecentDeath(rows[i].player)
  BY HeadTail DEF Outbox!Consume, Outbox!At, Outbox!Event
<1>2. PICK p \in Players : p = rows[i].player /\ rows[i] = Revival(p)
  BY <1>1, Typing DEF Outbox!Events, Revival
<1>3. /\ rows[w] = Wreck(p) /\ w < i /\ i \notin sent
      /\ (\A j \in Outbox!Ids : j < i <=> j \in sent) /\ (\A l \in Outbox!Lines : lines[l].row <= i)
  BY <1>1, <1>2, AroundHead DEF Outbox!IsWreckOf, Wreck
<1>4. Latest(p, w)
  <2>1. Done(w)
    BY <1>3 DEF Done
  <2>2. ASSUME NEW v \in Outbox!Ids, v > w, rows[v] = Wreck(p), Outbox!Posted(v) PROVE FALSE
    <3>1. v <= i /\ v # i
      <4>1. PICK l \in Outbox!Lines : lines[l].row = v
        BY <2>2 DEF Outbox!Posted
      <4>2. v <= i
        BY <1>3, <4>1
      <4>3. rows[v] # rows[i]
        BY <1>2, <2>2 DEF Wreck, Revival
      <4> QED
        BY <4>2, <4>3
    <3>2. v \in (w + 1)..(i - 1)
      BY <2>2, <3>1, Typing DEF Outbox!Ids
    <3> QED
      BY <1>2, <2>2, <3>2 DEF Outbox!IsWreckOf, Wreck
  <2> QED
    BY <1>3, <2>1, <2>2 DEF Latest
<1>5. PICK l \in Outbox!Lines : Kept(p, w, l)
  BY <1>4 DEF FileInv
<1>6. lines[l].row = w
  BY <1>5 DEF Kept
<1>7. CASE l \in forgotten
  BY <1>6, <1>7 DEF Revived
<1>8. CASE lines[l].struck # 0
  <2>1. PICK s \in Outbox!Ids : s = lines[l].struck
    BY <1>8, Typing
  <2>2. rows[s].kind = "jumpstarted" /\ Outbox!IsWreckOf(w, s)
    BY <1>6, <1>8, <2>1 DEF StruckInv, Fits
  <2>3. rows[s] = Revival(p)
    <3>1. rows[w] = Wreck(rows[s].player)
      BY <2>2 DEF Outbox!IsWreckOf, Wreck
    <3>2. rows[s].player = p
      BY <1>3, <3>1 DEF Wreck
    <3>3. rows[s] \in Outbox!Events
      BY Typing
    <3> QED
      BY <2>2, <3>2, <3>3 DEF Revival, Outbox!Events
  <2>4. s = i
    BY <1>2, <2>2, <2>3, OneJumpstart
  <2> QED
    BY <1>6, <2>1, <2>4 DEF Revived
<1>9. CASE tracker[p].line = l /\ tracker[p].fresh
  <2>1. l # 0
    BY Typing DEF Outbox!Lines
  <2> QED
    BY <1>1, <1>2, <1>9, <2>1 DEF Outbox!RecentDeath
<1> QED
  BY <1>5, <1>7, <1>8, <1>9 DEF Kept

\* A jumpstart that is dealt with annotated its wreck.
LEMMA AnnotatedStep ==
    ASSUME Outbox!WrecksStayOn, Outbox!TypeOK, BatchInv, PrefixInv, FreshInv, SwitchInv, Outbox!InOrder, ServerInv, TrackInv,
           StruckInv, FileInv, AnnotatedInv, [Outbox!Next]_(Outbox!vars)
    PROVE  AnnotatedInv'
<1>1. ASSUME NEW i \in Outbox!Ids', NEW w \in Outbox!Ids', Done(i)', rows'[i].kind = "jumpstarted",
             Outbox!IsWreckOf(w, i)', Outbox!Posted(w)'
      PROVE  \E l \in Outbox!Lines' : Revived(w, i, l)'
  <2>1. i \in Outbox!Ids /\ rows'[i] = rows[i] /\ rows[i].kind = "jumpstarted"
    BY <1>1, DoneStep, Keeps
  <2>2. w < i /\ w \in Outbox!Ids
    BY <1>1, <2>1, Typing DEF Outbox!IsWreckOf, Outbox!Ids
  <2>3. Outbox!IsWreckOf(w, i)
    BY <1>1, <2>1, <2>2, Keeps, WreckStable
  <2>4. Outbox!Posted(w)
    <3>1. CASE Outbox!Post \/ Outbox!PostMisreported
      <4>1. batch # <<>> /\ batch[1] \in Outbox!Ids /\ Outbox!Event = rows[batch[1]]
        BY <3>1, PostGrows
      <4>2. i # batch[1]
        BY <2>1, <3>1, <4>1 DEF Outbox!Post, Outbox!PostMisreported
      <4>3. i \in sent
        <5>1. Done(i)
          BY <1>1, <4>2, DoneStep
        <5>2. notifier # "mark"
          BY <3>1 DEF Outbox!Post, Outbox!PostMisreported, Outbox!At
        <5> QED
          BY <5>1, <5>2 DEF Done
      <4>4. i < batch[1]
        BY <2>1, <4>1, <4>3, AroundHead
      <4>5. w # batch[1]
        BY <2>1, <2>2, <4>1, <4>4, Typing DEF Outbox!Ids
      <4> QED
        BY <1>1, <3>1, <4>5, PostGrows DEF Outbox!Posted
    <3>2. CASE ~Outbox!Post /\ ~Outbox!PostMisreported
      BY <1>1, <3>2, Keeps DEF Outbox!Posted
    <3> QED
      BY <3>1, <3>2
  <2>5. forgotten \subseteq forgotten'
    BY SideStep DEF Remembers, Outbox!SelectUnsent, Outbox!Suppress, Outbox!Mark,
       Outbox!Post, Outbox!PostMisreported, Outbox!Edit, Outbox!Consume
  <2>6. ASSUME NEW l \in Outbox!Lines, Revived(w, i, l), lines'[l].struck = lines[l].struck \/ lines[l].struck = 0
        PROVE  \E k \in Outbox!Lines' : Revived(w, i, k)'
    <3>1. i # 0 /\ l \in Outbox!Lines' /\ lines'[l].row = lines[l].row
      BY <2>1, Keeps, Typing DEF Outbox!Ids
    <3>2. Revived(w, i, l)'
      BY <2>5, <2>6, <3>1 DEF Revived
    <3> QED
      BY <3>1, <3>2
  <2>7. CASE Outbox!Edit
    <3> DEFINE k == tracker[Outbox!Event.player].line
    <3>1. /\ k \in Outbox!Lines /\ lines[k].struck = 0 /\ Outbox!IsWreckOf(lines[k].row, batch[1])
          /\ k \in Outbox!Lines' /\ lines'[k].row = lines[k].row /\ lines'[k].struck = batch[1]
          /\ \A l \in Outbox!Lines : l = k \/ lines'[l].struck = lines[l].struck
      BY <2>7, OnFileWreck, EditStrikes
    <3>2. CASE i = batch[1]
      <4>1. w = lines[k].row
        BY <2>1, <2>2, <2>3, <3>1, <3>2, WreckUnique, Typing
      <4>2. PICK l \in Outbox!Lines' : l = k
        BY <3>1
      <4>3. lines'[l].row = w /\ lines'[l].struck = i
        BY <3>1, <3>2, <4>1, <4>2
      <4> QED
        BY <4>3 DEF Revived
    <3>3. CASE i # batch[1]
      <4>1. Done(i)
        BY <1>1, <3>3, DoneStep
      <4>2. PICK l \in Outbox!Lines : Revived(w, i, l)
        BY <2>1, <2>2, <2>3, <2>4, <4>1 DEF AnnotatedInv
      <4> QED
        BY <2>6, <3>1, <4>2
    <3> QED
      BY <3>2, <3>3
  <2>8. CASE ~Outbox!Edit
    <3>1. PICK l \in Outbox!Lines : Revived(w, i, l)
      <4>1. CASE Done(i)
        BY <2>1, <2>2, <2>3, <2>4, <4>1 DEF AnnotatedInv
      <4>2. CASE ~Done(i)
        <5>1. i = batch[1] /\ (Outbox!Post \/ Outbox!Consume)
          BY <1>1, <2>1, <2>8, <4>2, DoneStep
        <5>2. ~Outbox!Post
          <6>1. Outbox!Post => Outbox!Event = rows[batch[1]]
            BY PostGrows
          <6> QED
            BY <2>1, <5>1, <6>1 DEF Outbox!Post
        <5> QED
          BY <2>1, <2>2, <2>3, <2>4, <5>1, <5>2, ConsumeFinds
      <4> QED
        BY <4>1, <4>2
    <3>2. lines'[l].struck = lines[l].struck
      BY <2>8, Keeps
    <3> QED
      BY <2>6, <3>1, <3>2
  <2> QED
    BY <2>7, <2>8
<1> QED
  BY <1>1 DEF AnnotatedInv

-----------------------------------------------------------------------------
(* The invariants of the channel. *)

\* The first state.
LEMMA InitChannel ==
    ASSUME Outbox!BoundsAssumption, Outbox!SwitchableAssumption, Outbox!Init
    PROVE  ChannelInv /\ WreckInv
<1>1. /\ rows = <<>> /\ events = <<>> /\ lines = <<>> /\ batch = <<>> /\ sent = {} /\ notifier = "connect"
      /\ down = {} /\ on = Outbox!Kinds /\ enabled = Outbox!Kinds /\ faults = 0 /\ emitted = 0 /\ deleted = {}
      /\ forgotten = {} /\ \A p \in Players : tracker[p] = Outbox!NoWreck
  BY DEF Outbox!Init
<1>2. Len(rows) = 0 /\ Len(lines) = 0 /\ Len(events) = 0 /\ Outbox!Ids = {} /\ Outbox!Lines = {} /\ Emitted = {}
  BY <1>1 DEF Outbox!Ids, Outbox!Lines, Emitted
<1>3. Outbox!TypeOK
  <2>1. tracker \in [Players -> [line : {0} \cup Outbox!Lines, fresh : BOOLEAN]]
    <3>1. Outbox!NoWreck \in [line : {0} \cup Outbox!Lines, fresh : BOOLEAN]
      BY DEF Outbox!NoWreck
    <3> QED
      BY <3>1 DEF Outbox!Init
  <2>2. emitted \in 0..MaxEvents /\ faults \in 0..MaxFaults
    BY <1>1 DEF Outbox!BoundsAssumption
  <2> QED
    BY <1>1, <2>1, <2>2 DEF Outbox!TypeOK
<1>4. BatchInv /\ PrefixInv /\ FreshInv /\ SwitchInv /\ Outbox!InOrder /\ Outbox!NothingDropped /\ MarkInv
  BY <1>1, <1>2 DEF BatchInv, PrefixInv, FreshInv, SwitchInv, Outbox!InOrder,
     Outbox!NothingDropped, MarkInv, Outbox!NoWreck
<1>5. RepeatInv
  <2>1. Posts = {}
    BY <1>2 DEF Posts
  <2>2. Cardinality(Posts) = 0 /\ Owed = 0
    BY <2>1, FS_EmptySet DEF Owed
  <2> QED
    BY <1>1, <1>2, <2>2 DEF RepeatInv
<1>6. WreckInv
  BY <1>1, <1>2 DEF WreckInv, ServerInv, TrackInv, StruckInv, FileInv, AnnotatedInv, Outbox!NoWreck
<1> QED
  BY <1>3, <1>4, <1>5, <1>6 DEF ChannelInv

\* One step of the outbox.
LEMMA ChannelStep ==
    ASSUME Outbox!BoundsAssumption, Outbox!SwitchableAssumption, ChannelInv, [Outbox!Next]_(Outbox!vars)
    PROVE  ChannelInv'
<1>1. Outbox!TypeOK' /\ FreshInv'
  BY TypeStep DEF ChannelInv
<1>2. BatchInv' /\ PrefixInv' /\ SwitchInv' /\ Outbox!InOrder'
  BY BatchStep, PrefixStep, SwitchStep, OrderStep DEF ChannelInv
<1>3. Outbox!NothingDropped' /\ MarkInv'
  BY MarkStep DEF ChannelInv
<1>4. RepeatInv'
  BY <1>1, RepeatStep DEF ChannelInv
<1> QED
  BY <1>1, <1>2, <1>3, <1>4 DEF ChannelInv

LEMMA WreckStep ==
    ASSUME Outbox!WrecksStayOn, ChannelInv, WreckInv, [Outbox!Next]_(Outbox!vars)
    PROVE  WreckInv'
<1>1. ServerInv'
  BY ServerStep DEF ChannelInv, WreckInv
<1>2. TrackInv' /\ StruckInv'
  BY TrackStep, StruckStep DEF ChannelInv, WreckInv
<1>3. FileInv' /\ AnnotatedInv'
  BY FileStep, AnnotatedStep DEF ChannelInv, WreckInv
<1> QED
  BY <1>1, <1>2, <1>3 DEF WreckInv

\* What the invariants say of the channel.
LEMMA ChannelMeans ==
    ASSUME ChannelInv
    PROVE  Outbox!TypeOK /\ Outbox!InOrder /\ Outbox!NothingDropped /\ Outbox!RepeatedByFaults
BY RepeatMeans DEF ChannelInv

LEMMA WreckMeans ==
    ASSUME ChannelInv, WreckInv
    PROVE  Outbox!Annotated /\ Outbox!RightWreck
<1>1. Outbox!Annotated
  BY DEF ChannelInv, Outbox!TypeOK, WreckInv, AnnotatedInv, Outbox!Annotated, Done, Revived
<1>2. Outbox!RightWreck
  BY DEF WreckInv, StruckInv, Fits, Outbox!RightWreck
<1> QED
  BY <1>1, <1>2

\* The channel is faithful to the table, whatever fails and whatever may be switched
\* off: lines come in the order of their rows, no row is marked without its line, and
\* a line is repeated only for a fault.
THEOREM ChannelInOrder ==
    ASSUME Outbox!BoundsAssumption, Outbox!SwitchableAssumption
    PROVE  Outbox!Spec => [](Outbox!InOrder /\ Outbox!NothingDropped /\ Outbox!RepeatedByFaults)
<1>1. Outbox!Init => ChannelInv
  BY InitChannel
<1>2. ChannelInv /\ [Outbox!Next]_(Outbox!vars) => ChannelInv'
  BY ChannelStep
<1>3. ChannelInv => Outbox!InOrder /\ Outbox!NothingDropped /\ Outbox!RepeatedByFaults
  BY ChannelMeans
<1> QED
  BY <1>1, <1>2, <1>3, PTL DEF Outbox!Spec

\* As long as wrecks and jumpstarts cannot be switched off, a jumpstart strikes
\* through a line of the wreck it revives from and of no other, unless the notifier
\* had forgotten it.
THEOREM JumpstartsAnnotate ==
    ASSUME Outbox!BoundsAssumption, Outbox!SwitchableAssumption, Outbox!WrecksStayOn
    PROVE  Outbox!Spec => [](Outbox!Annotated /\ Outbox!RightWreck)
<1>1. Outbox!Init => ChannelInv /\ WreckInv
  BY InitChannel
<1>2. ChannelInv /\ WreckInv /\ [Outbox!Next]_(Outbox!vars) => (ChannelInv /\ WreckInv)'
  BY ChannelStep, WreckStep
<1>3. ChannelInv /\ WreckInv => Outbox!Annotated /\ Outbox!RightWreck
  BY WreckMeans
<1> QED
  BY <1>1, <1>2, <1>3, PTL DEF Outbox!Spec

-----------------------------------------------------------------------------
(* The channel, in the small instances. *)

OutboxInv == ChannelInv /\ WreckInv

LEMMA OutboxInit == RecordsInit => OutboxInv
BY OutboxAssumption, InitChannel DEF RecordsInit, OutboxInv

\* A step of the avatar's part leaves the outbox alone.
LEMMA OutboxStep == OutboxInv /\ [RecordsNext]_recordVars => OutboxInv'
<1> SUFFICES ASSUME OutboxInv, [RecordsNext]_recordVars PROVE OutboxInv'
  OBVIOUS
<1>1. UNCHANGED outboxVars => UNCHANGED Outbox!vars
  BY DEF outboxVars, Outbox!vars, Outbox!server, Outbox!table, Outbox!discord
<1>2. [Outbox!Next]_(Outbox!vars)
  BY <1>1 DEF RecordsNext, InAvatar, InOutbox, recordVars
<1>3. ChannelInv'
  BY <1>2, OutboxAssumption, ChannelStep DEF OutboxInv
<1>4. WreckInv'
  BY <1>2, OutboxAssumption, WreckStep DEF OutboxInv
<1> QED
  BY <1>3, <1>4 DEF OutboxInv

\* The channel tells what the table says, for any players, events and faults.
THEOREM ChannelIsFaithful == RecordsSpec => []ChannelFaithful
<1>1. OutboxInv => ChannelFaithful
  BY ChannelMeans, WreckMeans DEF OutboxInv, ChannelFaithful
<1> QED
  BY <1>1, OutboxInit, OutboxStep, PTL DEF RecordsSpec

-----------------------------------------------------------------------------
(* The records of an avatar. *)

\* A server that is down has nothing in memory.
DownInv == ~up => queue = <<>> /\ half = None /\ \A a \in Avatars : sess[a] = None

\* A move leaves one place for the other, and one half written has left it.
MoveInv ==
    /\ \A i \in 1..Len(queue) : queue[i].code = "move" => queue[i].from # queue[i].to
    /\ half # None => half.from # half.to /\ row[half.av].item \subseteq {half.to}

LoginOf(a, i) == queue[i].code = "login" /\ queue[i].av = a
LogoutOf(a, i) == queue[i].code = "logout" /\ queue[i].av = a

\* Every logout of a, written or waiting, is from before t.
OutBy(a, t) == row[a].logout <= t /\ \A i \in 1..Len(queue) : LogoutOf(a, i) => queue[i].at <= t

\* The login of the running session is the last one, written or waiting, and from
\* after the handshake began, as no logout is.
Written(a) == row[a].login > sess[a].since /\ \A i \in 1..Len(queue) : ~LoginOf(a, i)
Coming(a, i) == /\ LoginOf(a, i) /\ queue[i].at > sess[a].since
                /\ \A j \in (i + 1)..Len(queue) : ~LoginOf(a, j)
StampInv ==
    /\ \A a \in Avatars : OutBy(a, clock)
    /\ \A a \in Avatars : sess[a] # None => sess[a].since <= clock /\ OutBy(a, sess[a].since)
    /\ \A a \in Avatars : Playing(a) /\ used.faults = 0 =>
           Written(a) \/ \E i \in 1..Len(queue) : Coming(a, i)

AvatarInv == TypeOK /\ DownInv /\ MoveInv /\ MoveAtomic /\ StampInv

Rows == [credits : 0..MaxCredits, item : SUBSET Places, login : Seconds, logout : Seconds]
Loads == [stage : {"loaded", "in"}, since : Seconds, credits : 0..MaxCredits,
          item : SUBSET Places, seen : 0..WebMax, late : BOOLEAN]

\* What sessions, saves and rows are made of.
LEMMA SessionFacts ==
    ASSUME NEW s \in Sessions
    PROVE  /\ s # None => s.since \in Seconds
           /\ s.stage = "selected" => s # None /\ s \in [stage : {"selected"}, since : Seconds]
           /\ s.stage \in {"loaded", "in"} => s # None /\ s \in Loads
BY DEF Sessions, None, Loads

LEMMA SaveFacts ==
    ASSUME NEW m \in Saves
    PROVE  /\ m.av \in Avatars /\ m.code \in {"login", "logout", "credits", "move"}
           /\ m.code \in {"login", "logout"} => m.at \in Seconds
           /\ m.code = "credits" => m.credits \in 0..MaxCredits
           /\ m.code = "move" => m \in Moves /\ m.from \in Places /\ m.to \in Places
BY DEF Saves, Moves

\* A save waits behind the others, and is taken in turn.
LEMMA Saved ==
    ASSUME TypeOK, NEW m \in Saves, Save(<<m>>)
    PROVE  /\ queue' \in Seq(Saves) /\ Len(queue') = Len(queue) + 1 /\ Len(queue) \in Nat
           /\ queue'[Len(queue) + 1] = m /\ \A i \in 1..Len(queue) : queue'[i] = queue[i]
BY DEF TypeOK, Save

LEMMA NothingSaved ==
    ASSUME TypeOK, Save(<<>>)
    PROVE  queue' = queue
BY DEF TypeOK, Save

LEMMA Taken ==
    ASSUME TypeOK, queue # <<>>, queue' = Tail(queue)
    PROVE  /\ queue' \in Seq(Saves) /\ Len(queue') = Len(queue) - 1 /\ Len(queue) \in Nat /\ Len(queue) >= 1
           /\ Head(queue) = queue[1] /\ Head(queue) \in Saves
           /\ \A i \in 1..(Len(queue) - 1) : queue'[i] = queue[i + 1]
BY DEF TypeOK

\* Every step keeps the types.
LEMMA AvatarTypes ==
    ASSUME TypeOK, Next
    PROVE  TypeOK'
<1>0. /\ MaxCredits \in Nat /\ Horizon \in Nat /\ Horizon # 0 /\ WebMax \in Nat
      /\ Changes \in Nat /\ Crashes \in Nat /\ Faults \in Nat
  BY BoundsAssumption
<1>1. /\ clock \in Seconds /\ row \in [Avatars -> Rows] /\ account \in [login : Seconds, logout : Seconds]
      /\ queue \in Seq(Saves) /\ half \in {None} \cup Moves /\ sess \in [Avatars -> Sessions]
      /\ ticket \in BOOLEAN /\ up \in BOOLEAN /\ web \in [Avatars -> 0..WebMax] /\ torn \subseteq Avatars
      /\ used \in [changes : 0..Changes, crashes : 0..Crashes, faults : 0..Faults]
  BY DEF TypeOK, Rows
<1>2. ASSUME /\ clock' \in Seconds /\ row' \in [Avatars -> Rows]
             /\ account' \in [login : Seconds, logout : Seconds]
             /\ queue' \in Seq(Saves) /\ half' \in {None} \cup Moves /\ sess' \in [Avatars -> Sessions]
             /\ ticket' \in BOOLEAN /\ up' \in BOOLEAN /\ web' \in [Avatars -> 0..WebMax]
             /\ torn' \subseteq Avatars
             /\ used' \in [changes : 0..Changes, crashes : 0..Crashes, faults : 0..Faults]
      PROVE  TypeOK'
  BY <1>2 DEF TypeOK, Rows
<1>3. \A c \in {"login", "logout"}, a \in Avatars : Stamp(c, a) \in Saves
  BY <1>1 DEF Stamp, Saves
<1>4. None \in Sessions
  BY DEF Sessions
<1>5. CASE ProcessTicketInfo
  <2>1. account' \in [login : Seconds, logout : Seconds]
    BY <1>1, <1>5 DEF ProcessTicketInfo
  <2> QED
    BY <1>1, <1>2, <1>5, <2>1 DEF ProcessTicketInfo
<1>6. ASSUME NEW a \in Avatars, Select(a) PROVE TypeOK'
  <2>1. queue' \in Seq(Saves)
    <3>1. Duplicates(a) = <<>> \/ Duplicates(a) = <<Stamp("logout", a)>>
      BY DEF Duplicates
    <3>2. Stamp("logout", a) \in Saves
      BY <1>3
    <3> HIDE DEF Stamp
    <3> QED
      BY <1>1, <1>6, <3>1, <3>2, Saved, NothingSaved DEF Select
  <2>2. [stage |-> "selected", since |-> clock] \in Sessions
    BY <1>1 DEF Sessions
  <2>3. sess' \in [Avatars -> Sessions]
    BY <1>1, <1>6, <2>2 DEF Select
  <2> QED
    BY <1>1, <1>2, <1>6, <2>1, <2>3 DEF Select
<1>7. ASSUME NEW a \in Avatars, FirstLogin(a) PROVE TypeOK'
  <2>1. sess[a].since \in Seconds /\ row[a] \in Rows /\ web[a] \in 0..WebMax
    BY <1>1, <1>7, SessionFacts DEF FirstLogin
  <2> DEFINE s == [stage |-> "loaded", since |-> sess[a].since, credits |-> row[a].credits,
                   item |-> row[a].item, seen |-> web[a], late |-> Unwritten(a)]
  <2>2. s \in Sessions
    <3>1. Unwritten(a) \in BOOLEAN
      BY DEF Unwritten, Pending
    <3>2. s \in Loads
      BY <2>1, <3>1 DEF Loads, Rows
    <3> QED
      BY <3>2 DEF Sessions, Loads
  <2>3. sess' = [sess EXCEPT ![a] = s]
    BY <1>7 DEF FirstLogin
  <2> HIDE DEF s
  <2>4. sess' \in [Avatars -> Sessions]
    BY <1>1, <2>2, <2>3
  <2> QED
    BY <1>1, <1>2, <1>7, <2>4 DEF FirstLogin
<1>8. ASSUME NEW a \in Avatars, CompleteLogin(a) PROVE TypeOK'
  <2>1. queue' \in Seq(Saves)
    <3>1. Stamp("login", a) \in Saves
      BY <1>3
    <3> QED
      BY <1>8, <3>1, Saved DEF CompleteLogin
  <2>2. sess[a] \in Loads
    BY <1>1, <1>8, SessionFacts DEF CompleteLogin
  <2> DEFINE s == [sess[a] EXCEPT !.stage = "in"]
  <2>3. s \in Sessions
    <3>1. s \in Loads
      BY <2>2 DEF Loads
    <3> QED
      BY <3>1 DEF Sessions, Loads
  <2>4. sess' = [sess EXCEPT ![a] = s]
    BY <1>8 DEF CompleteLogin
  <2> HIDE DEF s
  <2>5. sess' \in [Avatars -> Sessions]
    BY <1>1, <2>3, <2>4
  <2> QED
    BY <1>1, <1>2, <1>8, <2>1, <2>5 DEF CompleteLogin
<1>9. ASSUME Spend PROVE used' \in [changes : 0..Changes, crashes : 0..Crashes, faults : 0..Faults]
  <2>1. used.changes + 1 \in 0..Changes
    BY <1>0, <1>1, <1>9 DEF Spend
  <2> QED
    BY <1>1, <1>9, <2>1 DEF Spend
<1>10. ASSUME NEW a \in Avatars, NEW c \in 0..MaxCredits, ChangeCredits(a, c) PROVE TypeOK'
  <2>1. sess[a] \in Loads
    BY <1>1, <1>10, SessionFacts DEF ChangeCredits, Playing
  <2>2. queue' \in Seq(Saves)
    <3>1. [code |-> "credits", av |-> a, credits |-> c, seen |-> sess[a].seen] \in Saves
      BY <2>1 DEF Saves, Loads
    <3> QED
      BY <1>10, <3>1, Saved DEF ChangeCredits
  <2> DEFINE s == [sess[a] EXCEPT !.credits = c]
  <2>3. s \in Sessions
    <3>1. s \in Loads
      BY <2>1 DEF Loads
    <3> QED
      BY <3>1 DEF Sessions, Loads
  <2>4. sess' = [sess EXCEPT ![a] = s]
    BY <1>10 DEF ChangeCredits
  <2> HIDE DEF s
  <2>5. sess' \in [Avatars -> Sessions]
    BY <1>1, <2>3, <2>4
  <2> QED
    BY <1>1, <1>2, <1>9, <1>10, <2>2, <2>5 DEF ChangeCredits
<1>11. ASSUME NEW a \in Avatars, NEW from \in Places, NEW to \in Places, MoveItem(a, from, to) PROVE TypeOK'
  <2>1. sess[a] \in Loads
    BY <1>1, <1>11, SessionFacts DEF MoveItem, Playing
  <2>2. queue' \in Seq(Saves)
    <3>1. [code |-> "move", av |-> a, from |-> from, to |-> to] \in Saves
      BY DEF Saves, Moves
    <3> QED
      BY <1>11, <3>1, Saved DEF MoveItem
  <2> DEFINE s == [sess[a] EXCEPT !.item = (@ \ {from}) \cup {to}]
  <2>3. s \in Sessions
    <3>1. s \in Loads
      BY <2>1 DEF Loads
    <3> QED
      BY <3>1 DEF Sessions, Loads
  <2>4. sess' = [sess EXCEPT ![a] = s]
    BY <1>11 DEF MoveItem
  <2> HIDE DEF s
  <2>5. sess' \in [Avatars -> Sessions]
    BY <1>1, <2>3, <2>4
  <2> QED
    BY <1>1, <1>2, <1>9, <1>11, <2>2, <2>5 DEF MoveItem
<1>12. ASSUME NEW a \in Avatars, DropPlayerFromGalaxy(a) PROVE TypeOK'
  <2>1. queue' \in Seq(Saves)
    <3>1. Stamp("logout", a) \in Saves
      BY <1>3
    <3> QED
      BY <1>12, <3>1, Saved DEF DropPlayerFromGalaxy
  <2>2. sess' \in [Avatars -> Sessions]
    BY <1>1, <1>4, <1>12 DEF DropPlayerFromGalaxy
  <2> QED
    BY <1>1, <1>2, <1>12, <2>1, <2>2 DEF DropPlayerFromGalaxy
<1>13. ASSUME NEW a \in Avatars, WebCredit(a) PROVE TypeOK'
  <2>1. row[a] \in Rows /\ web[a] \in 0..WebMax /\ web[a] < WebMax /\ row[a].credits < MaxCredits
    BY <1>1, <1>13 DEF WebCredit
  <2> DEFINE r == [row[a] EXCEPT !.credits = @ + 1]
  <2>2. r \in Rows /\ web[a] + 1 \in 0..WebMax
    BY <1>0, <2>1 DEF Rows
  <2>3. row' = [row EXCEPT ![a] = r] /\ web' = [web EXCEPT ![a] = web[a] + 1]
    BY <1>13 DEF WebCredit
  <2> HIDE DEF r
  <2>4. row' \in [Avatars -> Rows] /\ web' \in [Avatars -> 0..WebMax]
    BY <1>1, <2>2, <2>3
  <2> QED
    BY <1>1, <1>2, <1>13, <2>4 DEF WebCredit
<1>14. ASSUME Fault PROVE used' \in [changes : 0..Changes, crashes : 0..Crashes, faults : 0..Faults]
  <2>1. used.faults + 1 \in 0..Faults
    BY <1>0, <1>1, <1>14 DEF Fault
  <2> QED
    BY <1>1, <1>14, <2>1 DEF Fault
<1>15. ASSUME Taking, queue' = Tail(queue) PROVE queue' \in Seq(Saves) /\ Head(queue) \in Saves
  BY <1>15, Taken DEF Taking
<1>16. CASE HandleSaveCode
  <2> DEFINE m == Head(queue)
  <2>1. queue' \in Seq(Saves) /\ m \in Saves
    BY <1>15, <1>16 DEF HandleSaveCode, Applied
  <2>2. row' = [row EXCEPT ![m.av] = Handled(row[m.av], m)]
    BY <1>16 DEF HandleSaveCode, Applied
  <2>3. account' = IF m.code = "logout" THEN [account EXCEPT !.logout = m.at] ELSE account
    BY <1>16 DEF HandleSaveCode, Applied
  <2> HIDE DEF m
  <2>4. Handled(row[m.av], m) \in Rows
    <3>1. row[m.av] \in Rows
      BY <1>1, <2>1, SaveFacts
    <3> QED
      BY <2>1, <3>1, SaveFacts DEF Handled, LoggedOut, Credited, Moved, TakeOut, PutIn, Rows
  <2>5. row' \in [Avatars -> Rows]
    BY <1>1, <2>2, <2>4
  <2>6. account' \in [login : Seconds, logout : Seconds]
    BY <1>1, <2>1, <2>3, SaveFacts
  <2> QED
    BY <1>1, <1>2, <1>16, <2>1, <2>5, <2>6 DEF HandleSaveCode, Applied
<1>17. CASE SaveFails
  BY <1>1, <1>2, <1>14, <1>15, <1>17 DEF SaveFails
<1>18. CASE MoveFirstSlot
  <2> DEFINE m == Head(queue)
  <2>1. queue' \in Seq(Saves) /\ m \in Saves /\ m.code = "move"
    BY <1>15, <1>18 DEF MoveFirstSlot
  <2>2. row' = [row EXCEPT ![m.av] = TakeOut(row[m.av], m)] /\ half' = m
    BY <1>18 DEF MoveFirstSlot
  <2> HIDE DEF m
  <2>3. TakeOut(row[m.av], m) \in Rows /\ m \in Moves
    <3>1. row[m.av] \in Rows
      BY <1>1, <2>1, SaveFacts
    <3> QED
      BY <2>1, <3>1, SaveFacts DEF TakeOut, Rows
  <2>4. row' \in [Avatars -> Rows]
    BY <1>1, <2>2, <2>3
  <2> QED
    BY <1>1, <1>2, <1>14, <1>18, <2>1, <2>2, <2>3, <2>4 DEF MoveFirstSlot
<1>19. CASE MoveSecondSlot
  <2>1. half \in Moves /\ half.av \in Avatars /\ half.to \in Places
    BY <1>1, <1>19 DEF MoveSecondSlot, Moves
  <2>2. PutIn(row[half.av], half) \in Rows
    BY <1>1, <2>1, ZenonT(40) DEF PutIn, Rows
  <2>3. row' = [row EXCEPT ![half.av] = PutIn(row[half.av], half)]
    BY <1>19 DEF MoveSecondSlot
  <2>4. row' \in [Avatars -> Rows]
    BY <1>1, <2>2, <2>3
  <2> QED
    BY <1>1, <1>2, <1>19, <2>4 DEF MoveSecondSlot
<1>20. CASE Crash
  <2>1. used.crashes + 1 \in 0..Crashes
    BY <1>0, <1>1, <1>20 DEF Crash
  <2>2. used' \in [changes : 0..Changes, crashes : 0..Crashes, faults : 0..Faults]
    BY <1>1, <1>20, <2>1 DEF Crash
  <2>3. sess' \in [Avatars -> Sessions] /\ queue' \in Seq(Saves)
    BY <1>4, <1>20 DEF Crash
  <2>4. torn' \subseteq Avatars
    BY <1>1, <1>20 DEF Crash, Moves
  <2> QED
    BY <1>1, <1>2, <1>20, <2>2, <2>3, <2>4 DEF Crash
<1>21. CASE Boot
  <2>1. \A r \in Rows : Swept(r) \in Rows
    BY <1>1 DEF Swept, Rows
  <2>2. row' \in [Avatars -> Rows]
    BY <1>1, <1>21, <2>1 DEF Boot
  <2>3. account' \in [login : Seconds, logout : Seconds]
    BY <1>1, <1>21 DEF Boot
  <2> QED
    BY <1>1, <1>2, <1>21, <2>2, <2>3 DEF Boot
<1>22. CASE Tick
  <2>1. clock' \in Seconds
    BY <1>0, <1>1, <1>22 DEF Tick, Seconds
  <2> QED
    BY <1>1, <1>2, <1>22, <2>1 DEF Tick
<1> QED
  BY <1>5, <1>6, <1>7, <1>8, <1>10, <1>11, <1>12, <1>13, <1>16, <1>17, <1>18, <1>19, <1>20, <1>21, <1>22 DEF Next

\* A server that is down starts nothing but itself.
LEMMA DownStep ==
    ASSUME TypeOK, DownInv, Next
    PROVE  DownInv'
<1>1. CASE up'
  BY <1>1 DEF DownInv
<1>2. CASE ~up'
  <2>1. CASE Crash
    BY <2>1 DEF Crash, DownInv
  <2>2. CASE ~Crash
    <3>1. ~up
      BY <1>2, <2>2 DEF Next, ProcessTicketInfo, Select, FirstLogin, CompleteLogin, ChangeCredits, MoveItem,
         DropPlayerFromGalaxy, WebCredit, HandleSaveCode, Applied, SaveFails, MoveFirstSlot, MoveSecondSlot, Boot, Tick
    <3>2. queue = <<>> /\ half = None /\ \A a \in Avatars : sess[a] = None /\ sess[a].stage = "none"
      BY <3>1 DEF DownInv, None
    <3>3. Tick \/ \E a \in Avatars : WebCredit(a)
      BY <1>2, <2>2, <3>1, <3>2 DEF Next, ProcessTicketInfo, Select, FirstLogin, CompleteLogin, ChangeCredits,
         MoveItem, Playing, DropPlayerFromGalaxy, HandleSaveCode, Applied, SaveFails, MoveFirstSlot, MoveSecondSlot,
         Boot, Taking
    <3> QED
      BY <3>2, <3>3 DEF Tick, WebCredit, DownInv
  <2> QED
    BY <2>1, <2>2
<1> QED
  BY <1>1, <1>2

\* The steps by what they do to the queue: nothing, one save more, one save fewer,
\* all gone.
LEMMA QueueSteps ==
    ASSUME TypeOK, Next
    PROVE  \/ queue' = queue
           \/ Crash
           \/ \E m \in Saves :
                 /\ Save(<<m>>)
                 /\ m.code = "move" => m.from # m.to
                 /\ m.code = "login" => CompleteLogin(m.av) /\ m.at = clock
                 /\ m.code = "logout" => m.at = clock /\ (Select(m.av) \/ DropPlayerFromGalaxy(m.av))
           \/ /\ queue # <<>> /\ queue' = Tail(queue)
              /\ HandleSaveCode \/ SaveFails \/ MoveFirstSlot
<1>0. clock \in Seconds
  BY DEF TypeOK
<1>1. ASSUME NEW a \in Avatars, NEW c \in {"login", "logout"}
      PROVE  /\ Stamp(c, a) \in Saves /\ Stamp(c, a).code = c /\ Stamp(c, a).av = a /\ Stamp(c, a).at = clock
  BY <1>0 DEF Stamp, Saves
<1>2. ASSUME NEW a \in Avatars, Select(a), queue' # queue
      PROVE  Save(<<Stamp("logout", a)>>)
  BY <1>2, NothingSaved DEF Select, Duplicates
<1>3. ASSUME NEW a \in Avatars, NEW c \in 0..MaxCredits, ChangeCredits(a, c)
      PROVE  \E m \in Saves : m.code = "credits" /\ Save(<<m>>)
  <2>1. sess[a] \in Loads
    BY <1>3, SessionFacts DEF ChangeCredits, Playing, TypeOK
  <2> DEFINE m == [code |-> "credits", av |-> a, credits |-> c, seen |-> sess[a].seen]
  <2>2. m \in Saves /\ m.code = "credits"
    BY <2>1 DEF Saves, Loads
  <2>3. Save(<<m>>)
    BY <1>3 DEF ChangeCredits
  <2> HIDE DEF m
  <2> QED
    BY <2>2, <2>3
<1>4. ASSUME NEW a \in Avatars, NEW from \in Places, NEW to \in Places, MoveItem(a, from, to)
      PROVE  \E m \in Saves : m.code = "move" /\ m.from # m.to /\ Save(<<m>>)
  <2> DEFINE m == [code |-> "move", av |-> a, from |-> from, to |-> to]
  <2>1. m \in Saves /\ m.code = "move" /\ m.from # m.to
    BY <1>4 DEF Saves, Moves, MoveItem
  <2>2. Save(<<m>>)
    BY <1>4 DEF MoveItem
  <2> HIDE DEF m
  <2> QED
    BY <2>1, <2>2
<1>5. ASSUME NEW a \in Avatars, Select(a)
      PROVE  queue' = queue \/ \E m \in Saves : /\ Save(<<m>>) /\ m.code = "logout" /\ m.at = clock
                                                /\ Select(m.av)
  BY <1>1, <1>2, <1>5
<1>6. ASSUME NEW a \in Avatars, DropPlayerFromGalaxy(a)
      PROVE  \E m \in Saves : /\ Save(<<m>>) /\ m.code = "logout" /\ m.at = clock
                              /\ DropPlayerFromGalaxy(m.av)
  <2>1. Save(<<Stamp("logout", a)>>)
    BY <1>6 DEF DropPlayerFromGalaxy
  <2> QED
    BY <1>1, <1>6, <2>1
<1>7. ASSUME NEW a \in Avatars, CompleteLogin(a)
      PROVE  \E m \in Saves : /\ Save(<<m>>) /\ m.code = "login" /\ m.at = clock /\ CompleteLogin(m.av)
  <2>1. Save(<<Stamp("login", a)>>)
    BY <1>7 DEF CompleteLogin
  <2> QED
    BY <1>1, <1>7, <2>1
<1>8. CASE ProcessTicketInfo \/ MoveSecondSlot \/ Boot \/ Tick \/ Crash
  BY <1>8 DEF ProcessTicketInfo, MoveSecondSlot, Boot, Tick, Crash
<1>9. ASSUME NEW a \in Avatars, FirstLogin(a) \/ WebCredit(a) PROVE queue' = queue
  BY <1>9 DEF FirstLogin, WebCredit
<1>10. CASE HandleSaveCode \/ SaveFails \/ MoveFirstSlot
  BY <1>10 DEF HandleSaveCode, Applied, SaveFails, MoveFirstSlot, Taking
<1> QED
  BY <1>3, <1>4, <1>5, <1>6, <1>7, <1>8, <1>9, <1>10 DEF Next

\* Nobody but the save thread moves an item in the tables.
LEMMA ItemSteps ==
    ASSUME TypeOK, DownInv, Next
    PROVE  \/ HandleSaveCode \/ MoveFirstSlot \/ MoveSecondSlot
           \/ /\ \A a \in Avatars : row'[a].item = row[a].item
              /\ \/ half' = half /\ torn' = torn
                 \/ half' = None /\ torn' = (IF half = None THEN torn ELSE torn \cup {half.av})
<1>1. ASSUME NEW b \in Avatars, WebCredit(b) PROVE \A a \in Avatars : row'[a].item = row[a].item
  BY <1>1 DEF WebCredit, TypeOK
<1>2. CASE Boot
  BY <1>2 DEF Boot, Swept, TypeOK
<1>3. CASE Crash
  BY <1>3 DEF Crash
<1>4. CASE ~HandleSaveCode /\ ~MoveFirstSlot /\ ~MoveSecondSlot /\ ~Crash
  <2>1. half' = half /\ torn' = torn
    BY <1>4 DEF Next, ProcessTicketInfo, Select, FirstLogin, CompleteLogin, ChangeCredits, MoveItem,
       DropPlayerFromGalaxy, WebCredit, SaveFails, Boot, Tick
  <2>2. row' = row \/ Boot \/ \E b \in Avatars : WebCredit(b)
    BY <1>4 DEF Next, ProcessTicketInfo, Select, FirstLogin, CompleteLogin, ChangeCredits, MoveItem,
       DropPlayerFromGalaxy, SaveFails, Tick
  <2> QED
    BY <1>1, <1>2, <2>1, <2>2
<1> QED
  BY <1>3, <1>4

\* A move takes the item from one place to the other.
LEMMA MoveStep ==
    ASSUME TypeOK, TypeOK', DownInv, MoveInv, MoveAtomic, Next
    PROVE  MoveInv' /\ MoveAtomic'
<1>1. \A i \in 1..Len(queue') : queue'[i].code = "move" => queue'[i].from # queue'[i].to
  <2>1. CASE queue' = queue
    BY <2>1 DEF MoveInv
  <2>2. CASE Crash
    BY <2>2 DEF Crash
  <2>3. ASSUME NEW m \in Saves, Save(<<m>>), m.code = "move" => m.from # m.to
        PROVE  \A i \in 1..Len(queue') : queue'[i].code = "move" => queue'[i].from # queue'[i].to
    <3>1. \A i \in 1..Len(queue') : i \in 1..Len(queue) \/ i = Len(queue) + 1
      BY <2>3, Saved
    <3> QED
      BY <2>3, <3>1, Saved DEF MoveInv
  <2>4. CASE queue # <<>> /\ queue' = Tail(queue)
    <3>1. \A i \in 1..Len(queue') : i + 1 \in 1..Len(queue) /\ queue'[i] = queue[i + 1]
      BY <2>4, Taken
    <3> QED
      BY <3>1 DEF MoveInv
  <2> QED
    BY <2>1, <2>2, <2>3, <2>4, QueueSteps
<1>2. ASSUME NEW m \in Saves, m.code = "move", m.from # m.to
      PROVE  /\ m.av \in Avatars /\ Places = {m.from, m.to}
             /\ \A r \in Rows : /\ TakeOut(r, m).item \subseteq {m.to}
                                /\ Moved(r, m).item = {m.to}
  <2>1. m.from \in Places /\ m.to \in Places /\ m.av \in Avatars
    BY <1>2, SaveFacts
  <2>2. Places = {m.from, m.to}
    BY <1>2, <2>1 DEF Places
  <2>3. \A r \in Rows : /\ TakeOut(r, m).item = r.item \ {m.from}
                        /\ Moved(r, m).item = (r.item \ {m.from}) \cup {m.to}
                        /\ r.item \subseteq Places
    BY DEF TakeOut, Moved, PutIn, Rows
  <2> QED
    BY <2>1, <2>2, <2>3
<1>3. row \in [Avatars -> Rows] /\ half \in {None} \cup Moves
  BY DEF TypeOK, Rows
<1>4. \A x : Cardinality({x}) = 1
  BY FS_Singleton
<1>5. CASE HandleSaveCode
  <2>1. PICK m \in Saves : m = queue[1] /\ m = Head(queue) /\ 1 \in 1..Len(queue)
    BY <1>5, Taken DEF HandleSaveCode, Applied, Taking
  <2>2. /\ row' = [row EXCEPT ![m.av] = Handled(row[m.av], m)] /\ half = None
        /\ half' = None /\ torn' = torn
    BY <1>5, <2>1 DEF HandleSaveCode, Applied, Taking
  <2>3. m.av \in Avatars /\ row[m.av] \in Rows
    BY <1>3, <2>1, SaveFacts
  <2>4. CASE m.code = "move"
    <3>1. m.from # m.to
      BY <2>1, <2>4 DEF MoveInv
    <3>2. Handled(row[m.av], m).item = {m.to}
      BY <1>2, <2>3, <2>4, <3>1 DEF Handled
    <3>3. \A a \in Avatars : row'[a].item = row[a].item \/ row'[a].item = {m.to}
      BY <1>3, <2>2, <3>2
    <3> QED
      BY <1>1, <1>4, <2>2, <3>3, ZenonT(40) DEF MoveInv, MoveAtomic
  <2>5. CASE m.code # "move"
    <3>1. Handled(row[m.av], m).item = row[m.av].item
      BY <2>1, <2>3, <2>5, SaveFacts DEF Handled, LoggedOut, Credited, Rows
    <3>2. \A a \in Avatars : row'[a].item = row[a].item
      BY <1>3, <2>2, <3>1
    <3> QED
      BY <1>1, <2>2, <3>2 DEF MoveInv, MoveAtomic
  <2> QED
    BY <2>4, <2>5
<1>6. CASE MoveFirstSlot
  <2>1. PICK m \in Saves : m = queue[1] /\ m = Head(queue) /\ 1 \in 1..Len(queue)
    BY <1>6, Taken DEF MoveFirstSlot, Taking
  <2>2. /\ row' = [row EXCEPT ![m.av] = TakeOut(row[m.av], m)] /\ half = None /\ half' = m /\ torn' = torn
        /\ m.code = "move"
    BY <1>6, <2>1 DEF MoveFirstSlot, Taking
  <2>3. m.from # m.to /\ m.av \in Avatars /\ TakeOut(row[m.av], m).item \subseteq {m.to} /\ m # None
    <3>1. m.from # m.to
      BY <2>1, <2>2 DEF MoveInv
    <3>2. m.av \in Avatars /\ \A r \in Rows : TakeOut(r, m).item \subseteq {m.to}
      BY <1>2, <2>2, <3>1
    <3>3. m # None
      BY <2>1, <2>2, SaveFacts DEF Moves, None
    <3> QED
      BY <1>3, <3>1, <3>2, <3>3
  <2>4. row'[m.av].item \subseteq {m.to} /\ \A a \in Avatars : a # m.av => row'[a] = row[a]
    BY <1>3, <2>2, <2>3
  <2> QED
    BY <1>1, <2>2, <2>3, <2>4 DEF MoveInv, MoveAtomic
<1>7. CASE MoveSecondSlot
  <2>1. /\ half \in Moves /\ half.av \in Avatars /\ row[half.av] \in Rows
        /\ row' = [row EXCEPT ![half.av] = PutIn(row[half.av], half)] /\ half # None /\ half' = None
        /\ torn' = torn
    BY <1>3, <1>7 DEF MoveSecondSlot, Moves
  <2>2. PutIn(row[half.av], half).item = {half.to}
    BY <2>1 DEF PutIn, Rows, MoveInv
  <2>3. row'[half.av].item = {half.to} /\ \A a \in Avatars : a # half.av => row'[a] = row[a]
    BY <1>3, <2>1, <2>2
  <2>4. Cardinality(row'[half.av].item) = 1
    BY <1>4, <2>3
  <2>5. ASSUME NEW a \in Avatars \ torn' PROVE Cardinality(row'[a].item) = 1
    <3>1. CASE a = half.av
      BY <2>4, <3>1
    <3>2. CASE a # half.av
      <4>1. Cardinality(row[a].item) = 1
        BY <2>1, <2>5, <3>2 DEF MoveAtomic
      <4> QED
        BY <2>3, <3>2, <4>1
    <3> QED
      BY <3>1, <3>2
  <2> QED
    BY <1>1, <2>1, <2>5 DEF MoveInv, MoveAtomic
<1>8. CASE /\ \A a \in Avatars : row'[a].item = row[a].item
           /\ \/ half' = half /\ torn' = torn
              \/ half' = None /\ torn' = (IF half = None THEN torn ELSE torn \cup {half.av})
  <2>1. half # None => half.av \in Avatars
    BY <1>3 DEF Moves
  <2> QED
    BY <1>1, <1>8, <2>1 DEF MoveInv, MoveAtomic
<1> QED
  BY <1>5, <1>6, <1>7, <1>8, ItemSteps

\* The stamps of an avatar change only by a save of its own, or when the server
\* starts.
LEMMA StampSteps ==
    ASSUME TypeOK, Next, NEW a \in Avatars
    PROVE  /\ \/ row'[a].logout = row[a].logout
              \/ Boot /\ row'[a].logout = clock
              \/ HandleSaveCode /\ LogoutOf(a, 1) /\ row'[a].logout = queue[1].at
           /\ IF HandleSaveCode /\ LoginOf(a, 1) THEN row'[a].login = queue[1].at
              ELSE row'[a].login = row[a].login
<1>1. row \in [Avatars -> Rows]
  BY DEF TypeOK, Rows
<1>2. CASE HandleSaveCode
  <2>1. PICK m \in Saves : m = queue[1] /\ m = Head(queue)
    BY <1>2, Taken DEF HandleSaveCode, Applied, Taking
  <2>2. row' = [row EXCEPT ![m.av] = Handled(row[m.av], m)]
    BY <1>2, <2>1 DEF HandleSaveCode, Applied
  <2>3. CASE m.av = a
    <3>1. row'[a] = Handled(row[a], m) /\ row[a] \in Rows
      BY <1>1, <2>2, <2>3
    <3>2. /\ m.code = "login" => row'[a].login = m.at /\ row'[a].logout = row[a].logout
          /\ m.code = "logout" => row'[a].logout = m.at /\ row'[a].login = row[a].login
          /\ m.code \in {"credits", "move"} => row'[a].login = row[a].login /\ row'[a].logout = row[a].logout
      BY <3>1 DEF Handled, LoggedOut, Credited, Moved, TakeOut, PutIn, Rows
    <3> QED
      BY <1>2, <2>1, <2>3, <3>2, SaveFacts DEF LoginOf, LogoutOf
  <2>4. CASE m.av # a
    <3>1. row'[a] = row[a]
      BY <1>1, <2>2, <2>4
    <3> QED
      BY <2>1, <2>4, <3>1 DEF LoginOf
  <2> QED
    BY <2>3, <2>4
<1>3. CASE ~HandleSaveCode
  <2>1. ASSUME NEW b \in Avatars, WebCredit(b) PROVE row'[a].login = row[a].login /\ row'[a].logout = row[a].logout
    BY <1>1, <2>1 DEF WebCredit, Rows
  <2>2. CASE Boot
    <3>1. row'[a] = Swept(row[a]) /\ row[a] \in Rows
      BY <1>1, <2>2 DEF Boot
    <3> QED
      BY <1>3, <2>2, <3>1 DEF Swept, Rows
  <2>3. CASE MoveFirstSlot
    <3>1. PICK m \in Saves : m = Head(queue) /\ row' = [row EXCEPT ![m.av] = TakeOut(row[m.av], m)]
      BY <2>3, Taken DEF MoveFirstSlot, Taking
    <3>2. row'[a] = row[a] \/ row'[a] = TakeOut(row[a], m)
      BY <1>1, <3>1
    <3> QED
      BY <1>1, <1>3, <3>2 DEF TakeOut, Rows
  <2>4. CASE MoveSecondSlot
    <3>1. row'[a] = row[a] \/ row'[a] = PutIn(row[a], half)
      BY <1>1, <2>4 DEF MoveSecondSlot
    <3> QED
      BY <1>1, <1>3, <3>1 DEF PutIn, Rows
  <2>5. row' = row \/ MoveFirstSlot \/ MoveSecondSlot \/ Boot \/ \E b \in Avatars : WebCredit(b)
    BY <1>3 DEF Next, ProcessTicketInfo, Select, FirstLogin, CompleteLogin, ChangeCredits, MoveItem,
       DropPlayerFromGalaxy, SaveFails, Tick, Crash
  <2> QED
    BY <1>3, <2>1, <2>2, <2>3, <2>4, <2>5
<1> QED
  BY <1>2, <1>3

\* A session begins with the selection and keeps its time until it ends.
LEMMA SessionSteps ==
    ASSUME TypeOK, DownInv, Next, NEW a \in Avatars, sess'[a] # None
    PROVE  \/ Select(a) /\ sess'[a].since = clock /\ ~Playing(a)'
           \/ /\ sess[a] # None /\ sess'[a].since = sess[a].since
              /\ ~Boot /\ ~DropPlayerFromGalaxy(a) /\ ~Select(a)
              /\ Playing(a)' => Playing(a) \/ CompleteLogin(a)
<1>1. sess \in [Avatars -> Sessions]
  BY DEF TypeOK
<1>2. ~Crash /\ ~Boot
  BY <1>1 DEF Crash, Boot, DownInv
<1>3. ASSUME NEW b \in Avatars, Select(b) PROVE IF b = a THEN sess'[a] = [stage |-> "selected", since |-> clock]
                                               ELSE sess'[a] = sess[a]
  BY <1>1, <1>3 DEF Select
<1>4. ASSUME NEW b \in Avatars, DropPlayerFromGalaxy(b) PROVE b # a /\ sess'[a] = sess[a]
  BY <1>1, <1>4 DEF DropPlayerFromGalaxy
<1>5. ASSUME NEW b \in Avatars, FirstLogin(b)
      PROVE  IF b = a THEN sess[a].stage = "selected" /\ sess'[a].stage = "loaded" /\ sess'[a].since = sess[a].since
             ELSE sess'[a] = sess[a]
  BY <1>1, <1>5 DEF FirstLogin
<1>6. ASSUME NEW b \in Avatars, NEW c \in 0..MaxCredits, ChangeCredits(b, c)
      PROVE  IF b = a THEN sess[a].stage = "in" /\ sess'[a].since = sess[a].since ELSE sess'[a] = sess[a]
  <2>1. b = a => sess[a] \in Loads
    BY <1>1, <1>6, SessionFacts DEF ChangeCredits, Playing
  <2> QED
    BY <1>1, <1>6, <2>1 DEF ChangeCredits, Playing, Loads
<1>7. ASSUME NEW b \in Avatars, NEW f \in Places, NEW t \in Places, MoveItem(b, f, t)
      PROVE  IF b = a THEN sess[a].stage = "in" /\ sess'[a].since = sess[a].since ELSE sess'[a] = sess[a]
  <2>1. b = a => sess[a] \in Loads
    BY <1>1, <1>7, SessionFacts DEF MoveItem, Playing
  <2> QED
    BY <1>1, <1>7, <2>1 DEF MoveItem, Playing, Loads
<1>8. ASSUME NEW b \in Avatars, CompleteLogin(b)
      PROVE  IF b = a THEN sess[a].stage = "loaded" /\ sess'[a].since = sess[a].since ELSE sess'[a] = sess[a]
  <2>1. b = a => sess[a] \in Loads
    BY <1>1, <1>8, SessionFacts DEF CompleteLogin
  <2> QED
    BY <1>1, <1>8, <2>1 DEF CompleteLogin, Loads
<1>9. \A s \in Sessions : s.stage \in {"selected", "loaded", "in"} => s # None
  BY SessionFacts
<1>10. CASE Select(a)
  BY <1>3, <1>10 DEF Playing
<1>11. CASE ~Select(a)
  <2>1. ~DropPlayerFromGalaxy(a)
    BY <1>4
  <2>2. \/ sess'[a] = sess[a]
        \/ /\ sess[a].stage \in {"selected", "loaded", "in"} /\ sess'[a].since = sess[a].since
           /\ \/ sess'[a].stage = "loaded" \/ sess[a].stage = "in" \/ CompleteLogin(a)
    <3>1. CASE UNCHANGED sess
      BY <3>1
    <3> QED
      BY <1>2, <1>3, <1>4, <1>5, <1>6, <1>7, <1>8, <1>11, <3>1 DEF Next, ProcessTicketInfo, WebCredit,
         HandleSaveCode, Applied, SaveFails, MoveFirstSlot, MoveSecondSlot, Tick
  <2> QED
    BY <1>1, <1>2, <1>9, <1>11, <2>1, <2>2 DEF Playing
<1> QED
  BY <1>10, <1>11

\* A logout that is written was waiting; a new one is from now.
LEMMA OutStep ==
    ASSUME TypeOK, Next, NEW a \in Avatars, NEW t \in Nat, OutBy(a, t),
           clock <= t \/ (~Boot /\ ~Select(a) /\ ~DropPlayerFromGalaxy(a))
    PROVE  OutBy(a, t)'
<1>1. row'[a].logout <= t
  <2>1. CASE HandleSaveCode /\ LogoutOf(a, 1) /\ row'[a].logout = queue[1].at
    <3>1. 1 \in 1..Len(queue)
      BY <2>1, Taken DEF HandleSaveCode, Applied, Taking
    <3> QED
      BY <2>1, <3>1 DEF OutBy
  <2> QED
    BY <2>1, StampSteps DEF OutBy
<1>2. ASSUME NEW i \in 1..Len(queue'), LogoutOf(a, i)' PROVE queue'[i].at <= t
  <2>1. CASE queue' = queue
    BY <1>2, <2>1 DEF OutBy, LogoutOf
  <2>2. CASE Crash
    BY <1>2, <2>2 DEF Crash
  <2>3. ASSUME NEW m \in Saves, Save(<<m>>),
               m.code = "logout" => m.at = clock /\ (Select(m.av) \/ DropPlayerFromGalaxy(m.av))
        PROVE  queue'[i].at <= t
    <3>1. CASE i \in 1..Len(queue)
      BY <1>2, <2>3, <3>1, Saved DEF OutBy, LogoutOf
    <3>2. CASE i = Len(queue) + 1
      <4>1. queue'[i] = m
        BY <2>3, <3>2, Saved
      <4>2. m.code = "logout" /\ m.av = a
        BY <1>2, <4>1 DEF LogoutOf
      <4> QED
        BY <2>3, <4>1, <4>2
    <3> QED
      BY <2>3, <3>1, <3>2, Saved
  <2>4. CASE queue # <<>> /\ queue' = Tail(queue)
    <3>1. i + 1 \in 1..Len(queue) /\ queue'[i] = queue[i + 1]
      BY <2>4, Taken
    <3> QED
      BY <1>2, <3>1 DEF OutBy, LogoutOf
  <2> QED
    BY <2>1, <2>2, <2>3, <2>4, QueueSteps
<1> QED
  BY <1>1, <1>2 DEF OutBy

\* The login of a session that is played is written or on its way.
LEMMA LoginStep ==
    ASSUME TypeOK, Next, NEW a \in Avatars, Written(a) \/ \E i \in 1..Len(queue) : Coming(a, i),
           sess'[a].since = sess[a].since, ~Crash, ~CompleteLogin(a), ~SaveFails, ~MoveFirstSlot
    PROVE  (Written(a) \/ \E i \in 1..Len(queue) : Coming(a, i))'
<1>1. CASE HandleSaveCode
  <2>1. /\ Len(queue) \in Nat /\ Len(queue) >= 1 /\ Len(queue') = Len(queue) - 1
        /\ \A i \in 1..Len(queue') : i + 1 \in 1..Len(queue) /\ queue'[i] = queue[i + 1]
    BY <1>1, Taken DEF HandleSaveCode, Applied, Taking
  <2>2. \A i \in 1..Len(queue') : LoginOf(a, i)' <=> LoginOf(a, i + 1)
    BY <2>1 DEF LoginOf
  <2>3. CASE Written(a)
    <3>1. ~LoginOf(a, 1) /\ \A i \in 1..Len(queue') : ~LoginOf(a, i)'
      BY <2>1, <2>2, <2>3 DEF Written
    <3>2. row'[a].login = row[a].login
      BY <3>1, StampSteps
    <3> QED
      BY <2>3, <3>1, <3>2 DEF Written
  <2>4. ASSUME NEW i \in 1..Len(queue), Coming(a, i)
        PROVE  (Written(a) \/ \E k \in 1..Len(queue) : Coming(a, k))'
    <3>1. CASE i = 1
      <4>1. row'[a].login > sess'[a].since
        BY <1>1, <2>4, <3>1, StampSteps DEF Coming
      <4>2. \A j \in 1..Len(queue') : ~LoginOf(a, j)'
        <5>1. \A j \in 1..Len(queue') : j + 1 \in (i + 1)..Len(queue)
          BY <2>1, <3>1
        <5> QED
          BY <2>2, <2>4, <5>1 DEF Coming
      <4> QED
        BY <4>1, <4>2 DEF Written
    <3>2. CASE i # 1
      <4>1. PICK k \in 1..Len(queue') : k + 1 = i
        <5>1. i - 1 \in 1..Len(queue') /\ (i - 1) + 1 = i
          BY <2>1, <3>2
        <5> QED
          BY <5>1
      <4>2. LoginOf(a, k)' /\ queue'[k].at > sess'[a].since
        BY <2>1, <2>2, <2>4, <4>1 DEF Coming
      <4>3. \A j \in (k + 1)..Len(queue') : ~LoginOf(a, j)'
        <5>1. \A j \in (k + 1)..Len(queue') : j \in 1..Len(queue') /\ j + 1 \in (i + 1)..Len(queue)
          BY <2>1, <4>1
        <5> QED
          BY <2>2, <2>4, <5>1 DEF Coming
      <4>4. Coming(a, k)'
        BY <4>2, <4>3 DEF Coming
      <4> QED
        BY <4>4
    <3> QED
      BY <3>1, <3>2
  <2> QED
    BY <2>3, <2>4
<1>2. CASE ~HandleSaveCode
  <2>1. row'[a].login = row[a].login
    BY <1>2, StampSteps
  <2>2. CASE queue' = queue
    BY <2>1, <2>2 DEF Written, Coming, LoginOf
  <2>3. ASSUME NEW m \in Saves, Save(<<m>>), m.code = "login" => CompleteLogin(m.av)
        PROVE  (Written(a) \/ \E i \in 1..Len(queue) : Coming(a, i))'
    <3>1. /\ Len(queue) \in Nat /\ Len(queue') = Len(queue) + 1 /\ queue'[Len(queue) + 1] = m
          /\ \A i \in 1..Len(queue) : i \in 1..Len(queue') /\ queue'[i] = queue[i]
          /\ \A i \in 1..Len(queue') : i \in 1..Len(queue) \/ i = Len(queue) + 1
      BY <2>3, Saved
    <3>2. ~(m.code = "login" /\ m.av = a)
      BY <2>3
    <3>3. \A i \in 1..Len(queue) : LoginOf(a, i)' <=> LoginOf(a, i)
      BY <3>1 DEF LoginOf
    <3>4. ASSUME NEW i \in 1..Len(queue'), i = Len(queue) + 1 PROVE ~LoginOf(a, i)'
      BY <3>1, <3>2, <3>4 DEF LoginOf
    <3>5. CASE Written(a)
      BY <2>1, <3>1, <3>3, <3>4, <3>5 DEF Written
    <3>6. ASSUME NEW i \in 1..Len(queue), Coming(a, i) PROVE Coming(a, i)'
      <4>1. \A j \in (i + 1)..Len(queue') : j \in 1..Len(queue') /\ (j \in (i + 1)..Len(queue) \/ j = Len(queue) + 1)
        BY <3>1
      <4>2. \A j \in (i + 1)..Len(queue) : j \in 1..Len(queue)
        BY <3>1
      <4> QED
        BY <3>1, <3>3, <3>4, <3>6, <4>1, <4>2 DEF Coming
    <3> QED
      BY <3>1, <3>5, <3>6
  <2> QED
    BY <1>2, <2>2, <2>3, QueueSteps
<1> QED
  BY <1>1, <1>2

\* The stamps keep the order of the events they record.
LEMMA StampStep ==
    ASSUME TypeOK, TypeOK', DownInv, StampInv, Next
    PROVE  StampInv'
<1>1. clock \in Nat /\ clock' \in Nat /\ clock <= clock'
  <2>1. clock \in Nat /\ clock' \in Nat
    BY BoundsAssumption DEF TypeOK, Seconds
  <2>2. clock' = clock \/ clock' = clock + 1
    BY DEF Next, ProcessTicketInfo, Select, FirstLogin, CompleteLogin, ChangeCredits, MoveItem,
       DropPlayerFromGalaxy, WebCredit, HandleSaveCode, Applied, SaveFails, MoveFirstSlot, MoveSecondSlot, Crash,
       Boot, Tick
  <2> QED
    BY <2>1, <2>2
<1>2. ASSUME NEW a \in Avatars PROVE OutBy(a, clock)'
  <2>1. PICK t \in Nat : t = clock
    BY <1>1
  <2>2. OutBy(a, t)'
    BY <2>1, OutStep DEF StampInv
  <2>3. row'[a].logout \in Nat /\ \A i \in 1..Len(queue') : LogoutOf(a, i)' => queue'[i].at \in Nat
    <3>1. row'[a].logout \in Seconds
      BY DEF TypeOK
    <3>2. \A i \in 1..Len(queue') : queue'[i] \in Saves
      BY DEF TypeOK
    <3>3. \A i \in 1..Len(queue') : LogoutOf(a, i)' => queue'[i].at \in Seconds
      BY <3>2, SaveFacts DEF LogoutOf
    <3> QED
      BY <3>1, <3>3, BoundsAssumption DEF Seconds
  <2>4. \A x \in Nat : x <= t => x <= clock'
    BY <1>1, <2>1
  <2> QED
    BY <2>2, <2>3, <2>4 DEF OutBy
<1>3. ASSUME NEW a \in Avatars, sess'[a] # None
      PROVE  sess'[a].since <= clock' /\ OutBy(a, sess[a].since)'
  <2>1. sess'[a] \in Sessions
    BY DEF TypeOK
  <2>2. PICK t \in Nat : t = sess'[a].since
    BY <1>3, <2>1, SessionFacts, BoundsAssumption DEF Seconds
  <2>3. CASE Select(a) /\ t = clock
    <3>1. OutBy(a, t)'
      BY <2>3, <1>1, OutStep DEF StampInv
    <3> QED
      BY <1>1, <2>2, <2>3, <3>1 DEF OutBy
  <2>4. CASE sess[a] # None /\ t = sess[a].since /\ ~Boot /\ ~DropPlayerFromGalaxy(a) /\ ~Select(a)
    <3>1. OutBy(a, t) /\ t <= clock
      BY <2>4 DEF StampInv
    <3>2. OutBy(a, t)' /\ t <= clock'
      BY <1>1, <2>4, <3>1, OutStep
    <3> QED
      BY <2>2, <3>2 DEF OutBy
  <2> QED
    BY <1>3, <2>2, <2>3, <2>4, SessionSteps
<1>4. ASSUME NEW a \in Avatars, Playing(a)', used'.faults = 0
      PROVE  (Written(a) \/ \E i \in 1..Len(queue) : Coming(a, i))'
  <2>1. sess'[a] # None
    BY <1>4 DEF Playing, None
  <2>2. used.faults = 0 /\ ~SaveFails /\ ~MoveFirstSlot
    <3>1. used.faults \in Nat /\ used \in [changes : 0..Changes, crashes : 0..Crashes, faults : 0..Faults]
      BY BoundsAssumption DEF TypeOK
    <3>2. ~Fault
      BY <1>4, <3>1 DEF Fault
    <3>3. used'.faults = used.faults \/ Fault
      BY <3>1 DEF Next, ProcessTicketInfo, Select, FirstLogin, CompleteLogin, ChangeCredits, MoveItem, Spend,
         DropPlayerFromGalaxy, WebCredit, HandleSaveCode, Applied, SaveFails, MoveFirstSlot, MoveSecondSlot, Crash,
         Boot, Tick
    <3> QED
      BY <1>4, <3>2, <3>3 DEF SaveFails, MoveFirstSlot
  <2>3. /\ sess[a] # None /\ sess'[a].since = sess[a].since /\ ~Crash
        /\ Playing(a) \/ CompleteLogin(a)
    <3>1. ~Crash
      BY <2>1 DEF Crash
    <3> QED
      BY <1>4, <2>1, <3>1, SessionSteps
  <2>4. CASE CompleteLogin(a)
    <3>1. Stamp("login", a) \in Saves /\ Save(<<Stamp("login", a)>>) /\ clock > sess[a].since
      BY <2>4 DEF CompleteLogin, HandshakeOver, Stamp, Saves, TypeOK
    <3>2. PICK m \in Saves : m = Stamp("login", a)
      BY <3>1
    <3>3. m.code = "login" /\ m.av = a /\ m.at = clock
      BY <3>2 DEF Stamp
    <3>4. /\ Len(queue) \in Nat /\ Len(queue') = Len(queue) + 1 /\ queue'[Len(queue) + 1] = m
      BY <3>1, <3>2, Saved
    <3>5. PICK i \in 1..Len(queue') : i = Len(queue) + 1
      BY <3>4
    <3>6. sess'[a].since = sess[a].since
      BY <2>1, <2>4, SessionSteps DEF CompleteLogin, Select
    <3>7. LoginOf(a, i)' /\ queue'[i].at > sess'[a].since /\ (i + 1)..Len(queue') = {}
      BY <3>1, <3>3, <3>4, <3>5, <3>6 DEF LoginOf
    <3>8. Coming(a, i)'
      BY <3>7 DEF Coming
    <3> QED
      BY <3>8
  <2>5. CASE Playing(a) /\ ~CompleteLogin(a)
    <3>1. Written(a) \/ \E i \in 1..Len(queue) : Coming(a, i)
      BY <2>2, <2>5 DEF StampInv
    <3> QED
      BY <2>2, <2>3, <2>5, <3>1, LoginStep
  <2> QED
    BY <2>3, <2>4, <2>5
<1> QED
  BY <1>2, <1>3, <1>4 DEF StampInv

\* What an instance with these bounds starts from.
LEMMA AvatarInit == RecordsInit => AvatarInv
<1> SUFFICES ASSUME Init PROVE AvatarInv
  BY DEF RecordsInit
<1>1. 1 \in Seconds /\ 0 \in Seconds /\ 0 \in 0..MaxCredits /\ 0 \in 0..WebMax
      /\ 0 \in 0..Changes /\ 0 \in 0..Crashes /\ 0 \in 0..Faults
  BY BoundsAssumption DEF Seconds
<1> DEFINE r == [credits |-> 0, item |-> {"cargo"}, login |-> 0, logout |-> 0]
<1>2. r \in Rows /\ r.item = {"cargo"} /\ r.logout = 0
  BY <1>1 DEF Rows, Places
<1>3. row = [a \in Avatars |-> r]
  BY DEF Init
<1> HIDE DEF r
<1>4. row \in [Avatars -> Rows] /\ \A a \in Avatars : row[a] = r
  BY <1>2, <1>3
<1>5. /\ sess \in [Avatars -> Sessions] /\ \A a \in Avatars : sess[a] = None /\ sess[a].stage = "none"
  BY DEF Init, Sessions, None
<1>6. /\ clock = 1 /\ queue = <<>> /\ half = None /\ up = TRUE /\ ticket = FALSE /\ torn = {}
      /\ web \in [Avatars -> 0..WebMax]
  BY <1>1 DEF Init
<1>7. TypeOK
  <2>1. account \in [login : Seconds, logout : Seconds]
    BY <1>1 DEF Init
  <2>2. used \in [changes : 0..Changes, crashes : 0..Crashes, faults : 0..Faults]
    BY <1>1 DEF Init
  <2> QED
    <3>1. clock \in Seconds /\ ticket \in BOOLEAN /\ up \in BOOLEAN /\ torn \subseteq Avatars
      BY <1>1, <1>6
    <3>2. queue \in Seq(Saves) /\ half \in {None} \cup Moves
      BY <1>6
    <3>3. row \in [Avatars -> [credits : 0..MaxCredits, item : SUBSET Places,
                               login : Seconds, logout : Seconds]]
      BY <1>4 DEF Rows
    <3> QED
      BY <1>5, <1>6, <2>1, <2>2, <3>1, <3>2, <3>3 DEF TypeOK
<1>8. MoveAtomic
  <2>1. Cardinality({"cargo"}) = 1
    BY FS_Singleton
  <2> QED
    BY <1>2, <1>4, <2>1 DEF MoveAtomic
<1>9. DownInv /\ MoveInv
  BY <1>6 DEF DownInv, MoveInv
<1>10. StampInv
  <2>1. ASSUME NEW a \in Avatars PROVE OutBy(a, clock)
    <3>1. row[a].logout = 0 /\ 0 <= clock /\ 1..Len(queue) = {}
      BY <1>2, <1>4, <1>6
    <3> QED
      BY <3>1 DEF OutBy
  <2> QED
    BY <1>5, <2>1 DEF StampInv, Playing
<1> QED
  BY <1>7, <1>8, <1>9, <1>10 DEF AvatarInv

\* A step of the outbox leaves the avatar's records alone.
LEMMA AvatarStep == AvatarInv /\ [RecordsNext]_recordVars => AvatarInv'
<1> SUFFICES ASSUME AvatarInv, [RecordsNext]_recordVars PROVE AvatarInv'
  OBVIOUS
<1>1. CASE Next
  <2>1. TypeOK' /\ DownInv'
    BY <1>1, AvatarTypes, DownStep DEF AvatarInv
  <2>2. MoveInv' /\ MoveAtomic'
    BY <1>1, <2>1, MoveStep DEF AvatarInv
  <2>3. StampInv'
    BY <1>1, <2>1, StampStep DEF AvatarInv
  <2> QED
    BY <2>1, <2>2, <2>3 DEF AvatarInv
<1>2. CASE UNCHANGED vars
  <2>1. /\ clock' = clock /\ row' = row /\ account' = account /\ queue' = queue /\ half' = half
        /\ sess' = sess /\ ticket' = ticket /\ up' = up /\ web' = web /\ torn' = torn /\ used' = used
    BY <1>2 DEF vars
  <2>2. TypeOK' /\ DownInv' /\ MoveInv' /\ MoveAtomic'
    BY <2>1 DEF AvatarInv, TypeOK, DownInv, MoveInv, MoveAtomic
  <2>3. StampInv'
    BY <2>1 DEF AvatarInv, StampInv, OutBy, Written, Coming, LoginOf, LogoutOf, Playing
  <2> QED
    BY <2>2, <2>3 DEF AvatarInv
<1> QED
  BY <1>1, <1>2 DEF RecordsNext, InAvatar, InOutbox, recordVars

\* For any avatars, sessions, saves and crashes: an avatar in the game whose login
\* was written is online to the website, and its item is in one place unless a crash
\* caught a move that was written without a transaction.
THEOREM RowsAreTrue == RecordsSpec => []RowsTrue
<1>1. AvatarInv => RowsTrue
  <2> SUFFICES ASSUME AvatarInv PROVE OnlineSeen
    BY DEF AvatarInv, RowsTrue
  <2> SUFFICES ASSUME NEW a \in Avatars, Playing(a), ~Pending(a), used.faults = 0
               PROVE  Online(row[a])
    BY DEF OnlineSeen
  <2>1. Written(a)
    BY DEF AvatarInv, StampInv, Coming, LoginOf, Pending
  <2>2. sess[a] # None /\ OutBy(a, sess[a].since)
    BY DEF AvatarInv, StampInv, Playing, None
  <2>3. row[a].login > sess[a].since /\ row[a].logout <= sess[a].since
    BY <2>1, <2>2 DEF Written, OutBy
  <2>4. row[a].login \in Nat /\ row[a].logout \in Nat /\ sess[a].since \in Nat
    <3>1. row[a].login \in Seconds /\ row[a].logout \in Seconds /\ sess[a] \in Sessions
      BY DEF AvatarInv, TypeOK
    <3> QED
      BY <2>2, <3>1, SessionFacts, BoundsAssumption DEF Seconds
  <2>5. \A l, o, s \in Nat : l > s /\ o <= s => l > o
    OBVIOUS
  <2> QED
    BY <2>3, <2>4, <2>5 DEF Online
<1> QED
  BY <1>1, AvatarInit, AvatarStep, PTL DEF RecordsSpec

-----------------------------------------------------------------------------
(* The saves add up. *)

\* A set of natural numbers has a least element.
LEMMA Least == ASSUME NEW T \in SUBSET Nat, T # {} PROVE \E n \in T : \A m \in T : n <= m
<1> DEFINE R == OpToRel(<, Nat)
<1>1. IsWellFoundedOn(R, Nat)
  BY NatLessThanWellFounded
<1>2. \A x, y \in Nat : <<y, x>> \in R <=> y < x
  BY DEF OpToRel
<1> HIDE DEF R
<1>3. PICK n \in T : \A m \in T : <<m, n>> \notin R
  BY <1>1, WFMin
<1>4. \A m \in T : ~ (m < n)
  BY <1>2, <1>3
<1> QED
  BY <1>3, <1>4

\* Induction over the natural numbers, for a set.
LEMMA Climb ==
    ASSUME NEW T \in SUBSET Nat, 0 \in T, \A n \in T : n + 1 \in T
    PROVE  T = Nat
<1> SUFFICES ASSUME Nat \ T # {} PROVE FALSE
  OBVIOUS
<1>1. PICK n \in Nat \ T : \A m \in Nat \ T : n <= m
  BY Least
<1>2. n # 0 /\ n - 1 \in Nat /\ n - 1 < n
  BY <1>1
<1>3. n - 1 \in T
  BY <1>1, <1>2
<1>4. (n - 1) + 1 = n
  BY <1>1
<1> QED
  BY <1>1, <1>3, <1>4

\* The last of some places of a sequence.
LEMMA LastPlace ==
    ASSUME NEW n \in Nat, NEW S \in SUBSET (1..n), S # {}
    PROVE  Max(S) \in S /\ \A i \in S : i <= Max(S)
<1> DEFINE T == {n - i : i \in S}
<1>1. T \in SUBSET Nat /\ T # {}
  <2>1. \A i \in S : n - i \in Nat /\ n - i \in T
    OBVIOUS
  <2> QED
    BY <2>1
<1>2. PICK k \in T : \A m \in T : k <= m
  <2> HIDE DEF T
  <2> QED
    BY <1>1, Least
<1>3. PICK i \in S : k = n - i
  BY <1>2
<1>4. \A j \in S : i >= j
  BY <1>2, <1>3
<1>5. \E x \in S : \A y \in S : x >= y
  BY <1>3, <1>4
<1> QED
  BY <1>5 DEF Max

\* The first places of a sequence, as a set.
LEMMA FirstPlaces ==
    ASSUME NEW n \in Nat, NEW i \in 1..n
    PROVE  /\ 1..i \in SUBSET (1..n) /\ 1..i # {} /\ (1..i) \ {i} = 1..(i - 1)
           /\ Max(1..i) = i
<1>1. i \in Nat /\ 1 <= i /\ i <= n
  OBVIOUS
<1>2. 1..i \in SUBSET (1..n)
  BY <1>1
<1>3. i \in 1..i
  BY <1>1
<1>4. (1..i) \ {i} = 1..(i - 1)
  BY <1>1
<1>5. Max(1..i) \in 1..i /\ i <= Max(1..i)
  BY <1>2, <1>3, LastPlace
<1> QED
  BY <1>1, <1>2, <1>3, <1>4, <1>5

\* g applies the saves of q to rows, for every set of places, as FoldLeft does.
IsFold(g, base, q) ==
    g = [S \in SUBSET (1..Len(q)) |-> IF S = {} THEN base ELSE Applied(g[S \ {Max(S)}], q[Max(S)])]

\* There is such a function, so that the CHOOSE in FoldLeft finds it.
LEMMA FoldExists ==
    ASSUME NEW base, NEW q \in Seq(Saves)
    PROVE  \E g : IsFold(g, base, q)
<1> DEFINE D == 1..Len(q)
           Upto(n) == {S \in SUBSET D : Cardinality(S) <= n}
           Next1(g, S) == IF S = {} THEN base ELSE Applied(g[S \ {Max(S)}], q[Max(S)])
           Good(g, n) == \A S \in Upto(n) : g[S] = Next1(g, S)
           T == {n \in Nat : \E g : Good(g, n)}
<1>0. Len(q) \in Nat /\ IsFiniteSet(D)
  BY FS_Interval
<1>1. \A S \in SUBSET D :
          /\ IsFiniteSet(S) /\ Cardinality(S) \in Nat /\ (Cardinality(S) <= 0 => S = {})
          /\ Cardinality(S) <= Cardinality(D)
          /\ S # {} => /\ S \ {Max(S)} \in SUBSET D
                       /\ Cardinality(S \ {Max(S)}) = Cardinality(S) - 1
  <2> TAKE S \in SUBSET D
  <2>1. IsFiniteSet(S) /\ Cardinality(S) \in Nat /\ Cardinality(S) <= Cardinality(D)
    BY <1>0, FS_Subset, FS_CardinalityType
  <2>2. Cardinality(S) <= 0 => S = {}
    BY <2>1, FS_EmptySet
  <2>3. S # {} => Max(S) \in S
    BY <1>0, LastPlace
  <2>4. S # {} => Cardinality(S \ {Max(S)}) = Cardinality(S) - 1
    BY <2>1, <2>3, FS_RemoveElement
  <2> QED
    BY <2>1, <2>2, <2>4
<1> HIDE DEF D
<1>2. 0 \in T
  <2> DEFINE g == [S \in SUBSET D |-> base]
  <2>1. \A S \in Upto(0) : S = {} /\ S \in SUBSET D
    BY <1>1
  <2>2. Good(g, 0)
    BY <2>1
  <2> QED
    BY <2>2
<1>3. ASSUME NEW n \in T PROVE n + 1 \in T
  <2>1. PICK g : Good(g, n)
    BY <1>3
  <2> DEFINE h == [S \in SUBSET D |-> Next1(g, S)]
  <2>2. \A S \in Upto(n) : h[S] = g[S]
    BY <2>1
  <2>3. \A S \in Upto(n + 1) : S # {} => S \ {Max(S)} \in Upto(n)
    BY <1>1
  <2>4. \A S \in Upto(n + 1) : Next1(h, S) = Next1(g, S)
    <3> HIDE DEF h
    <3> QED
      BY <2>2, <2>3
  <2>5. Good(h, n + 1)
    <3>1. \A S \in Upto(n + 1) : h[S] = Next1(g, S)
      OBVIOUS
    <3> HIDE DEF h, Next1, Upto
    <3> QED
      BY <2>4, <3>1
  <2> HIDE DEF h, Good
  <2> QED
    BY <1>3, <2>5
<1>4. T \in SUBSET Nat
  OBVIOUS
<1> HIDE DEF T
<1>5. T = Nat
  BY <1>2, <1>3, <1>4, Climb
<1>6. Cardinality(D) \in Nat
  BY <1>0, FS_CardinalityType DEF D
<1>7. PICK g : Good(g, Cardinality(D))
  BY <1>5, <1>6 DEF T
<1> DEFINE h == [S \in SUBSET D |-> Next1(g, S)]
<1>8. \A S \in SUBSET D : h[S] = g[S]
  BY <1>1, <1>7
<1>9. \A S \in SUBSET D : Next1(h, S) = Next1(g, S)
  <2>1. \A S \in SUBSET D : S # {} => S \ {Max(S)} \in SUBSET D
    BY <1>1
  <2> HIDE DEF h
  <2> QED
    BY <1>8, <2>1
<1>10. h = [S \in SUBSET D |-> Next1(h, S)]
  <2>1. h = [S \in SUBSET D |-> Next1(g, S)]
    OBVIOUS
  <2> HIDE DEF h, Next1
  <2> QED
    BY <1>9, <2>1
<1> QED
  BY <1>10 DEF IsFold, D

\* h[i] is rows with the first i saves of q applied.
IsRun(h, base, q) == h[0] = base /\ \A i \in 1..Len(q) : h[i] = Applied(h[i - 1], q[i])

\* The tables rows with the saves of q written, in order.
Fold(base, q) == FoldLeft(Applied, base, q)

\* Folding is the end of a run.
LEMMA FoldIsRun ==
    ASSUME NEW base, NEW q \in Seq(Saves)
    PROVE  \E h : IsRun(h, base, q) /\ Fold(base, q) = h[Len(q)]
<1> DEFINE P(k) == k = [S \in SUBSET (DOMAIN q) |-> IF S = {} THEN base ELSE Applied(k[S \ {Max(S)}], q[Max(S)])]
           g == CHOOSE k : P(k)
<1>1. DOMAIN q = 1..Len(q) /\ Len(q) \in Nat
  OBVIOUS
<1>2. \A k : P(k) <=> IsFold(k, base, q)
  BY <1>1 DEF IsFold
<1>3. IsFold(g, base, q)
  <2>1. \E k : P(k)
    BY <1>2, FoldExists
  <2> HIDE DEF P
  <2>2. P(g)
    BY <2>1
  <2> QED
    BY <1>2, <2>2
<1>4. Fold(base, q) = g[1..Len(q)]
  <2>1. Fold(base, q) = g[DOMAIN q]
    BY DEF Fold, FoldLeft, MapThenFoldSet
  <2> QED
    BY <1>1, <2>1
<1> HIDE DEF g
<1> DEFINE h == [i \in 0..Len(q) |-> g[1..i]]
<1>5. h[0] = base
  <2>1. 1..0 = {} /\ 0 \in 0..Len(q)
    BY <1>1
  <2> QED
    BY <1>3, <2>1 DEF IsFold
<1>6. ASSUME NEW i \in 1..Len(q) PROVE h[i] = Applied(h[i - 1], q[i])
  <2>2. /\ 1..i \in SUBSET (1..Len(q)) /\ 1..i # {} /\ (1..i) \ {i} = 1..(i - 1)
        /\ Max(1..i) = i
    BY <1>1, FirstPlaces
  <2>3. g[1..i] = Applied(g[1..(i - 1)], q[i])
    BY <1>3, <2>2 DEF IsFold
  <2>4. i \in 0..Len(q) /\ i - 1 \in 0..Len(q)
    BY <1>1
  <2> QED
    BY <2>3, <2>4
<1>7. h[Len(q)] = g[1..Len(q)]
  BY <1>1
<1> HIDE DEF h
<1> QED
  BY <1>4, <1>5, <1>6, <1>7 DEF IsRun

\* A save gives its avatar a row, and leaves the others theirs.
LEMMA AppliedFacts ==
    ASSUME NEW base \in [Avatars -> Rows], NEW m \in Saves
    PROVE  /\ Applied(base, m) \in [Avatars -> Rows]
           /\ Applied(base, m)[m.av] = Handled(base[m.av], m)
           /\ \A a \in Avatars : a # m.av => Applied(base, m)[a] = base[a]
           /\ m.av \in Avatars
<1>1. m.av \in Avatars /\ base[m.av] \in Rows
  BY SaveFacts
<1>2. Handled(base[m.av], m) \in Rows
  <2>1. CASE m.code \in {"login", "logout"}
    BY <1>1, <2>1, SaveFacts DEF Handled, LoggedOut, Rows
  <2>2. CASE m.code = "credits"
    BY <1>1, <2>2, SaveFacts DEF Handled, Credited, Rows
  <2>3. CASE m.code = "move"
    BY <1>1, <2>3, SaveFacts DEF Handled, Moved, PutIn, TakeOut, Rows
  <2> QED
    BY <2>1, <2>2, <2>3, SaveFacts
<1> QED
  BY <1>1, <1>2 DEF Applied

\* Two runs from the same rows over saves of which the first n are the same.
BeginAlike(h, k, base, q, p, n) ==
    /\ IsRun(h, base, q) /\ IsRun(k, base, p) /\ q \in Seq(Saves) /\ p \in Seq(Saves)
    /\ n \in Nat /\ n <= Len(q) /\ n <= Len(p) /\ \A i \in 1..n : q[i] = p[i]

\* They go alike up to there.
LEMMA RunsAgree ==
    ASSUME NEW h, NEW k, NEW base, NEW q, NEW p, NEW n, BeginAlike(h, k, base, q, p, n)
    PROVE  h[n] = k[n]
<1>0. /\ IsRun(h, base, q) /\ IsRun(k, base, p) /\ q \in Seq(Saves) /\ p \in Seq(Saves)
      /\ n \in Nat /\ n <= Len(q) /\ n <= Len(p) /\ \A i \in 1..n : q[i] = p[i]
  BY DEF BeginAlike
<1> DEFINE T == {i \in Nat : i <= n => h[i] = k[i]}
<1>1. 0 \in T
  BY <1>0 DEF IsRun
<1>2. ASSUME NEW i \in T PROVE i + 1 \in T
  <2> SUFFICES ASSUME i + 1 <= n PROVE h[i + 1] = k[i + 1]
    BY <1>2
  <2>1. i \in Nat /\ i + 1 \in 1..n /\ i + 1 \in 1..Len(q) /\ i + 1 \in 1..Len(p)
    BY <1>0, <1>2
  <2>2. h[i] = k[i]
    BY <1>0, <1>2, <2>1
  <2>3. h[i + 1] = Applied(h[(i + 1) - 1], q[i + 1]) /\ k[i + 1] = Applied(k[(i + 1) - 1], p[i + 1])
    BY <1>0, <2>1 DEF IsRun
  <2>4. (i + 1) - 1 = i /\ q[i + 1] = p[i + 1]
    BY <1>0, <2>1
  <2> QED
    BY <2>2, <2>3, <2>4
<1>3. T = Nat
  <2>1. T \in SUBSET Nat
    OBVIOUS
  <2> HIDE DEF T
  <2> QED
    BY <1>1, <1>2, <2>1, Climb
<1> QED
  BY <1>0, <1>3

\* Rows stay rows.
LEMMA RunTyped ==
    ASSUME NEW base \in [Avatars -> Rows], NEW q \in Seq(Saves), NEW h, IsRun(h, base, q),
           NEW n \in 0..Len(q)
    PROVE  h[n] \in [Avatars -> Rows]
<1> DEFINE T == {i \in Nat : i <= Len(q) => h[i] \in [Avatars -> Rows]}
<1>1. 0 \in T
  BY DEF IsRun
<1>2. ASSUME NEW i \in T PROVE i + 1 \in T
  <2> SUFFICES ASSUME i + 1 <= Len(q) PROVE h[i + 1] \in [Avatars -> Rows]
    BY <1>2
  <2>1. i \in Nat /\ i + 1 \in 1..Len(q) /\ q[i + 1] \in Saves
    BY <1>2
  <2>2. h[i] \in [Avatars -> Rows]
    BY <1>2, <2>1
  <2>3. h[i + 1] = Applied(h[(i + 1) - 1], q[i + 1])
    BY <2>1 DEF IsRun
  <2>4. (i + 1) - 1 = i
    BY <2>1
  <2> QED
    BY <2>1, <2>2, <2>3, <2>4, AppliedFacts
<1>3. T = Nat
  <2>1. T \in SUBSET Nat
    OBVIOUS
  <2> HIDE DEF T
  <2> QED
    BY <1>1, <1>2, <2>1, Climb
<1>4. n \in Nat /\ n <= Len(q)
  OBVIOUS
<1> QED
  BY <1>3, <1>4

\* What becomes of a's row depends on that row only, and changes only with a save
\* of a's.
LEMMA RunOf ==
    ASSUME NEW base \in [Avatars -> Rows], NEW other \in [Avatars -> Rows], NEW q \in Seq(Saves),
           NEW h, NEW k, IsRun(h, base, q), IsRun(k, other, q), NEW a \in Avatars, base[a] = other[a]
    PROVE  /\ h[Len(q)][a] = k[Len(q)][a]
           /\ (\A i \in 1..Len(q) : q[i].av # a) => h[Len(q)][a] = base[a]
<1> DEFINE Mine == \E i \in 1..Len(q) : q[i].av = a
           T == {i \in Nat : i <= Len(q) => h[i][a] = k[i][a] /\ (Mine \/ h[i][a] = base[a])}
<1>1. 0 \in T
  BY DEF IsRun
<1>2. ASSUME NEW i \in T PROVE i + 1 \in T
  <2> SUFFICES ASSUME i + 1 <= Len(q)
               PROVE  h[i + 1][a] = k[i + 1][a] /\ (Mine \/ h[i + 1][a] = base[a])
    BY <1>2
  <2>1. /\ i \in Nat /\ i \in 0..Len(q) /\ i + 1 \in 1..Len(q) /\ q[i + 1] \in Saves
        /\ (i + 1) - 1 = i
    BY <1>2
  <2>2. h[i][a] = k[i][a] /\ (Mine \/ h[i][a] = base[a])
    BY <1>2, <2>1
  <2>3. h[i + 1] = Applied(h[i], q[i + 1]) /\ k[i + 1] = Applied(k[i], q[i + 1])
    BY <2>1 DEF IsRun
  <2>4. h[i] \in [Avatars -> Rows] /\ k[i] \in [Avatars -> Rows]
    BY <2>1, RunTyped
  <2>7. PICK r, s, m : r = h[i] /\ s = k[i] /\ m = q[i + 1]
    OBVIOUS
  <2>8. r \in [Avatars -> Rows] /\ s \in [Avatars -> Rows] /\ m \in Saves
    BY <2>1, <2>4, <2>7
  <2>9. /\ Applied(r, m)[m.av] = Handled(r[m.av], m) /\ Applied(s, m)[m.av] = Handled(s[m.av], m)
        /\ a # m.av => Applied(r, m)[a] = r[a] /\ Applied(s, m)[a] = s[a]
    BY <2>8, AppliedFacts
  <2>10. h[i + 1] = Applied(r, m) /\ k[i + 1] = Applied(s, m) /\ r[a] = s[a] /\ (Mine \/ r[a] = base[a])
    BY <2>2, <2>3, <2>7
  <2>5. CASE m.av = a
    <3>1. Mine
      BY <2>1, <2>5, <2>7
    <3> QED
      BY <2>5, <2>9, <2>10, <3>1
  <2>6. CASE m.av # a
    <3> HIDE DEF Mine
    <3> QED
      BY <2>6, <2>9, <2>10
  <2> QED
    BY <2>5, <2>6
<1>3. T = Nat
  <2>1. T \in SUBSET Nat
    OBVIOUS
  <2> HIDE DEF T
  <2> QED
    BY <1>1, <1>2, <2>1, Climb
<1>4. Len(q) \in T
  <2> HIDE DEF T
  <2> QED
    BY <1>3
<1> QED
  BY <1>4

\* One save more is applied last.
LEMMA FoldLast ==
    ASSUME NEW base, NEW q \in Seq(Saves), NEW p \in Seq(Saves), Len(p) = Len(q) + 1,
           \A i \in 1..Len(q) : p[i] = q[i]
    PROVE  Fold(base, p) = Applied(Fold(base, q), p[Len(p)])
<1>1. PICK h : IsRun(h, base, q) /\ Fold(base, q) = h[Len(q)]
  BY FoldIsRun
<1>2. PICK k : IsRun(k, base, p) /\ Fold(base, p) = k[Len(p)]
  BY FoldIsRun
<1>3. Len(q) \in Nat /\ Len(q) <= Len(p) /\ Len(p) \in 1..Len(p) /\ Len(p) - 1 = Len(q)
  OBVIOUS
<1>4. h[Len(q)] = k[Len(q)]
  <2>1. BeginAlike(h, k, base, q, p, Len(q))
    BY <1>1, <1>2, <1>3 DEF BeginAlike
  <2> QED
    BY <2>1, RunsAgree
<1>5. k[Len(p)] = Applied(k[Len(p) - 1], p[Len(p)])
  BY <1>2, <1>3 DEF IsRun
<1> QED
  BY <1>1, <1>2, <1>3, <1>4, <1>5

\* The first save may be applied on its own.
LEMMA FoldFirst ==
    ASSUME NEW base, NEW q \in Seq(Saves), q # <<>>
    PROVE  Fold(base, q) = Fold(Applied(base, Head(q)), Tail(q))
<1>1. PICK h : IsRun(h, base, q) /\ Fold(base, q) = h[Len(q)]
  BY FoldIsRun
<1>2. Tail(q) \in Seq(Saves) /\ Len(Tail(q)) = Len(q) - 1 /\ Len(q) \in Nat /\ Len(q) >= 1
      /\ Head(q) = q[1] /\ \A i \in 1..Len(q) - 1 : Tail(q)[i] = q[i + 1]
  OBVIOUS
<1>3. PICK k : IsRun(k, Applied(base, Head(q)), Tail(q)) /\ Fold(Applied(base, Head(q)), Tail(q)) = k[Len(Tail(q))]
  BY <1>2, FoldIsRun
<1> DEFINE g == [i \in 0..(Len(q) - 1) |-> h[i + 1]]
<1>4. IsRun(g, Applied(base, Head(q)), Tail(q))
  <2>1. g[0] = Applied(base, Head(q))
    <3>1. h[1] = Applied(h[1 - 1], q[1]) /\ h[0] = base
      BY <1>1, <1>2 DEF IsRun
    <3> QED
      BY <1>2, <3>1
  <2>2. ASSUME NEW i \in 1..Len(Tail(q)) PROVE g[i] = Applied(g[i - 1], Tail(q)[i])
    <3>1. i \in Nat /\ i + 1 \in 1..Len(q) /\ i \in 0..(Len(q) - 1) /\ i - 1 \in 0..(Len(q) - 1)
          /\ (i - 1) + 1 = i /\ (i + 1) - 1 = i /\ Tail(q)[i] = q[i + 1]
      BY <1>2
    <3>2. h[i + 1] = Applied(h[(i + 1) - 1], q[i + 1])
      BY <1>1, <3>1 DEF IsRun
    <3>3. g[i] = h[i + 1] /\ g[i - 1] = h[i]
      BY <3>1
    <3> HIDE DEF g
    <3> QED
      BY <3>1, <3>2, <3>3
  <2> HIDE DEF g
  <2> QED
    BY <2>1, <2>2 DEF IsRun
<1>5. g[Len(q) - 1] = h[Len(q)]
  BY <1>2
<1> HIDE DEF g
<1>6. g[Len(Tail(q))] = k[Len(Tail(q))]
  <2>1. BeginAlike(g, k, Applied(base, Head(q)), Tail(q), Tail(q), Len(Tail(q)))
    BY <1>2, <1>3, <1>4 DEF BeginAlike
  <2> QED
    BY <2>1, RunsAgree
<1> QED
  BY <1>1, <1>2, <1>3, <1>5, <1>6

\* What folding makes of a's row depends on that row only, and changes only with a
\* save of a's.
LEMMA FoldOf ==
    ASSUME NEW base \in [Avatars -> Rows], NEW other \in [Avatars -> Rows], NEW q \in Seq(Saves),
           NEW a \in Avatars, base[a] = other[a]
    PROVE  /\ Fold(base, q)[a] = Fold(other, q)[a]
           /\ (\A i \in 1..Len(q) : q[i].av # a) => Fold(base, q)[a] = base[a]
           /\ Fold(base, q) \in [Avatars -> Rows]
<1>1. PICK h : IsRun(h, base, q) /\ Fold(base, q) = h[Len(q)]
  BY FoldIsRun
<1>2. PICK k : IsRun(k, other, q) /\ Fold(other, q) = k[Len(q)]
  BY FoldIsRun
<1>3. Len(q) \in 0..Len(q)
  OBVIOUS
<1> QED
  BY <1>1, <1>2, <1>3, RunOf, RunTyped

\* An avatar whose memory is what its tables will be, if the tables were up to date
\* when it read them.
Durable(a) ==
    /\ sess[a].stage \in {"loaded", "in"}
    /\ ~sess[a].late /\ sess[a].seen = web[a] /\ used.faults = 0
    =>
    /\ Settled[a].credits = sess[a].credits
    /\ Settled[a].item = sess[a].item

\* No session has seen a write of the website that was not made, and a move is
\* written by halves only after a fault.
HistoryInv ==
    /\ \A a \in Avatars : sess[a].stage \in {"loaded", "in"} => sess[a].seen <= web[a]
    /\ half # None => used.faults > 0

MemoryInv == HistoryInv /\ \A a \in Avatars : Durable(a)

\* What the tables will hold are rows; a save that joins the queue is applied last.
LEMMA SettledRows == ASSUME TypeOK PROVE Settled \in [Avatars -> Rows]
<1>1. Settled = Fold(row, queue)
  BY DEF Settled, Fold
<1>2. row \in [Avatars -> Rows] /\ queue \in Seq(Saves)
  BY DEF TypeOK, Rows
<1>3. CASE Avatars = {}
  <2>1. PICK h : IsRun(h, row, queue) /\ Fold(row, queue) = h[Len(queue)]
    BY <1>2, FoldIsRun
  <2> QED
    BY <1>1, <1>2, <2>1, RunTyped
<1>4. ASSUME NEW a \in Avatars PROVE Settled \in [Avatars -> Rows]
  BY <1>1, <1>2, FoldOf
<1> QED
  BY <1>3, <1>4

\* A save queued settles its avatar's row last, and leaves the other rows.
LEMMA SavedSettles ==
    ASSUME TypeOK, NEW m \in Saves, Save(<<m>>), row' = row
    PROVE  /\ Settled'[m.av] = Handled(Settled[m.av], m) /\ m.av \in Avatars
           /\ \A a \in Avatars : a # m.av => Settled'[a] = Settled[a]
<1>1. Settled = Fold(row, queue) /\ Settled' = Fold(row, queue')
  BY DEF Settled, Fold
<1>2. /\ queue' \in Seq(Saves) /\ queue \in Seq(Saves) /\ Len(queue') = Len(queue) + 1
      /\ queue'[Len(queue')] = m /\ \A i \in 1..Len(queue) : queue'[i] = queue[i]
  BY Saved DEF TypeOK
<1>3. Settled' = Applied(Settled, m)
  BY <1>1, <1>2, FoldLast
<1> QED
  BY <1>3, SettledRows, AppliedFacts

\* A save that HandleSaveCode writes was counted already.
LEMMA TakenSettles ==
    ASSUME TypeOK, HandleSaveCode
    PROVE  Settled' = Settled
<1>1. Settled = Fold(row, queue) /\ Settled' = Fold(row', queue')
  BY DEF Settled, Fold
<1>2. queue \in Seq(Saves) /\ queue # <<>> /\ row' = Applied(row, Head(queue)) /\ queue' = Tail(queue)
  BY DEF TypeOK, HandleSaveCode, Taking
<1> QED
  BY <1>1, <1>2, FoldFirst

\* Every action keeps the histories true.
LEMMA HistoryStep ==
    ASSUME TypeOK, HistoryInv, Next
    PROVE  HistoryInv'
<1>0. /\ sess \in [Avatars -> Sessions] /\ web \in [Avatars -> 0..WebMax] /\ WebMax \in Nat
      /\ used.faults \in Nat /\ used \in [changes : 0..Changes, crashes : 0..Crashes, faults : 0..Faults]
      /\ Faults \in Nat
  BY BoundsAssumption DEF TypeOK
<1>1. ASSUME UNCHANGED <<half, web>>, used'.faults = used.faults, NEW b \in Avatars, NEW s,
             sess' = [sess EXCEPT ![b] = s], s.stage \in {"loaded", "in"} => s.seen <= web[b]
      PROVE  HistoryInv'
  BY <1>0, <1>1 DEF HistoryInv
<1>2. ASSUME UNCHANGED sess, \A a \in Avatars : web'[a] >= web[a] /\ web'[a] \in Nat,
             half' = None \/ half' = half \/ used'.faults > 0, used'.faults >= used.faults, used'.faults \in Nat
      PROVE  HistoryInv'
  <2>1. \A a \in Avatars : sess[a].stage \in {"loaded", "in"} => sess[a].seen \in Nat
    BY <1>0, SessionFacts DEF Loads
  <2> QED
    BY <1>0, <1>2, <2>1 DEF HistoryInv
<1>3. ASSUME Spend PROVE used'.faults = used.faults
  BY <1>0, <1>3 DEF Spend
<1>4. ASSUME Fault PROVE used'.faults > 0 /\ used'.faults >= used.faults /\ used'.faults \in Nat
  BY <1>0, <1>4 DEF Fault
<1>5. ASSUME NEW a \in Avatars, Select(a) PROVE HistoryInv'
  BY <1>1, <1>5 DEF Select
<1>6. ASSUME NEW a \in Avatars, FirstLogin(a) PROVE HistoryInv'
  <2>1. PICK s : s = [stage |-> "loaded", since |-> sess[a].since,
                      credits |-> row[a].credits, item |-> row[a].item,
                      seen |-> web[a], late |-> Unwritten(a)]
    OBVIOUS
  <2>2. s.seen <= web[a]
    <3>1. web[a] \in Nat /\ s.seen = web[a]
      BY <1>0, <2>1
    <3> QED
      BY <3>1
  <2>3. sess' = [sess EXCEPT ![a] = s] /\ UNCHANGED <<half, web, used>>
    BY <1>6, <2>1 DEF FirstLogin
  <2> QED
    BY <1>1, <2>2, <2>3
<1>7. ASSUME NEW a \in Avatars, CompleteLogin(a) PROVE HistoryInv'
  <2>1. sess[a] \in Loads /\ sess[a].seen <= web[a]
    BY <1>0, <1>7, SessionFacts DEF CompleteLogin, HistoryInv
  <2>2. [sess[a] EXCEPT !.stage = "in"].seen <= web[a]
    BY <2>1 DEF Loads
  <2>3. /\ sess' = [sess EXCEPT ![a] = [sess[a] EXCEPT !.stage = "in"]]
        /\ UNCHANGED <<half, web>> /\ used'.faults = used.faults
    BY <1>7 DEF CompleteLogin
  <2> QED
    BY <1>1, <2>2, <2>3
<1>8. ASSUME NEW a \in Avatars, NEW c \in 0..MaxCredits, ChangeCredits(a, c) PROVE HistoryInv'
  <2>1. sess[a] \in Loads /\ sess[a].seen <= web[a]
    BY <1>0, <1>8, SessionFacts DEF ChangeCredits, Playing, HistoryInv
  <2>2. [sess[a] EXCEPT !.credits = c].seen <= web[a]
    BY <2>1 DEF Loads
  <2>3. /\ sess' = [sess EXCEPT ![a] = [sess[a] EXCEPT !.credits = c]]
        /\ UNCHANGED <<half, web>> /\ used'.faults = used.faults
    BY <1>3, <1>8 DEF ChangeCredits
  <2> QED
    BY <1>1, <2>2, <2>3
<1>9. ASSUME NEW a \in Avatars, NEW f \in Places, NEW t \in Places, MoveItem(a, f, t) PROVE HistoryInv'
  <2>1. sess[a] \in Loads /\ sess[a].seen <= web[a]
    BY <1>0, <1>9, SessionFacts DEF MoveItem, Playing, HistoryInv
  <2>2. PICK s : s = [sess[a] EXCEPT !.item = (sess[a].item \ {f}) \cup {t}]
    OBVIOUS
  <2>3. s.seen <= web[a]
    BY <2>1, <2>2 DEF Loads
  <2>4. sess' = [sess EXCEPT ![a] = s] /\ UNCHANGED <<half, web>> /\ used'.faults = used.faults
    BY <1>3, <1>9, <2>2 DEF MoveItem
  <2> QED
    BY <1>1, <2>3, <2>4
<1>10. ASSUME NEW a \in Avatars, DropPlayerFromGalaxy(a) PROVE HistoryInv'
  BY <1>1, <1>10 DEF DropPlayerFromGalaxy, None
<1>11. ASSUME NEW a \in Avatars, WebCredit(a) PROVE HistoryInv'
  BY <1>0, <1>2, <1>11 DEF WebCredit
<1>12. CASE Crash
  <2>1. \A a \in Avatars : sess'[a].stage = "none"
    BY <1>12 DEF Crash, None
  <2> QED
    BY <1>12, <2>1 DEF Crash, HistoryInv
<1>13. CASE ProcessTicketInfo \/ HandleSaveCode \/ MoveSecondSlot \/ Boot \/ Tick
  BY <1>0, <1>2, <1>13 DEF ProcessTicketInfo, HandleSaveCode, MoveSecondSlot, Boot, Tick
<1>14. CASE SaveFails \/ MoveFirstSlot
  BY <1>0, <1>2, <1>4, <1>14 DEF SaveFails, MoveFirstSlot
<1> QED
  BY <1>5, <1>6, <1>7, <1>8, <1>9, <1>10, <1>11, <1>12, <1>13, <1>14 DEF Next

\* Every action keeps an avatar's memory what its tables will hold.
LEMMA DurableStep ==
    ASSUME TypeOK, DownInv, MemoryInv, Next, NEW a \in Avatars
    PROVE  Durable(a)'
<1>0. /\ sess \in [Avatars -> Sessions] /\ web \in [Avatars -> 0..WebMax] /\ WebMax \in Nat
      /\ row \in [Avatars -> Rows] /\ queue \in Seq(Saves) /\ half \in {None} \cup Moves
      /\ used \in [changes : 0..Changes, crashes : 0..Crashes, faults : 0..Faults] /\ Faults \in Nat
      /\ Durable(a) /\ Settled[a] \in Rows
  BY SettledRows, BoundsAssumption DEF TypeOK, Rows, MemoryInv
<1>1. ASSUME sess'[a] = sess[a], web'[a] = web[a], used'.faults = used.faults,
             Settled'[a].credits = Settled[a].credits, Settled'[a].item = Settled[a].item
      PROVE  Durable(a)'
  BY <1>0, <1>1 DEF Durable
<1>2. ASSUME row' = row, queue' = queue PROVE Settled' = Settled
  BY <1>2 DEF Settled
<1>3. ASSUME NEW c \in {"login", "logout"}, NEW b \in Avatars, Save(<<Stamp(c, b)>>), row' = row
      PROVE  Settled'[a].credits = Settled[a].credits /\ Settled'[a].item = Settled[a].item
  <2>1. Stamp(c, b) \in Saves /\ Stamp(c, b).av = b /\ Stamp(c, b).code = c
    BY DEF TypeOK, Stamp, Saves
  <2>2. CASE a = b
    <3>1. Settled'[a] = Handled(Settled[a], Stamp(c, b))
      BY <1>3, <2>1, <2>2, SavedSettles
    <3> HIDE DEF Stamp
    <3> QED
      BY <1>0, <2>1, <3>1 DEF Handled, LoggedOut, Rows
  <2>3. CASE a # b
    BY <1>3, <2>1, <2>3, SavedSettles
  <2> QED
    BY <2>2, <2>3
<1>4. ASSUME sess'[a].stage \notin {"loaded", "in"} \/ used'.faults # 0 PROVE Durable(a)'
  BY <1>4 DEF Durable
<1>5. ASSUME Spend PROVE used'.faults = used.faults
  BY <1>0, <1>5 DEF Spend
<1>6. CASE ProcessTicketInfo \/ Tick
  BY <1>1, <1>2, <1>6 DEF ProcessTicketInfo, Tick
<1>7. ASSUME NEW b \in Avatars, Select(b) PROVE Durable(a)'
  <2>1. CASE a = b
    <3>1. sess'[a].stage = "selected"
      BY <1>0, <1>7, <2>1 DEF Select
    <3> QED
      BY <1>4, <3>1
  <2>2. CASE a # b
    <3>1. Settled'[a].credits = Settled[a].credits /\ Settled'[a].item = Settled[a].item
      <4>1. row' = row /\ Save(Duplicates(b))
        BY <1>7 DEF Select
      <4>2. CASE sess[b] = None
        <5>1. queue' = queue
          BY <4>1, <4>2, NothingSaved DEF Duplicates
        <5> QED
          BY <1>2, <4>1, <5>1
      <4>3. CASE sess[b] # None
        BY <1>3, <4>1, <4>3 DEF Duplicates
      <4> QED
        BY <4>2, <4>3
    <3> QED
      BY <1>0, <1>1, <1>7, <2>2, <3>1 DEF Select
  <2> QED
    BY <2>1, <2>2
<1>8. ASSUME NEW b \in Avatars, FirstLogin(b) PROVE Durable(a)'
  <2>1. Settled' = Settled /\ web' = web /\ used' = used
    BY <1>2, <1>8 DEF FirstLogin
  <2>2. CASE a = b
    <3>1. /\ sess'[a].credits = row[a].credits /\ sess'[a].item = row[a].item
          /\ sess'[a].late = Unwritten(a)
      BY <1>0, <1>8, <2>2 DEF FirstLogin
    <3>2. ~Unwritten(a) => Settled[a] = row[a]
      <4>1. ~Unwritten(a) => \A i \in 1..Len(queue) : queue[i].av # a
        BY DEF Unwritten, Pending
      <4>2. Settled = Fold(row, queue)
        BY DEF Settled, Fold
      <4> QED
        BY <1>0, <4>1, <4>2, FoldOf
    <3> QED
      BY <2>1, <3>1, <3>2 DEF Durable
  <2>3. CASE a # b
    BY <1>0, <1>1, <1>8, <2>1, <2>3 DEF FirstLogin
  <2> QED
    BY <2>2, <2>3
<1>9. ASSUME NEW b \in Avatars, CompleteLogin(b) PROVE Durable(a)'
  <2>1. Settled'[a].credits = Settled[a].credits /\ Settled'[a].item = Settled[a].item
    BY <1>3, <1>9 DEF CompleteLogin
  <2>2. web' = web /\ used' = used /\ sess' = [sess EXCEPT ![b].stage = "in"]
    BY <1>9 DEF CompleteLogin
  <2>3. CASE a = b
    <3>1. sess[a] \in Loads /\ sess[a].stage = "loaded"
      BY <1>0, <1>9, <2>3, SessionFacts DEF CompleteLogin
    <3>2. /\ sess'[a].credits = sess[a].credits /\ sess'[a].item = sess[a].item
          /\ sess'[a].late = sess[a].late /\ sess'[a].seen = sess[a].seen
      BY <1>0, <2>2, <2>3, <3>1 DEF Loads
    <3> QED
      BY <1>0, <2>1, <2>2, <3>1, <3>2 DEF Durable
  <2>4. CASE a # b
    BY <1>0, <1>1, <2>1, <2>2, <2>4
  <2> QED
    BY <2>3, <2>4
<1>10. ASSUME NEW b \in Avatars, NEW c \in 0..MaxCredits, ChangeCredits(b, c) PROVE Durable(a)'
  <2> DEFINE m == [code |-> "credits", av |-> b, credits |-> c, seen |-> sess[b].seen]
  <2>1. sess[b] \in Loads /\ sess[b].stage = "in"
    BY <1>0, <1>10, SessionFacts DEF ChangeCredits, Playing
  <2>2. m \in Saves /\ m.av = b /\ m.code = "credits" /\ m.credits = c
    BY <2>1 DEF Saves, Loads
  <2>3. /\ Save(<<m>>) /\ row' = row /\ web' = web /\ used'.faults = used.faults
        /\ sess' = [sess EXCEPT ![b].credits = c]
    BY <1>5, <1>10 DEF ChangeCredits
  <2> HIDE DEF m
  <2>4. CASE a = b
    <3>1. Settled'[a] = Handled(Settled[a], m)
      BY <2>2, <2>3, <2>4, SavedSettles
    <3>2. Settled'[a].credits = c /\ Settled'[a].item = Settled[a].item
      BY <1>0, <2>2, <3>1 DEF Handled, Credited, Rows
    <3>3. /\ sess'[a].credits = c /\ sess'[a].item = sess[a].item
          /\ sess'[a].late = sess[a].late /\ sess'[a].seen = sess[a].seen
      BY <1>0, <2>1, <2>3, <2>4 DEF Loads
    <3> QED
      BY <1>0, <2>1, <2>3, <2>4, <3>2, <3>3 DEF Durable
  <2>5. CASE a # b
    <3>1. Settled'[a] = Settled[a]
      BY <2>2, <2>3, <2>5, SavedSettles
    <3> QED
      BY <1>0, <1>1, <2>3, <2>5, <3>1
  <2> QED
    BY <2>4, <2>5
<1>11. ASSUME NEW b \in Avatars, NEW f \in Places, NEW t \in Places, MoveItem(b, f, t) PROVE Durable(a)'
  <2> DEFINE m == [code |-> "move", av |-> b, from |-> f, to |-> t]
  <2>1. sess[b] \in Loads /\ sess[b].stage = "in"
    BY <1>0, <1>11, SessionFacts DEF MoveItem, Playing
  <2>2. m \in Saves /\ m.av = b /\ m.code = "move" /\ m.from = f /\ m.to = t
    BY DEF Saves, Moves
  <2>3. /\ Save(<<m>>) /\ row' = row /\ web' = web /\ used'.faults = used.faults
        /\ sess' = [sess EXCEPT ![b].item = (@ \ {f}) \cup {t}]
    BY <1>5, <1>11 DEF MoveItem
  <2> HIDE DEF m
  <2>4. CASE a = b
    <3>1. Settled'[a] = Handled(Settled[a], m)
      BY <2>2, <2>3, <2>4, SavedSettles
    <3>2. /\ Settled'[a].credits = Settled[a].credits
          /\ Settled'[a].item = (Settled[a].item \ {f}) \cup {t}
      BY <1>0, <2>2, <3>1 DEF Handled, Moved, PutIn, TakeOut, Rows
    <3>3. /\ sess'[a].credits = sess[a].credits /\ sess'[a].item = (sess[a].item \ {f}) \cup {t}
          /\ sess'[a].late = sess[a].late /\ sess'[a].seen = sess[a].seen
      BY <1>0, <2>1, <2>3, <2>4 DEF Loads
    <3> QED
      BY <1>0, <2>1, <2>3, <2>4, <3>2, <3>3 DEF Durable
  <2>5. CASE a # b
    <3>1. Settled'[a] = Settled[a]
      BY <2>2, <2>3, <2>5, SavedSettles
    <3> QED
      BY <1>0, <1>1, <2>3, <2>5, <3>1
  <2> QED
    BY <2>4, <2>5
<1>12. ASSUME NEW b \in Avatars, DropPlayerFromGalaxy(b) PROVE Durable(a)'
  <2>1. Settled'[a].credits = Settled[a].credits /\ Settled'[a].item = Settled[a].item
    BY <1>3, <1>12 DEF DropPlayerFromGalaxy
  <2>2. CASE a = b
    <3>1. sess'[a].stage = "none"
      BY <1>0, <1>12, <2>2 DEF DropPlayerFromGalaxy, None
    <3> QED
      BY <1>4, <3>1
  <2>3. CASE a # b
    BY <1>0, <1>1, <1>12, <2>1, <2>3 DEF DropPlayerFromGalaxy
  <2> QED
    BY <2>2, <2>3
<1>13. ASSUME NEW b \in Avatars, WebCredit(b) PROVE Durable(a)'
  <2>1. CASE a = b
    <3>1. web'[a] = web[a] + 1 /\ web[a] \in Nat /\ sess'[a] = sess[a]
      BY <1>0, <1>13, <2>1 DEF WebCredit
    <3>2. sess[a].stage \in {"loaded", "in"} => sess[a].seen <= web[a] /\ sess[a].seen \in Nat
      BY <1>0, SessionFacts DEF MemoryInv, HistoryInv, Loads
    <3> QED
      BY <3>1, <3>2 DEF Durable
  <2>2. CASE a # b
    <3>1. row' = [row EXCEPT ![b].credits = @ + 1] /\ queue' = queue
      BY <1>13 DEF WebCredit
    <3>2. row' \in [Avatars -> Rows] /\ row'[a] = row[a]
      <4>1. row[b].credits < MaxCredits /\ MaxCredits \in Nat /\ row[b] \in Rows
        BY <1>0, <1>13, BoundsAssumption DEF WebCredit
      <4>2. [row[b] EXCEPT !.credits = row[b].credits + 1] \in Rows
        BY <4>1 DEF Rows
      <4> QED
        BY <1>0, <2>2, <3>1, <4>2
    <3>3. Fold(row', queue)[a] = Fold(row, queue)[a]
      BY <1>0, <3>2, FoldOf
    <3>4. Settled'[a] = Settled[a]
      BY <3>1, <3>3 DEF Settled, Fold
    <3> QED
      BY <1>0, <1>1, <1>13, <2>2, <3>4 DEF WebCredit
  <2> QED
    BY <2>1, <2>2
<1>14. CASE HandleSaveCode
  BY <1>1, <1>14, TakenSettles DEF HandleSaveCode
<1>15. CASE SaveFails \/ MoveFirstSlot
  BY <1>0, <1>4, <1>15 DEF SaveFails, MoveFirstSlot, Fault
<1>16. CASE MoveSecondSlot
  BY <1>4, <1>16 DEF MoveSecondSlot, MemoryInv, HistoryInv
<1>17. CASE Crash
  BY <1>4, <1>17 DEF Crash, None
<1>18. CASE Boot
  BY <1>4, <1>18 DEF Boot, DownInv, None
<1> QED
  BY <1>6, <1>7, <1>8, <1>9, <1>10, <1>11, <1>12, <1>13, <1>14, <1>15, <1>16, <1>17, <1>18 DEF Next

\* The saves add up (MemoryIsDurable), through moves, logouts, relogins and crashes:
\* what AddSaveMessage queued, HandleSaveCode will have written.
THEOREM MemoryIsKept == RecordsSpec => []MemoryIsDurable
<1>1. RecordsInit => MemoryInv
  <2> SUFFICES ASSUME RecordsInit PROVE MemoryInv
    OBVIOUS
  <2>1. half = None /\ \A a \in Avatars : sess[a].stage = "none"
    BY DEF RecordsInit, Init, None
  <2> QED
    BY <2>1 DEF MemoryInv, HistoryInv, Durable
<1>2. AvatarInv /\ MemoryInv /\ [RecordsNext]_recordVars => MemoryInv'
  <2> SUFFICES ASSUME AvatarInv, MemoryInv, [RecordsNext]_recordVars PROVE MemoryInv'
    OBVIOUS
  <2>1. CASE Next
    <3>1. HistoryInv'
      BY <2>1, HistoryStep DEF AvatarInv, MemoryInv
    <3>2. \A a \in Avatars : Durable(a)'
      BY <2>1, DurableStep DEF AvatarInv
    <3> QED
      BY <3>1, <3>2 DEF MemoryInv
  <2>2. CASE UNCHANGED vars
    <3>1. /\ sess' = sess /\ web' = web /\ half' = half /\ used' = used
          /\ row' = row /\ queue' = queue
      BY <2>2 DEF vars
    <3>2. Settled' = Settled
      BY <3>1 DEF Settled
    <3> QED
      BY <3>1, <3>2 DEF MemoryInv, HistoryInv, Durable
  <2> QED
    BY <2>1, <2>2 DEF RecordsNext, InAvatar, InOutbox, recordVars
<1>3. MemoryInv => MemoryIsDurable
  BY DEF MemoryInv, Durable, MemoryIsDurable
<1> QED
  BY <1>1, <1>2, <1>3, AvatarInit, AvatarStep, PTL DEF RecordsSpec

=============================================================================
