------------------------------- MODULE Outbox -------------------------------
(***************************************************************************)
(* Status events from the game server to a Discord channel.                *)
(*                                                                         *)
(* EmitExternalStatusEvent queues an event for the save thread, whose      *)
(* HandleExternalStatusEvent inserts a row into external_status_events.    *)
(* The status-notifier process (src/freya/status-notifier) drains the      *)
(* unsent rows in order: it posts a line, then marks the row sent.  Both   *)
(* the database and Discord may fail in between, a post may be accepted    *)
(* and reported as failed, and the process may die at any point.  A wreck  *)
(* line is remembered in the notifier's memory, so that the jumpstart of   *)
(* the same player within the window strikes it through.                   *)
(***************************************************************************)
EXTENDS Naturals, Sequences, FiniteSets

CONSTANTS
    Players,      \* avatar names
    Switchable,   \* the kinds an admin may switch off with /notify
    MaxEvents,    \* bound: events the server emits
    MaxFaults     \* bound: database errors, misreported posts and crashes

Kinds == {"player_destroyed", "jumpstarted", "login"}

BoundsAssumption == MaxEvents \in Nat /\ MaxFaults \in Nat
SwitchableAssumption == Switchable \subseteq Kinds
\* Wrecks and jumpstarts are always told.
WrecksStayOn == Switchable \cap {"player_destroyed", "jumpstarted"} = {}

VARIABLES
    down,      \* the players whose ship is incapacitated
    queue,     \* save queue: events waiting for the save thread
    rows,      \* every event inserted so far; the id of a row is its index
    sent,      \* ids with sent_at set
    on,        \* status_notification_settings: the kinds switched on
    lines,     \* the channel: [row, struck]; struck is 0 or a jumpstart's id
    deleted,   \* lines a moderator removed from the channel
    pc,        \* notifier: off, connect, select, deliver, mark, wait
    batch,     \* ids the current drain has still to go through
    enabled,   \* the switches as read by the current drain
    tracker,   \* deathTracker.m: player -> [line, fresh]
    forgotten, \* history: lines the tracker may have lost (window, restart)
    emitted, faults

server == <<down, queue, emitted>>
table  == <<rows, sent>>
discord == <<lines, deleted>>
vars == <<server, table, on, discord, pc, batch, enabled, tracker, forgotten,
          faults>>

Events == [kind : Kinds, player : Players]
NoWreck == [line |-> 0, fresh |-> FALSE]
Ids == 1..Len(rows)

Init ==
    /\ down = {} /\ queue = <<>> /\ emitted = 0
    /\ rows = <<>> /\ sent = {}
    /\ on = Kinds
    /\ lines = <<>> /\ deleted = {}
    /\ pc = "connect" /\ batch = <<>> /\ enabled = Kinds
    /\ tracker = [p \in Players |-> NoWreck]
    /\ forgotten = {} /\ faults = 0

(***************************************************************************)
(* The game server.                                                        *)
(***************************************************************************)
EmitExternalStatusEvent(k, p) ==
    /\ emitted < MaxEvents
    /\ queue' = Append(queue, [kind |-> k, player |-> p])
    /\ emitted' = emitted + 1

\* The hull reaches zero "but only once".
Destroyed(p) ==
    /\ p \notin down
    /\ down' = down \cup {p}
    /\ EmitExternalStatusEvent("player_destroyed", p)

JumpStart(p) ==
    /\ p \in down
    /\ down' = down \ {p}
    /\ EmitExternalStatusEvent("jumpstarted", p)

\* The player is towed to a station instead; nothing is emitted.
Towed(p) ==
    /\ p \in down
    /\ down' = down \ {p}
    /\ UNCHANGED <<queue, emitted>>

Login(p) ==
    /\ EmitExternalStatusEvent("login", p)
    /\ UNCHANGED down

Server(p) ==
    /\ Destroyed(p) \/ JumpStart(p) \/ Towed(p) \/ Login(p)
    /\ UNCHANGED <<table, on, discord, pc, batch, enabled, tracker, forgotten,
                   faults>>

\* One INSERT per event, on the single save thread.
HandleExternalStatusEvent ==
    /\ queue # <<>>
    /\ queue' = Tail(queue)
    /\ rows' = Append(rows, Head(queue))
    /\ UNCHANGED <<down, emitted, sent, on, discord, pc, batch, enabled,
                   tracker, forgotten, faults>>

(***************************************************************************)
(* Admins and moderators.                                                  *)
(***************************************************************************)
SetKindEnabled(k) ==
    /\ k \in Switchable
    /\ on' = IF k \in on THEN on \ {k} ELSE on \cup {k}
    /\ UNCHANGED <<server, table, discord, pc, batch, enabled, tracker,
                   forgotten, faults>>

\* A wreck line is removed from the channel before its jumpstart.
Moderate(l) ==
    /\ l \notin deleted
    /\ \E p \in Players : tracker[p].line = l /\ tracker[p].fresh
    /\ deleted' = deleted \cup {l}
    /\ UNCHANGED <<server, table, on, lines, pc, batch, enabled, tracker,
                   forgotten, faults>>

(***************************************************************************)
(* The wreck tracker: one record per player, good for the jumpstart        *)
(* window.                                                                 *)
(***************************************************************************)

\* A player's first wreck stays on file.
RecordDeathFirst(p, l) ==
    IF tracker[p].line # 0 THEN tracker
    ELSE [tracker EXCEPT ![p] = [line |-> l, fresh |-> TRUE]]

RecordDeath(p, l) ==
    [q \in Players |-> IF q = p THEN [line |-> l, fresh |-> TRUE]
                       ELSE IF tracker[q].fresh THEN tracker[q]
                       ELSE NoWreck]

\* A record whose window closed still counts.
RecentDeathAlways(p) == tracker[p].line # 0

RecentDeath(p) == tracker[p].line # 0 /\ tracker[p].fresh

Clear(p) == [tracker EXCEPT ![p] = NoWreck]

\* The window closes on a player's wreck.
WindowElapses(p) ==
    /\ tracker[p].fresh
    /\ tracker' = [tracker EXCEPT ![p].fresh = FALSE]
    /\ forgotten' = forgotten \cup {tracker[p].line}
    /\ UNCHANGED <<server, table, on, discord, pc, batch, enabled, faults>>

(***************************************************************************)
(* The notifier.  A database error returns from run and reconnects.        *)
(***************************************************************************)
At(from, to) == pc = from /\ pc' = to

\* drain returns, and its local variables are gone.
LeaveDrain == batch' = <<>> /\ enabled' = Kinds

Fault == faults < MaxFaults /\ faults' = faults + 1

Event == rows[Head(batch)]

Suppressed == Event.kind \notin enabled

Connect ==
    /\ At("connect", "select")
    /\ UNCHANGED <<server, table, on, discord, batch, enabled, tracker,
                   forgotten, faults>>

\* A NOTIFY, or 60 seconds without one.
Wake ==
    /\ At("wait", "select")
    /\ UNCHANGED <<server, table, on, discord, batch, enabled, tracker,
                   forgotten, faults>>

\* WHERE sent_at IS NULL ORDER BY id (one sequence: each number has the smaller
\* ones before it).
Unsent == {b \in [1..Cardinality(Ids \ sent) -> Ids \ sent] :
              \A i \in DOMAIN b : \A j \in Ids \ sent :
                  (j < b[i]) <=> (\E h \in 1..(i - 1) : b[h] = j)}

\* The batch, then the switches: a failed read of these means all are on.
SelectUnsent ==
    /\ At("select", "deliver")
    /\ batch' \in Unsent
    /\ enabled' \in {on, Kinds}
    /\ UNCHANGED <<server, table, on, discord, tracker, forgotten, faults>>

\* drain goes on to the next row when one cannot be delivered.
DeliveryFailsSkips ==
    /\ pc = "deliver" /\ pc' = pc
    /\ batch # <<>> /\ ~Suppressed
    /\ Event.kind = "jumpstarted" => RecentDeath(Event.player)
    /\ batch' = Tail(batch)
    /\ UNCHANGED <<server, table, on, discord, enabled, tracker, forgotten,
                   faults>>

\* The row is marked although the post failed.
DeliveryFailsMarks ==
    /\ At("deliver", "mark")
    /\ batch # <<>> /\ ~Suppressed
    /\ UNCHANGED <<server, table, on, discord, batch, enabled, tracker,
                   forgotten, faults>>

\* The wreck is taken off the file before the edit is known to have worked.
DeliveryFailsClears ==
    /\ At("deliver", "wait")
    /\ batch # <<>> /\ ~Suppressed
    /\ Event.kind = "jumpstarted" => RecentDeath(Event.player)
    /\ LeaveDrain
    /\ tracker' = IF Event.kind = "jumpstarted" THEN Clear(Event.player) ELSE tracker
    /\ UNCHANGED <<server, table, on, discord, forgotten, faults>>

\* Ends drain at the first row Discord does not take.
DeliveryFails ==
    /\ At("deliver", "wait")
    /\ batch # <<>> /\ ~Suppressed
    /\ Event.kind = "jumpstarted" => RecentDeath(Event.player)
    /\ LeaveDrain
    /\ UNCHANGED <<server, table, on, discord, tracker, forgotten,
                   faults>>

Suppress ==
    /\ pc = "deliver" /\ batch # <<>> /\ Suppressed
    /\ sent' = sent \cup {Head(batch)}
    /\ batch' = Tail(batch)
    /\ UNCHANGED <<server, rows, on, discord, pc, enabled, tracker,
                   forgotten, faults>>

Line == [row |-> Head(batch), struck |-> 0]

Post ==
    /\ At("deliver", "mark")
    /\ batch # <<>> /\ ~Suppressed /\ Event.kind # "jumpstarted"
    /\ lines' = Append(lines, Line)
    /\ tracker' = IF Event.kind = "player_destroyed"
                  THEN RecordDeath(Event.player, Len(lines')) ELSE tracker
    /\ UNCHANGED <<server, table, on, deleted, batch, enabled, forgotten,
                   faults>>

\* Discord takes the post, and the notifier sees an error: the id is lost.
PostMisreported ==
    /\ At("deliver", "wait")
    /\ Fault
    /\ batch # <<>> /\ ~Suppressed /\ Event.kind # "jumpstarted"
    /\ lines' = Append(lines, Line)
    /\ LeaveDrain
    /\ UNCHANGED <<server, table, on, deleted, tracker, forgotten>>

Strike(l) == [lines EXCEPT ![l].struck = Head(batch)]

Edit ==
    /\ At("deliver", "mark")
    /\ batch # <<>> /\ ~Suppressed /\ Event.kind = "jumpstarted"
    /\ RecentDeath(Event.player)
    /\ tracker[Event.player].line \notin deleted
    /\ lines' = Strike(tracker[Event.player].line)
    /\ tracker' = Clear(Event.player)
    /\ UNCHANGED <<server, table, on, deleted, batch, enabled, forgotten,
                   faults>>

\* No wreck on file, or one past its window, which is dropped.
Consume ==
    /\ At("deliver", "mark")
    /\ batch # <<>> /\ ~Suppressed /\ Event.kind = "jumpstarted"
    /\ ~RecentDeath(Event.player)
    /\ tracker' = Clear(Event.player)
    /\ UNCHANGED <<server, table, on, discord, batch, enabled, forgotten,
                   faults>>

\* drain returns after a post, before the row is marked.
MarkNever ==
    /\ At("mark", "wait")
    /\ LeaveDrain
    /\ UNCHANGED <<server, table, on, discord, tracker, forgotten, faults>>

Mark ==
    /\ At("mark", "deliver")
    /\ sent' = sent \cup {Head(batch)}
    /\ batch' = Tail(batch)
    /\ UNCHANGED <<server, rows, on, discord, enabled, tracker,
                   forgotten, faults>>

\* Back in run; its hourly sweep deletes rows sent long ago, which nothing
\* reads again.
Drained ==
    /\ At("deliver", "wait")
    /\ batch = <<>>
    /\ LeaveDrain
    /\ UNCHANGED <<server, table, on, discord, tracker, forgotten, faults>>

DatabaseError ==
    /\ pc \in {"select", "deliver", "mark", "wait"}
    /\ pc = "deliver" => batch # <<>> /\ Suppressed
    /\ Fault
    /\ pc' = "connect" /\ LeaveDrain
    /\ UNCHANGED <<server, table, on, discord, tracker, forgotten>>

\* The process dies, and with it everything it remembers.
Die ==
    /\ pc # "off"
    /\ Fault
    /\ pc' = "off" /\ LeaveDrain
    /\ tracker' = [p \in Players |-> NoWreck]
    /\ forgotten' = forgotten \cup 1..Len(lines)
    /\ UNCHANGED <<server, table, on, discord>>

Restart ==
    /\ At("off", "connect")
    /\ UNCHANGED <<server, table, on, discord, batch, enabled, tracker,
                   forgotten, faults>>

Notifier ==
    \/ Connect \/ Wake \/ SelectUnsent \/ DeliveryFails \/ Suppress
    \/ Post \/ PostMisreported \/ Edit \/ Consume \/ Mark \/ Drained
    \/ DatabaseError \/ Die \/ Restart

Next ==
    \/ \E p \in Players : Server(p) \/ WindowElapses(p)
    \/ HandleExternalStatusEvent
    \/ \E k \in Kinds : SetKindEnabled(k)
    \/ \E l \in 1..Len(lines) : Moderate(l)
    \/ Notifier

\* The notifier runs, wakes every 60 seconds and is restarted when it dies;
\* Discord takes a post it is offered again and again; the window elapses.
\* Nothing is asked of an edit: the message may be gone from the channel.
Fairness ==
    /\ WF_vars(Connect) /\ WF_vars(Wake) /\ WF_vars(SelectUnsent)
    /\ WF_vars(Suppress) /\ WF_vars(Consume) /\ WF_vars(Mark)
    /\ WF_vars(Drained) /\ WF_vars(Restart)
    /\ SF_vars(Post)
    /\ WF_vars(DeliveryFails)
    /\ \A p \in Players : WF_vars(WindowElapses(p))

Spec == Init /\ [][Next]_vars /\ Fairness

-----------------------------------------------------------------------------
(***************************************************************************)
(* Properties.                                                             *)
(***************************************************************************)
Lines == 1..Len(lines)
Posted(i) == \E l \in Lines : lines[l].row = i

\* The row of the wreck a jumpstart revives its player from: the latest one.
IsWreckOf(w, i) ==
    /\ w < i /\ rows[w] = [kind |-> "player_destroyed", player |-> rows[i].player]
    /\ \A v \in w + 1..i - 1 :
          rows[v] # [kind |-> "player_destroyed", player |-> rows[i].player]

\* Every variable keeps its type.
TypeOK ==
    /\ down \subseteq Players
    /\ queue \in Seq(Events) /\ rows \in Seq(Events)
    /\ sent \subseteq Ids
    /\ on \subseteq Kinds /\ enabled \subseteq Kinds
    /\ lines \in Seq([row : Ids, struck : {0} \cup Ids])
    /\ deleted \subseteq Lines /\ forgotten \subseteq Lines
    /\ pc \in {"off", "connect", "select", "deliver", "mark", "wait"}
    /\ batch \in Seq(Ids)
    /\ tracker \in [Players -> [line : {0} \cup Lines, fresh : BOOLEAN]]
    /\ emitted \in 0..MaxEvents /\ faults \in 0..MaxFaults

\* drain stops at the first row it could not deliver, and retries from there:
\* when a line is in the channel, every earlier row is already resolved, over
\* failures, reconnects and restarts.
InOrder == \A l \in Lines : 1..lines[l].row - 1 \subseteq sent

\* A row is marked sent only after its line is in the channel, unless its kind
\* may be switched off or it is a jumpstart, which is never a line of its own.
NothingDropped ==
    \A i \in sent : rows[i].kind \in Switchable \cup {"jumpstarted"} \/ Posted(i)

\* A line is repeated only when a mark was lost or a post misreported: never
\* because a later row failed, the drain was woken again or a kind switched.
RepeatedByFaults ==
    Len(lines) <= Cardinality({lines[l].row : l \in Lines}) + faults

\* A jumpstart that is resolved struck a line of the wreck it revives from,
\* unless the wreck has no line, the window closed, the notifier restarted or
\* a moderator removed the line: a failed edit is retried, not given up.
Annotated ==
    \A i \in sent, w \in Ids :
        (rows[i].kind = "jumpstarted" /\ IsWreckOf(w, i) /\ Posted(w)) =>
            \E l \in Lines : /\ lines[l].row = w
                             /\ lines[l].struck = i \/ l \in forgotten

\* What a jumpstart strikes through is the wreck it revives from, never an
\* older one of the player.
RightWreck ==
    \A l \in Lines : lines[l].struck # 0 => IsWreckOf(lines[l].row, lines[l].struck)

\* "only a full restart forgets in-flight wrecks": once a jumpstart is
\* resolved, every line of its wreck is struck, unless the window closed or
\* the notifier restarted.
OnlyRestartForgets ==
    \A i \in sent, w \in Ids :
        (rows[i].kind = "jumpstarted" /\ IsWreckOf(w, i)) =>
            \A l \in Lines : lines[l].row = w =>
                lines[l].struck = i \/ l \in forgotten

\* Every row is resolved in the end: a line that can never be edited again
\* holds the rows behind it up for the jumpstart window and no longer.
Resolved == \A i \in 1..MaxEvents : i \in Ids ~> i \in sent
=============================================================================
