----------------------------- MODULE MCRecords ------------------------------
(***************************************************************************)
(* What the server leaves in its database, in small instances: the records *)
(* of an avatar that is played (avatar), and the status events on their    *)
(* way to Discord (outbox).  The two share no variable, so that their      *)
(* steps commute and it is enough to let one of them move: a behaviour is  *)
(* one of its part.                                                        *)
(***************************************************************************)
EXTENDS AvatarSession

CONSTANTS
    Parts,
    Players, Switchable, MaxEvents, MaxFaults   \* see Outbox

VARIABLES
    part,
    down, events, rows, sent, on, lines, deleted, notifier, batch, enabled,
    tracker, forgotten, emitted, faults

outboxVars == <<down, events, rows, sent, on, lines, deleted, notifier, batch,
                enabled, tracker, forgotten, emitted, faults>>
recordVars == <<part, vars, outboxVars>>

Outbox == INSTANCE Outbox WITH queue <- events, pc <- notifier

\* Admins switch off anything but wrecks and jumpstarts.
ASSUME OutboxAssumption ==
    Outbox!BoundsAssumption /\ Outbox!SwitchableAssumption /\ Outbox!WrecksStayOn

RecordsInit == part \in Parts /\ Init /\ Outbox!Init

InAvatar(A) == part = "avatar" /\ A /\ UNCHANGED <<part, outboxVars>>
InOutbox(A) == part = "outbox" /\ A /\ UNCHANGED <<part, vars>>

RecordsNext == InAvatar(Next) \/ InOutbox(Outbox!Next)

\* The fairness of each part, see its module.
RecordsFairness ==
    /\ WF_recordVars(InAvatar(SaveThread)) /\ WF_recordVars(InAvatar(Boot))
    /\ WF_recordVars(InOutbox(Outbox!Connect)) /\ WF_recordVars(InOutbox(Outbox!Wake))
    /\ WF_recordVars(InOutbox(Outbox!SelectUnsent))
    /\ WF_recordVars(InOutbox(Outbox!Suppress)) /\ WF_recordVars(InOutbox(Outbox!Consume))
    /\ WF_recordVars(InOutbox(Outbox!Mark)) /\ WF_recordVars(InOutbox(Outbox!Drained))
    /\ WF_recordVars(InOutbox(Outbox!Restart))
    /\ SF_recordVars(InOutbox(Outbox!Post))
    /\ WF_recordVars(InOutbox(Outbox!DeliveryFails))
    /\ \A p \in Players : WF_recordVars(InOutbox(Outbox!WindowElapses(p)))

RecordsSpec == RecordsInit /\ [][RecordsNext]_recordVars /\ RecordsFairness

\* What the tables say of an avatar is true: it is online when it is played and its
\* login was written (OnlineSeen), and its item is in one place, whatever a crash
\* cut short (MoveAtomic: "a crash mid-move can neither duplicate the item nor lose
\* it", HandleMoveInventory).
RowsTrue == TypeOK /\ OnlineSeen /\ MoveAtomic

\* The channel tells what the table of events says, over failures, reconnects and
\* restarts of the notifier: in order (drain stops at the first failure), nothing
\* marked sent that is not posted, a line repeated only after a lost mark or a
\* misreported post, and a jumpstart strikes the wreck it revives from and no other.
ChannelFaithful ==
    /\ Outbox!TypeOK
    /\ Outbox!InOrder /\ Outbox!NothingDropped /\ Outbox!RepeatedByFaults
    /\ Outbox!Annotated /\ Outbox!RightWreck

\* Every row is resolved in the end: a line that can never be edited again
\* holds the rows behind it up for the jumpstart window and no longer.
Resolved == Outbox!Resolved
=============================================================================
