---------------------------- MODULE AvatarSession ---------------------------
(***************************************************************************)
(* What the database knows of an avatar that is played: the session in the *)
(* game server's memory, the asynchronous absolute saves of SaveManager,   *)
(* the stamps that say who is online, the website's guarded writes, and a  *)
(* server that may crash and is started again.  The avatars belong to one  *)
(* account and may be played at the same time.  Of what an avatar owns the *)
(* model keeps its credits and one item, in the cargo hold or the vault.   *)
(***************************************************************************)
EXTENDS Integers, Sequences, FiniteSets, SequencesExt

CONSTANTS
    Avatars,
    MaxCredits,     \* bound: credits
    Horizon,        \* bound: seconds
    Queued,         \* bound: saves waiting
    Changes,        \* bound: changes made in the game
    WebMax,         \* bound: writes by the website
    Crashes,        \* bound: crashes
    Faults          \* bound: statements the database refuses

ASSUME BoundsAssumption ==
    /\ {MaxCredits, Horizon, Queued, Changes, WebMax, Crashes, Faults} \subseteq Nat
    /\ Horizon # 0

VARIABLES
    clock,      \* time(), seconds
    row,        \* row[a]: what the tables hold of avatar a
    account,    \* the accounts row: last_login, last_logout
    queue,      \* m_SaveQueue
    half,       \* a move being written slot by slot, or None
    sess,       \* sess[a]: the Player object of avatar a, or None
    ticket,     \* a validated ticket no avatar was selected with yet
    up,         \* the server runs
    web,        \* history: web[a], the website's writes to a
    torn,       \* history: avatars a crash caught with half a move written
    used        \* bounds: changes, crashes and faults so far

vars == <<clock, row, account, queue, half, sess, ticket, up, web, torn, used>>

None == [stage |-> "none"]
Places == {"cargo", "vault"}

Init ==
    /\ clock = 1
    /\ row = [a \in Avatars |-> [credits |-> 0, item |-> {"cargo"}, login |-> 0, logout |-> 0]]
    /\ account = [login |-> 0, logout |-> 0]
    /\ queue = <<>>
    /\ half = None
    /\ sess = [a \in Avatars |-> None]
    /\ ticket = FALSE
    /\ up = TRUE
    /\ web = [a \in Avatars |-> 0]
    /\ torn = {}
    /\ used = [changes |-> 0, crashes |-> 0, faults |-> 0]

Online(r) == r.login > r.logout
Playing(a) == sess[a].stage = "in"

-----------------------------------------------------------------------------
(* The game server's threads                                               *)

\* AddSaveMessage
Save(msgs) == Len(queue) + Len(msgs) <= Queued /\ queue' = queue \o msgs

\* Mutant: local time, ahead of what the other stamps are in.
StampLocal(code, a) == [code |-> code, av |-> a, at |-> clock + 1]

\* SaveLogin, SaveLogout
Stamp(code, a) == [code |-> code, av |-> a, at |-> clock]

\* ProcessTicketInfo, and UpdateLoginTime, which writes on the spot.
ProcessTicketInfo ==
    /\ up
    /\ ticket' = TRUE
    /\ account' = [account EXCEPT !.login = clock]
    /\ UNCHANGED <<clock, row, queue, half, sess, up, web, torn, used>>

\* CheckForDuplicatePlayers drops the avatar's session, if there is one.
Duplicates(a) == IF sess[a] = None THEN <<>> ELSE <<Stamp("logout", a)>>

\* HandleGlobalTicketRequest
Select(a) ==
    /\ up
    /\ ticket
    /\ ticket' = FALSE
    /\ Save(Duplicates(a))
    /\ sess' = [sess EXCEPT ![a] = [stage |-> "selected", since |-> clock]]
    /\ UNCHANGED <<clock, row, account, half, up, web, torn, used>>

\* Saves of avatar a that are still to be written.
Pending(a) == \E i \in 1..Len(queue) : queue[i].av = a
Unwritten(a) == Pending(a) \/ (half # None /\ half.av = a)

\* FirstLogin reads the tables, on the login thread; seen and late are history:
\* the website's writes it read, and whether it read before the last session's
\* saves were written.
FirstLogin(a) ==
    /\ sess[a].stage = "selected"
    /\ sess' = [sess EXCEPT ![a] = [stage |-> "loaded", since |-> @.since,
                                    credits |-> row[a].credits, item |-> row[a].item,
                                    seen |-> web[a], late |-> Unwritten(a)]]
    /\ UNCHANGED <<clock, row, account, queue, half, ticket, up, web, torn, used>>

\* Mutant: the handshake may end in the second it began in.
HandshakeInstant(a) == TRUE

\* The thirteen stages take a pass of 100 ms each, more than a second.
HandshakeOver(a) == clock > sess[a].since

\* CompleteLogin stamps the login, through the save queue.
CompleteLogin(a) ==
    /\ sess[a].stage = "loaded"
    /\ HandshakeOver(a)
    /\ Save(<<Stamp("login", a)>>)
    /\ sess' = [sess EXCEPT ![a].stage = "in"]
    /\ UNCHANGED <<clock, row, account, half, ticket, up, web, torn, used>>

Spend == used.changes < Changes /\ used' = [used EXCEPT !.changes = @ + 1]

\* A purchase, a reward: the new credits, saved as they are.
ChangeCredits(a, c) ==
    /\ Playing(a)
    /\ Spend
    /\ c # sess[a].credits
    /\ sess' = [sess EXCEPT ![a].credits = c]
    /\ Save(<<[code |-> "credits", av |-> a, credits |-> c, seen |-> sess[a].seen]>>)
    /\ UNCHANGED <<clock, row, account, half, ticket, up, web, torn>>

\* SaveInventoryMove: both slots in one message.
MoveItem(a, from, to) ==
    /\ Playing(a)
    /\ Spend
    /\ from \in sess[a].item /\ to \notin sess[a].item
    /\ sess' = [sess EXCEPT ![a].item = (@ \ {from}) \cup {to}]
    /\ Save(<<[code |-> "move", av |-> a, from |-> from, to |-> to]>>)
    /\ UNCHANGED <<clock, row, account, half, ticket, up, web, torn>>

\* DropPlayerFromGalaxy: logout, kick, idle reap, at any stage.
DropPlayerFromGalaxy(a) ==
    /\ sess[a] # None
    /\ Save(<<Stamp("logout", a)>>)
    /\ sess' = [sess EXCEPT ![a] = None]
    /\ UNCHANGED <<clock, row, account, half, ticket, up, web, torn, used>>

-----------------------------------------------------------------------------
(* SaveManager::CheckSaves, on the save thread                             *)

\* The slots of a move, written one after the other.
TakeOut(r, m) == [r EXCEPT !.item = @ \ {m.from}]
PutIn(r, m) == [r EXCEPT !.item = @ \cup {m.to}]

\* Mutant: the transaction ends after the slot the item leaves.
MovedHalf(r, m) == TakeOut(r, m)

\* HandleMoveInventory, committed.
Moved(r, m) == PutIn(TakeOut(r, m), m)

\* HandleLogout, on avatar_info.
LoggedOut(r, m) == [r EXCEPT !.logout = m.at]

\* Mutant: the change is added to what the table holds.
CreditedMore(r, m) == [r EXCEPT !.credits = @ + m.credits]

\* HandleCreditChange
Credited(r, m) == [r EXCEPT !.credits = m.credits]

Handled(r, m) ==
    CASE m.code = "login" -> [r EXCEPT !.login = m.at]
      [] m.code = "logout" -> LoggedOut(r, m)
      [] m.code = "credits" -> Credited(r, m)
      [] m.code = "move" -> Moved(r, m)

\* The tables, with a save written to them.
Applied(rows, m) == [rows EXCEPT ![m.av] = Handled(@, m)]

Taking == up /\ queue # <<>> /\ half = None
Fault == used.faults < Faults /\ used' = [used EXCEPT !.faults = @ + 1]

HandleSaveCode ==
    LET m == Head(queue)
    IN  /\ Taking
        /\ queue' = Tail(queue)
        /\ row' = Applied(row, m)
        /\ account' = IF m.code = "logout" THEN [account EXCEPT !.logout = m.at] ELSE account
        /\ UNCHANGED <<clock, half, sess, ticket, up, web, torn, used>>

\* The statement fails: it is logged, a move is rolled back, the save is gone.
SaveFails ==
    /\ Taking
    /\ Fault
    /\ queue' = Tail(queue)
    /\ UNCHANGED <<clock, row, account, half, sess, ticket, up, web, torn>>

\* begin() fails: HandleMoveInventory writes its slots each on its own.
MoveFirstSlot ==
    LET m == Head(queue)
    IN  /\ Taking /\ m.code = "move"
        /\ Fault
        /\ queue' = Tail(queue)
        /\ half' = m
        /\ row' = [row EXCEPT ![m.av] = TakeOut(@, m)]
        /\ UNCHANGED <<clock, account, sess, ticket, up, web, torn>>

MoveSecondSlot ==
    /\ up /\ half # None
    /\ row' = [row EXCEPT ![half.av] = PutIn(@, half)]
    /\ half' = None
    /\ UNCHANGED <<clock, account, queue, sess, ticket, up, web, torn, used>>

-----------------------------------------------------------------------------
(* Around the server                                                       *)

\* The process is gone, and what it had not written with it.
Crash ==
    /\ up
    /\ used.crashes < Crashes
    /\ used' = [used EXCEPT !.crashes = @ + 1]
    /\ up' = FALSE
    /\ queue' = <<>>
    /\ sess' = [a \in Avatars |-> None]
    /\ ticket' = FALSE
    /\ half' = None
    /\ torn' = IF half = None THEN torn ELSE torn \cup {half.av}
    /\ UNCHANGED <<clock, row, account, web>>

\* Mutant: the sweep forgets the avatars.
SweptAccount(r) == r

\* RunServer logs out whoever the last run left online.
Swept(r) == IF Online(r) THEN [r EXCEPT !.logout = clock] ELSE r

Boot ==
    /\ ~up
    /\ up' = TRUE
    /\ row' = [a \in Avatars |-> Swept(row[a])]
    /\ account' = IF Online(account) THEN [account EXCEPT !.logout = clock] ELSE account
    /\ UNCHANGED <<clock, queue, half, sess, ticket, web, torn, used>>

\* assertAvatarOffline and a credit, in one transaction of the website.
WebCredit(a) ==
    /\ web[a] < WebMax
    /\ ~Online(row[a])
    /\ row[a].credits < MaxCredits
    /\ row' = [row EXCEPT ![a].credits = @ + 1]
    /\ web' = [web EXCEPT ![a] = @ + 1]
    /\ UNCHANGED <<clock, account, queue, half, sess, ticket, up, torn, used>>

Tick ==
    /\ clock < Horizon
    /\ clock' = clock + 1
    /\ UNCHANGED <<row, account, queue, half, sess, ticket, up, web, torn, used>>

-----------------------------------------------------------------------------
SaveThread == HandleSaveCode \/ MoveSecondSlot

Next ==
    \/ ProcessTicketInfo
    \/ \E a \in Avatars :
        \/ Select(a)
        \/ FirstLogin(a)
        \/ CompleteLogin(a)
        \/ \E c \in 0..MaxCredits : ChangeCredits(a, c)
        \/ \E from, to \in Places : MoveItem(a, from, to)
        \/ DropPlayerFromGalaxy(a)
        \/ WebCredit(a)
    \/ HandleSaveCode
    \/ SaveFails
    \/ MoveFirstSlot
    \/ MoveSecondSlot
    \/ Crash
    \/ Boot
    \/ Tick

\* The save thread polls its queue every 10 ms, and a server that went down is
\* started again.
Fairness == WF_vars(SaveThread) /\ WF_vars(Boot)

Spec == Init /\ [][Next]_vars /\ Fairness

-----------------------------------------------------------------------------
(* Properties                                                              *)

Seconds == 0..Horizon
Sessions ==
    {None}
    \cup [stage : {"selected"}, since : Seconds]
    \cup [stage : {"loaded", "in"}, since : Seconds, credits : 0..MaxCredits,
          item : SUBSET Places, seen : 0..WebMax, late : BOOLEAN]
Moves == [code : {"move"}, av : Avatars, from : Places, to : Places]
Saves ==
    [code : {"login", "logout"}, av : Avatars, at : Seconds]
    \cup [code : {"credits"}, av : Avatars, credits : 0..MaxCredits, seen : 0..WebMax]
    \cup Moves

TypeOK ==
    /\ clock \in Seconds
    /\ row \in [Avatars -> [credits : 0..MaxCredits, item : SUBSET Places,
                            login : Seconds, logout : Seconds]]
    /\ account \in [login : Seconds, logout : Seconds]
    /\ queue \in Seq(Saves)
    /\ half \in {None} \cup Moves
    /\ sess \in [Avatars -> Sessions]
    /\ {ticket, up} \subseteq BOOLEAN
    /\ web \in [Avatars -> 0..WebMax]
    /\ torn \subseteq Avatars
    /\ used \in [changes : 0..Changes, crashes : 0..Crashes, faults : 0..Faults]

\* What the tables will hold once the queue is empty.
Settled == FoldLeft(Applied, row, queue)

\* The saves add up: with what is in the queue the tables come to hold just
\* what a session has in memory, through moves, logouts, relogins and crashes,
\* if its tables were up to date when it read them, the website has not
\* written since, and the database refused nothing.
MemoryIsDurable ==
    \A a \in Avatars :
        /\ sess[a].stage \in {"loaded", "in"}
        /\ ~sess[a].late /\ sess[a].seen = web[a] /\ used.faults = 0
        =>
        /\ Settled[a].credits = sess[a].credits
        /\ Settled[a].item = sess[a].item

\* The comment in HandleMoveInventory: "a crash mid-move can neither duplicate
\* the item (some slots written, some not) nor lose it", unless the move was
\* written without a transaction.
MoveAtomic ==
    \A a \in Avatars \ torn :
        Cardinality(row[a].item) = 1 \/ (half # None /\ half.av = a)

\* An avatar in the game whose login was written is online to the website,
\* whatever the earlier sessions' stamps, the relogins and the restarts, unless
\* the database refused the stamp.
OnlineSeen ==
    \A a \in Avatars :
        Playing(a) /\ ~Pending(a) /\ used.faults = 0 => Online(row[a])

\* An avatar that is not played does not stay online: its logout is written,
\* or the next start of the server makes up for it, unless the database
\* refused the stamp.
OfflineSeen ==
    \A a \in Avatars :
        (sess[a] = None) ~> (~Online(row[a]) \/ sess[a] # None \/ used.faults > 0)

\* The comment on assertAvatarOffline: once the website has written, the
\* character "cannot transition to online until our transaction commits", so
\* no session saves credits it loaded before the website changed them.
NoLostUpdate ==
    \A i \in 1..Len(queue) : queue[i].code = "credits" => queue[i].seen = web[queue[i].av]

\* The comment in ProcessTicketInfo: "an account is online iff
\* accounts.last_login > accounts.last_logout".
AccountOnline ==
    queue = <<>> /\ (\E a \in Avatars : Playing(a)) => Online(account)
=============================================================================
