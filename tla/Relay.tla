------------------------------- MODULE Relay -------------------------------
(***************************************************************************)
(* The relay server (server/server.py, server/db.py): one coroutine per    *)
(* websocket connection, a mailbox table that survives restarts, and the   *)
(* dictionary `connected` of who can be pushed to.                         *)
(*                                                                         *)
(* asyncio runs a coroutine without interruption from one `await` to the   *)
(* next.  Every `await ws.send(...)` may suspend, before the write (the    *)
(* connection's write lock is held by another coroutine) and after it (the *)
(* transport is over its high-water mark), so each action below is the     *)
(* code between two sends and any other coroutine may run between two      *)
(* actions.  A send on a connection that is no longer open raises          *)
(* ConnectionClosed; what the code does then is modelled in full.          *)
(***************************************************************************)
EXTENDS Integers, Sequences, FiniteSets

CONSTANTS Users,      (* registered accounts                               *)
          Conns,      (* websocket connections, each opened at most once   *)
          None,       (* Python's None                                     *)
          MaxMail,    (* bound: rows ever stored in the mailbox            *)
          MaxCrashes  (* bound: restarts of the server process             *)

ASSUME RelayAssumption ==
    /\ None \notin Users \cup Conns
    /\ MaxMail \in Nat
    /\ MaxCrashes \in Nat

VARIABLES
    link,       (* conn -> "fresh", "open" or "closed"                       *)
    user,       (* conn -> ClientSession.user, None until login              *)
    connected,  (* user -> the connection registered for pushes, or None     *)
    mail,       (* the mailbox table, a row's id is its index                *)
    delivered,  (* ids of the rows whose `delivered` column is 1             *)
    pc,         (* conn -> where its handler coroutine is suspended          *)
    job,        (* conn -> the handler's send_message or push loop           *)
    notify,     (* conn -> connections its presence broadcast has left       *)
    pushed,     (* conn -> ids written on it (history)                       *)
    view,       (* conn -> users its client shows online after all it was sent *)
    crashes     (* restarts so far                                           *)

vars == <<link, user, connected, mail, delivered, pc, job, notify, pushed,
          view, crashes>>

NoJob == [to |-> None, target |-> None, left |-> {}, all |-> {}]

(* A handler is in its push loop for a sender ("pushing") or in the one its *)
(* own login runs ("delivering").                                           *)
Loops == {"pushing", "delivering"}

(* Where a handler can be suspended.                                         *)
Points == Loops \cup {"new", "idle", "snapshot", "deliver", "lookup", "announcing",
                      "error", "ending", "farewell", "gone"}

Ids == DOMAIN mail

-----------------------------------------------------------------------------

(* Mutants of Pending: a query without its recipient, and one with LIMIT 1.  *)
PendingOfAnyone(u) == Ids \ delivered
PendingOne(u) ==
    {i \in Ids \ delivered : /\ mail[i].to = u
                             /\ \A j \in 1..(i - 1) : mail[j].to = u => j \in delivered}

(* fetch_pending_messages: the undelivered rows of u.                        *)
Pending(u) == {i \in Ids : mail[i].to = u /\ i \notin delivered}

(* Mutant of Oldest: ORDER BY id DESC.                                       *)
Newest(i, rows) == i \in rows /\ \A j \in rows : i >= j

(* ORDER BY id ASC: the loop sends the oldest of the rows it has left.       *)
Oldest(i, rows) == i \in rows /\ \A j \in rows : i <= j

(* Mutant of Others: None, the socket of a user who is offline, left in.     *)
OthersOrNone(dict, u) == {dict[v] : v \in Users \ {u}}

(* The sockets a presence broadcast about u goes to, given the dictionary.   *)
Others(dict, u) == {dict[v] : v \in Users \ {u}} \ {None}

(* Mutant of AfterLoop: the login forgets to say that its user is online.    *)
AfterLoopSilently(c, isLogin) ==
    /\ pc' = [pc EXCEPT ![c] = "idle"]
    /\ job' = [job EXCEPT ![c] = NoJob]
    /\ UNCHANGED notify

(* A handler that leaves its push loop, or found it empty: send_message      *)
(* returns to the `async for`, login goes on to broadcast that its user is   *)
(* online.                                                                   *)
AfterLoop(c, isLogin) ==
    LET peers == IF isLogin THEN Others(connected, user[c]) ELSE {}
    IN  /\ pc' = [pc EXCEPT ![c] = IF peers = {} THEN "idle" ELSE "announcing"]
        /\ notify' = [notify EXCEPT ![c] = peers]
        /\ job' = [job EXCEPT ![c] = NoJob]

(* _push_pending_to up to its first send: the rows are fetched once.         *)
BeginLoop(c, target, u, isLogin) ==
    IF Pending(u) = {}
      THEN AfterLoop(c, isLogin)
      ELSE /\ job' = [job EXCEPT ![c] = [to |-> u, target |-> target,
                                         left |-> Pending(u), all |-> Pending(u)]]
           /\ pc' = [pc EXCEPT ![c] = IF isLogin THEN "delivering" ELSE "pushing"]
           /\ UNCHANGED notify

(* The next state of a handler that has just tried to answer its own client. *)
Answered(c, next) == IF link[c] = "open" THEN next ELSE "ending"

-----------------------------------------------------------------------------

Init ==
    /\ link = [c \in Conns |-> "fresh"]
    /\ user = [c \in Conns |-> None]
    /\ connected = [u \in Users |-> None]
    /\ mail = <<>>
    /\ delivered = {}
    /\ pc = [c \in Conns |-> "new"]
    /\ job = [c \in Conns |-> NoJob]
    /\ notify = [c \in Conns |-> {}]
    /\ pushed = [c \in Conns |-> {}]
    /\ view = [c \in Conns |-> {}]
    /\ crashes = 0

(* A client opens a connection.                                              *)
Connect(c) ==
    /\ link[c] = "fresh"
    /\ link' = [link EXCEPT ![c] = "open"]
    /\ pc' = [pc EXCEPT ![c] = "idle"]
    /\ UNCHANGED <<user, connected, mail, delivered, job, notify, pushed, view, crashes>>

(* The client goes away, or the network does: any later send on c raises.    *)
HangUp(c) ==
    /\ link[c] = "open"
    /\ link' = [link EXCEPT ![c] = "closed"]
    /\ UNCHANGED <<user, connected, mail, delivered, pc, job, notify, pushed,
                   view, crashes>>

(* A request that is answered by an error and changes nothing: unknown type, *)
(* not authenticated, wrong password, no such user.                          *)
Refuse(c) ==
    /\ pc[c] = "idle"
    /\ pc' = [pc EXCEPT ![c] = "error"]
    /\ UNCHANGED <<link, user, connected, mail, delivered, job, notify, pushed,
                   view, crashes>>

(* _handle_login up to login_ok.  The code would take a second login on one  *)
(* connection, which neither client ever sends: not modelled.  An older      *)
(* connection of the same user stays open but is no longer pushed to.        *)
(* Frames that arrived before the connection closed are still handled.       *)
Login(c, u) ==
    /\ pc[c] = "idle"
    /\ user[c] = None
    /\ user' = [user EXCEPT ![c] = u]
    /\ connected' = [connected EXCEPT ![u] = c]
    /\ pc' = [pc EXCEPT ![c] = Answered(c, "snapshot")]
    /\ UNCHANGED <<link, mail, delivered, job, notify, pushed, view, crashes>>

(* The list of who is online, computed and sent after login_ok.              *)
Snapshot(c) ==
    /\ pc[c] = "snapshot"
    /\ pc' = [pc EXCEPT ![c] = Answered(c, "deliver")]
    /\ view' = IF link[c] = "open"
                 THEN [view EXCEPT ![c] =
                         {v \in Users \ {user[c]} : connected[v] # None}]
                 ELSE view
    /\ UNCHANGED <<link, user, connected, mail, delivered, job, notify, pushed, crashes>>

(* Mutant of Deliver: the login leaves out _deliver_pending.                 *)
DeliverNothing(c) ==
    /\ pc[c] = "deliver"
    /\ AfterLoop(c, TRUE)
    /\ UNCHANGED <<link, user, connected, mail, delivered, pushed, view, crashes>>

(* _deliver_pending: the login's own push loop begins.                       *)
Deliver(c) ==
    /\ pc[c] = "deliver"
    /\ BeginLoop(c, c, user[c], TRUE)
    /\ UNCHANGED <<link, user, connected, mail, delivered, pushed, view, crashes>>

(* _handle_send_message up to message_sent_ok: the row is stored, then the   *)
(* sender is told so.  `via` (history) is the connection it came over.       *)
SendMessage(c, to) ==
    /\ pc[c] = "idle"
    /\ user[c] # None
    /\ Len(mail) < MaxMail
    /\ mail' = Append(mail, [to |-> to, via |-> c])
    /\ job' = [job EXCEPT ![c] = IF link[c] = "open" THEN [NoJob EXCEPT !.to = to]
                                                     ELSE NoJob]
    /\ pc' = [pc EXCEPT ![c] = Answered(c, "lookup")]
    /\ UNCHANGED <<link, user, connected, delivered, notify, pushed, view, crashes>>

(* Once the reply is out, the recipient's socket is looked up and the loop   *)
(* over everything pending for it begins.                                    *)
Lookup(c) ==
    LET target == connected[job[c].to]
    IN  /\ pc[c] = "lookup"
        /\ IF target = None
             THEN AfterLoop(c, FALSE)
             ELSE BeginLoop(c, target, job[c].to, FALSE)
        /\ UNCHANGED <<link, user, connected, mail, delivered, pushed, view, crashes>>

(* One send of a push loop.                                                  *)
PushRow(c) ==
    \E row \in job[c].left :
        /\ pc[c] \in Loops
        /\ link[job[c].target] = "open"
        /\ Oldest(row, job[c].left)
        /\ pushed' = [pushed EXCEPT ![job[c].target] = @ \cup {row}]
        /\ job' = [job EXCEPT ![c].left = @ \ {row}]
        /\ UNCHANGED <<link, user, connected, mail, delivered, pc, notify, view, crashes>>

(* Mutant of PushFails: the rows of the broken loop are marked delivered all *)
(* the same.                                                                 *)
PushFailsMarks(c) ==
    /\ pc[c] \in Loops
    /\ link[job[c].target] = "closed"
    /\ delivered' = delivered \cup job[c].all
    /\ pc' = [pc EXCEPT ![c] = "error"]
    /\ job' = [job EXCEPT ![c] = NoJob]
    /\ UNCHANGED <<link, user, connected, mail, notify, pushed, view, crashes>>

(* The target went away: the loop is left by the exception, none of its rows *)
(* is marked, and _dispatch turns the exception into an error frame for the  *)
(* client whose request this was.                                            *)
PushFails(c) ==
    /\ pc[c] \in Loops
    /\ link[job[c].target] = "closed"
    /\ pc' = [pc EXCEPT ![c] = "error"]
    /\ job' = [job EXCEPT ![c] = NoJob]
    /\ UNCHANGED <<link, user, connected, mail, delivered, notify, pushed, view, crashes>>

(* Mutant of MarkDelivered: everything pending by now, not the loop's rows.  *)
MarkAllPending(c) ==
    /\ pc[c] \in Loops
    /\ job[c].left = {}
    /\ delivered' = delivered \cup Pending(job[c].to)
    /\ AfterLoop(c, pc[c] = "delivering")
    /\ UNCHANGED <<link, user, connected, mail, pushed, view, crashes>>

(* The loop is over: mark_delivered for all of its rows.                     *)
MarkDelivered(c) ==
    /\ pc[c] \in Loops
    /\ job[c].left = {}
    /\ delivered' = delivered \cup job[c].all
    /\ AfterLoop(c, pc[c] = "delivering")
    /\ UNCHANGED <<link, user, connected, mail, pushed, view, crashes>>

(* One send of the login's broadcast.  A peer that is closing raises: the    *)
(* peers that are left are never told.                                       *)
Announce(c) ==
    /\ pc[c] = "announcing"
    /\ \E t \in notify[c] :
         IF link[t] = "open"
           THEN /\ view' = [view EXCEPT ![t] = @ \cup {user[c]}]
                /\ notify' = [notify EXCEPT ![c] = @ \ {t}]
                /\ pc' = [pc EXCEPT ![c] = IF notify[c] = {t} THEN "idle" ELSE @]
           ELSE /\ notify' = [notify EXCEPT ![c] = {}]
                /\ pc' = [pc EXCEPT ![c] = "error"]
                /\ UNCHANGED view
    /\ UNCHANGED <<link, user, connected, mail, delivered, job, pushed, crashes>>

(* The error frame of a refused or failed request.                           *)
ReportError(c) ==
    /\ pc[c] = "error"
    /\ pc' = [pc EXCEPT ![c] = Answered(c, "idle")]
    /\ UNCHANGED <<link, user, connected, mail, delivered, job, notify, pushed,
                   view, crashes>>

(* The `finally` of handle: only the connection that is registered for its   *)
(* user is unregistered, and only then the others are told.                  *)
End(c) ==
    LET u == user[c]
        registered == u # None /\ connected[u] = c
        peers == IF registered THEN Others(connected, u) ELSE {}
    IN  /\ pc[c] = "ending" \/ (pc[c] = "idle" /\ link[c] = "closed")
        /\ connected' = IF registered THEN [connected EXCEPT ![u] = None] ELSE connected
        /\ pc' = [pc EXCEPT ![c] = IF peers = {} THEN "gone" ELSE "farewell"]
        /\ notify' = [notify EXCEPT ![c] = peers]
        /\ UNCHANGED <<link, user, mail, delivered, job, pushed, view, crashes>>

(* One send of the offline broadcast; an exception ends the handler.         *)
Farewell(c) ==
    /\ pc[c] = "farewell"
    /\ \E t \in notify[c] :
         IF link[t] = "open"
           THEN /\ view' = [view EXCEPT ![t] = @ \ {user[c]}]
                /\ notify' = [notify EXCEPT ![c] = @ \ {t}]
                /\ pc' = [pc EXCEPT ![c] = IF notify[c] = {t} THEN "gone" ELSE @]
           ELSE /\ notify' = [notify EXCEPT ![c] = {}]
                /\ pc' = [pc EXCEPT ![c] = "gone"]
                /\ UNCHANGED view
    /\ UNCHANGED <<link, user, connected, mail, delivered, job, pushed, crashes>>

(* The server process dies and is started again: the database is all that is *)
(* left of it.                                                               *)
Crash ==
    /\ crashes < MaxCrashes
    /\ crashes' = crashes + 1
    /\ link' = [c \in Conns |-> IF link[c] = "fresh" THEN "fresh" ELSE "closed"]
    /\ pc' = [c \in Conns |-> IF link[c] = "fresh" THEN "new" ELSE "gone"]
    /\ connected' = [u \in Users |-> None]
    /\ job' = [c \in Conns |-> NoJob]
    /\ notify' = [c \in Conns |-> {}]
    /\ UNCHANGED <<user, mail, delivered, pushed, view>>

-----------------------------------------------------------------------------

(* What clients and the network do.                                          *)
Request(c) ==
    \/ Connect(c)
    \/ HangUp(c)
    \/ Refuse(c)
    \/ \E u \in Users : Login(c, u)
    \/ \E u \in Users : SendMessage(c, u)

(* What the event loop does for the handler of c.                            *)
Handler(c) ==
    \/ Snapshot(c)
    \/ Deliver(c)
    \/ Lookup(c)
    \/ PushRow(c)
    \/ PushFails(c)
    \/ MarkDelivered(c)
    \/ Announce(c)
    \/ ReportError(c)
    \/ End(c)
    \/ Farewell(c)

Next ==
    \/ \E c \in Conns : Request(c) \/ Handler(c)
    \/ Crash

(* The event loop resumes every coroutine that can run, and a send that is   *)
(* waiting for a slow reader ends because the reader reads or because the    *)
(* keepalive closes the connection: handlers are weakly fair, clients and    *)
(* the network promise nothing.                                              *)
Spec == Init /\ [][Next]_vars /\ \A c \in Conns : WF_vars(Handler(c))

-----------------------------------------------------------------------------

JobType == [to : Users \cup {None}, target : Conns \cup {None},
            left : SUBSET Ids, all : SUBSET Ids]

(* The type invariant of the server's state (server.py:43-47, db.py:15-54):  *)
(* in particular a broadcast is never addressed to None and a push loop only *)
(* holds rows that exist.                                                    *)
TypeOK ==
    /\ link \in [Conns -> {"fresh", "open", "closed"}]
    /\ user \in [Conns -> Users \cup {None}]
    /\ connected \in [Users -> Conns \cup {None}]
    /\ mail \in Seq([to : Users, via : Conns])
    /\ delivered \subseteq Ids
    /\ pc \in [Conns -> Points]
    /\ job \in [Conns -> JobType]
    /\ notify \in [Conns -> SUBSET Conns]
    /\ pushed \in [Conns -> SUBSET Ids]
    /\ view \in [Conns -> SUBSET Users]
    /\ crashes \in Nat

(* Whatever reconnects and overlapping push loops do, a row is only ever     *)
(* written on a connection whose user is the row's recipient                 *)
(* (server.py:158-160 looks the socket up after an await).                   *)
OnlyToRecipient ==
    \A c \in Conns : \A i \in pushed[c] : mail[i].to = user[c]

(* A row is marked delivered only after it was written on some connection of *)
(* its recipient, also when loops overlap, fail half-way or die with the     *)
(* server (server.py:170-180).                                               *)
DeliveredWasPushed ==
    \A i \in delivered : \E c \in Conns : i \in pushed[c]

(* A connection never gets a row while an older row of the same recipient is *)
(* neither on that connection yet nor delivered elsewhere: store and forward *)
(* keeps the order of the mailbox (db.py:180-185) through every interleaving *)
(* of push loops, reconnects and restarts.                                   *)
NoGaps ==
    \A c \in Conns : \A j \in pushed[c] : \A i \in Ids :
        i < j /\ mail[i].to = mail[j].to => i \in pushed[c] \cup delivered

(* A row that is pending while its recipient's registered connection is open *)
(* is in the hands of a handler that will push it there, unless the sender's *)
(* own connection was lost (server.py:156-160: the reply to the sender       *)
(* raises before the recipient is looked up).                                *)
InHands(i, c) ==
    \E d \in Conns :
        \/ pc[d] = "lookup" /\ job[d].to = mail[i].to
        \/ pc[d] \in {"snapshot", "deliver"} /\ d = c
        \/ pc[d] \in Loops /\ job[d].target = c /\ i \in job[d].all

NoMailForgotten ==
    \A i \in Ids \ delivered :
        LET c == connected[mail[i].to]
        IN  c # None /\ link[c] = "open" =>
                InHands(i, c) \/ link[mail[i].via] = "closed"

(* As long as nobody has left, a client whose login is complete and to whom  *)
(* nobody is about to announce anything shows exactly the users registered   *)
(* on the server: snapshots and announcements of simultaneous logins miss    *)
(* nobody (server.py:104-114).                                               *)
PresenceExactBeforeDepartures ==
    (\A c \in Conns : link[c] # "closed" /\ pc[c] \in {"new", "idle"}) =>
        \A u \in Users : connected[u] # None =>
            view[connected[u]] = {v \in Users \ {u} : connected[v] # None}

(* Mail for a user who is online is delivered, unless that connection is     *)
(* lost or replaced, or the sender's was lost (server.py:149-180).           *)
Awaited(i, c) ==
    /\ i \in Ids \ delivered
    /\ connected[mail[i].to] = c
    /\ link[c] = "open"
    /\ link[mail[i].via] # "closed"

OnlineMailIsDelivered ==
    \A i \in 1..MaxMail, c \in Conns : Awaited(i, c) ~> ~Awaited(i, c)

(* The relay implements the abstract mailbox: a stored row is an accepted    *)
(* message, a row written on a connection is shown there, and a row marked   *)
(* delivered is settled (server.py:149-180, db.py:168-191).                  *)
Promise == INSTANCE StoreAndForward WITH
    accepted <- [i \in Ids |-> mail[i].to],
    owner <- user,
    shown <- pushed,
    settled <- delivered

KeepsPromise == Promise!Spec
=============================================================================
