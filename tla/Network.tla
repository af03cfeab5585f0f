------------------------------ MODULE Network ------------------------------
(***************************************************************************)
(* One client's connection (engine/network.ts) from the login flow that    *)
(* opens it (engine/webApi.ts) to the operations of the main window that    *)
(* share it: requests and replies matched by an asynchronous queue, and     *)
(* the frames the relay pushes in between, routed to three callbacks.       *)
(*                                                                         *)
(* `request' sends and queues up for the answer without giving up control  *)
(* in between; everything after its await is a later step.  The relay's    *)
(* handler of this connection is the part of server/server.py that writes  *)
(* on it; module Relay has all of its handlers.  Those of the other users   *)
(* are here for what they write on this connection too.                    *)
(***************************************************************************)
EXTENDS Naturals, Sequences, FiniteSets

CONSTANTS Callers,      (* operations of the main window in hand at once   *)
          Boot,         (* the login flow                                  *)
          Peers,        (* the other users                                 *)
          MaxRequests,  (* bound: requests made                            *)
          MaxPushes,    (* bound: messages and presence changes pushed     *)
          MaxStrays     (* bound: errors of somebody else's connection     *)

ASSUME NetworkAssumption ==
    /\ Boot \notin Callers
    /\ MaxRequests \in Nat /\ MaxPushes \in Nat /\ MaxStrays \in Nat

VARIABLES
    boot,      (* where the login flow is                                    *)
    ws,        (* NetworkClient.ws: "null" or "set"                          *)
    link,      (* the connection itself: "none", "up" or "dead"              *)
    up, down,  (* frames under way to the relay and from it                  *)
    items,     (* AsyncQueue.items                                           *)
    waiters,   (* AsyncQueue.waiters, as numbers of requests                 *)
    reqs,      (* the requests made, in order                                *)
    got,       (* request -> the frame its await returned, or NoFrame        *)
    relay,     (* the relay's handler: its step, and the request in hand     *)
    done,      (* the requests the relay carried out                         *)
    peers,     (* the users the relay has connections of (its `connected')   *)
    notices,   (* presence that handlers of theirs have yet to write here    *)
    mistold,   (* peers whose notices crossed or were not written (history)  *)
    online,    (* onlineUsernameSet                                          *)
    dots,      (* the main window's onlineUsernames, and its first request   *)
    pushes,    (* messages and presence changes pushed so far                *)
    inbox,     (* messages the relay pushed, in the callback, and reported   *)
    strays     (* errors of other connections written on this one            *)

others == <<peers, notices, mistold>>

vars == <<boot, ws, link, up, down, items, waiters, reqs, got, relay, done, others,
          online, dots, pushes, inbox, strays>>

Reply(n, ok) == [type |-> "reply", of |-> n, ok |-> ok]
Mail(i) == [type |-> "incoming_message", id |-> i]
Presence(v, on) == [type |-> "presence", user |-> v, online |-> on]
Snapshot(users) == [type |-> "presence_snapshot", users |-> users]
NoFrame == [type |-> "none"]

Kinds == {"login", "upload", "fetch", "send"}

(* Mutant of Attached: the callbacks are set when the login has returned.    *)
AttachedLate == boot \in {"upload", "main"}

(* attachSession has set the callbacks.                                      *)
Attached == boot # "start"

(* The await of request n has returned, or has thrown a ServerError.         *)
Succeeded(n) == n \in DOMAIN got /\ got[n] # NoFrame /\ got[n].ok
Failed(n) == n \in DOMAIN got /\ got[n] # NoFrame /\ ~got[n].ok

-----------------------------------------------------------------------------

Init ==
    /\ boot = "start" /\ ws = "null" /\ link = "none"
    /\ up = <<>> /\ down = <<>>
    /\ items = <<>> /\ waiters = <<>>
    /\ reqs = <<>> /\ got = <<>>
    /\ relay = [step |-> "idle", of |-> 0, connected |-> "no", told |-> FALSE]
    /\ done = {}
    /\ peers \in SUBSET Peers /\ notices = {} /\ mistold = {}
    /\ online = {}
    /\ dots = [shown |-> {}, asked |-> "not", answer |-> {}, raced |-> FALSE]
    /\ pushes = 0
    /\ inbox = [pushed |-> {}, handling |-> {}, reported |-> {}]
    /\ strays = 0

(* AsyncQueue.pop, by the request that was sent last.                        *)
Pop(n) ==
    IF items # <<>>
      THEN /\ got' = Append(got, Head(items))
           /\ items' = Tail(items)
           /\ UNCHANGED waiters
      ELSE /\ got' = Append(got, NoFrame)
           /\ waiters' = Append(waiters, n)
           /\ UNCHANGED items

(* NetworkClient.request up to its await.  A socket that is no longer open   *)
(* drops what is sent on it.                                                 *)
Request(by, kind) ==
    LET n == Len(reqs) + 1
    IN  /\ ws = "set"
        /\ n <= MaxRequests
        /\ reqs' = Append(reqs, [by |-> by, kind |-> kind])
        /\ up' = IF link = "up" THEN Append(up, n) ELSE up
        /\ Pop(n)
        /\ UNCHANGED <<ws, link, down, relay, done, others, online, dots, pushes, inbox,
                       strays>>

Goes(step) ==
    /\ boot' = step
    /\ UNCHANGED <<ws, up, down, items, waiters, reqs, got, relay, done, others, online,
                   pushes, inbox, strays>>

(* connectAndAttach up to its await: the callbacks are set.                  *)
Attach == boot = "start" /\ Goes("connecting") /\ UNCHANGED <<link, dots>>

(* onopen, and onerror.                                                      *)
Open ==
    /\ boot = "connecting"
    /\ boot' = "login"
    /\ ws' = "set" /\ link' = "up"
    /\ UNCHANGED <<up, down, items, waiters, reqs, got, relay, done, others, online, dots,
                   pushes, inbox, strays>>
OpenFails == boot = "connecting" /\ Goes("failed") /\ UNCHANGED <<link, dots>>

(* network.login, and then publishKeys.                                      *)
Login == boot = "login" /\ reqs = <<>> /\ Request(Boot, "login") /\ UNCHANGED boot
Publish == boot = "login" /\ Succeeded(1) /\ Request(Boot, "upload") /\ boot' = "upload"

(* The flow returns, and the main window asks who is online.                 *)
Enter ==
    /\ boot = "upload" /\ Succeeded(2)
    /\ Goes("main")
    /\ dots' = [dots EXCEPT !.asked = "asked"]
    /\ UNCHANGED link

BootFails ==
    /\ \/ boot = "login" /\ Failed(1)
       \/ boot = "upload" /\ Failed(2)
    /\ Goes("failed")
    /\ UNCHANGED <<link, dots>>

(* sendEnvelopeTo of an operation of the main window.                        *)
Call(t, kind) ==
    /\ boot = "main"
    /\ \A n \in DOMAIN reqs : reqs[n].by = t => got[n] # NoFrame
    /\ Request(t, kind)
    /\ UNCHANGED boot

(* webApi's close.                                                           *)
Close ==
    /\ boot = "main" /\ ws = "set"
    /\ ws' = "null" /\ link' = "dead"
    /\ up' = <<>> /\ down' = <<>>
    /\ UNCHANGED <<boot, items, waiters, reqs, got, relay, done, others, online, dots,
                   pushes, inbox, strays>>

-----------------------------------------------------------------------------

(* Mutants of Push: the last waiter is served first, or none is.             *)
PushToLast(frame) ==
    IF waiters # <<>>
      THEN LET n == Len(waiters)
           IN  /\ got' = [got EXCEPT ![waiters[n]] = frame]
               /\ waiters' = SubSeq(waiters, 1, n - 1)
               /\ UNCHANGED items
      ELSE items' = Append(items, frame) /\ UNCHANGED <<got, waiters>>

PushToNobody(frame) == items' = Append(items, frame) /\ UNCHANGED <<got, waiters>>

(* AsyncQueue.push.                                                          *)
Push(frame) ==
    IF waiters # <<>>
      THEN /\ got' = [got EXCEPT ![Head(waiters)] = frame]
           /\ waiters' = Tail(waiters)
           /\ UNCHANGED items
      ELSE items' = Append(items, frame) /\ UNCHANGED <<got, waiters>>

(* Mutant of Fold: nobody ever goes offline.                                 *)
FoldOnlineOnly(users, frame) ==
    IF frame.type = "presence_snapshot" THEN frame.users
    ELSE users \cup {frame.user}

(* onPresence and onPresenceSnapshot, in webApi as in MainWindow.            *)
Fold(users, frame) ==
    IF frame.type = "presence_snapshot" THEN frame.users
    ELSE IF frame.online THEN users \cup {frame.user}
    ELSE users \ {frame.user}

(* Presence goes into onlineUsernameSet, and on to the main window if it is  *)
(* there.                                                                    *)
Note(frame) ==
    IF Attached
      THEN /\ online' = Fold(online, frame)
           /\ dots' = IF boot # "main" THEN dots
                      ELSE [dots EXCEPT !.shown = Fold(@, frame),
                                        !.raced = @ \/ dots.asked = "read"]
      ELSE UNCHANGED <<online, dots>>

(* handleFrame.                                                              *)
Arrive ==
    /\ down # <<>>
    /\ down' = Tail(down)
    /\ LET frame == Head(down)
       IN  CASE frame.type = "reply" ->
                    Push(frame) /\ UNCHANGED <<online, dots, inbox>>
             [] frame.type = "incoming_message" ->
                    /\ inbox' = IF Attached
                                  THEN [inbox EXCEPT !.handling = @ \cup {frame.id}]
                                  ELSE inbox
                    /\ UNCHANGED <<items, waiters, got, online, dots>>
             [] OTHER ->
                    Note(frame) /\ UNCHANGED <<items, waiters, got, inbox>>
    /\ UNCHANGED <<boot, ws, link, up, reqs, relay, done, others, pushes, strays>>

(* handleIncoming returns or throws, and the callback emits an event.        *)
Report(i) ==
    /\ i \in inbox.handling
    /\ inbox' = [inbox EXCEPT !.handling = @ \ {i}, !.reported = @ \cup {i}]
    /\ UNCHANGED <<boot, ws, link, up, down, items, waiters, reqs, got, relay, done,
                   others, online, dots, pushes, strays>>

(* The main window's first request for the users online: the backend reads   *)
(* them, and the answer replaces what the window has by then.  In the        *)
(* browser nothing comes between the two; in the desktop build the answer    *)
(* crosses a bridge.                                                         *)
ReadOnline ==
    /\ dots.asked = "asked"
    /\ dots' = [dots EXCEPT !.asked = "read", !.answer = online]
    /\ UNCHANGED <<boot, ws, link, up, down, items, waiters, reqs, got, relay, done,
                   others, online, pushes, inbox, strays>>

ShowOnline ==
    /\ dots.asked = "read"
    /\ dots' = [dots EXCEPT !.asked = "done", !.shown = dots.answer, !.answer = {}]
    /\ UNCHANGED <<boot, ws, link, up, down, items, waiters, reqs, got, relay, done,
                   others, online, pushes, inbox, strays>>

-----------------------------------------------------------------------------

RelayOnly == UNCHANGED <<boot, ws, link, items, waiters, reqs, got, online, dots>>

(* _dispatch up to its reply: the request is carried out or refused.         *)
Serve(ok) ==
    /\ link = "up" /\ relay.step = "idle" /\ up # <<>>
    /\ LET n == Head(up)
           kind == reqs[n].kind
       IN  /\ kind \in {"upload", "fetch"} => ok
           /\ up' = Tail(up)
           /\ down' = Append(down, Reply(n, ok))
           /\ done' = IF ok THEN done \cup {n} ELSE done
           /\ relay' = [relay EXCEPT
                !.of = n,
                !.connected = IF ok /\ kind = "login" THEN "yes" ELSE @,
                !.told = @ /\ ~(ok /\ kind = "login"),
                !.step = IF ok /\ kind = "login" THEN "snapshot"
                         ELSE IF ok /\ kind = "send" THEN "others" ELSE "idle"]
    /\ UNCHANGED <<others, pushes, inbox, strays>> /\ RelayOnly

(* _handle_login goes on with the snapshot.                                  *)
SendSnapshot ==
    /\ link = "up" /\ relay.step = "snapshot"
    /\ down' = Append(down, Snapshot(peers))
    /\ relay' = [relay EXCEPT !.step = "others", !.told = TRUE]
    /\ UNCHANGED <<up, done, others, pushes, inbox, strays>> /\ RelayOnly

(* The handler has pushed to others or told them of the login.               *)
Finish ==
    /\ link = "up" /\ relay.step = "others"
    /\ relay' = [relay EXCEPT !.step = "idle"]
    /\ UNCHANGED <<up, down, done, others, pushes, inbox, strays>> /\ RelayOnly

(* One of these sends raises, because that other connection is closing: an   *)
(* error is written on this one, which has had its reply.                    *)
Stray ==
    /\ link = "up" /\ relay.step = "others" /\ strays < MaxStrays
    /\ strays' = strays + 1
    /\ down' = Append(down, Reply(relay.of, FALSE))
    /\ relay' = [relay EXCEPT !.step = "idle"]
    /\ UNCHANGED <<up, done, others, pushes, inbox>> /\ RelayOnly

(* This user logs in elsewhere: `connected' has that connection instead.     *)
Replaced ==
    /\ relay.connected = "yes"
    /\ relay' = [relay EXCEPT !.connected = "replaced"]
    /\ UNCHANGED <<up, down, done, others, pushes, inbox, strays>> /\ RelayOnly

(* Some handler pushes a message to this user, on the connection it looked   *)
(* up.                                                                       *)
PushMail ==
    /\ link = "up" /\ relay.connected # "no" /\ pushes < MaxPushes
    /\ pushes' = pushes + 1
    /\ down' = Append(down, Mail(pushes'))
    /\ inbox' = [inbox EXCEPT !.pushed = @ \cup {pushes'}]
    /\ UNCHANGED <<up, relay, done, others, strays>> /\ RelayOnly

Notice(v, on, begun) == [user |-> v, online |-> on, begun |-> begun, of |-> pushes + 1]

(* The peers, and those told wrong: a notice of the other kind is still to be *)
(* written by another handler, before or after the one of this change.       *)
Turns(v, on) ==
    /\ pushes < MaxPushes
    /\ pushes' = pushes + 1
    /\ peers' = IF on THEN peers \cup {v} ELSE peers \ {v}
    /\ mistold' = IF \E n \in notices : n.user = v /\ n.online # on
                    THEN mistold \cup {v} ELSE mistold
    /\ UNCHANGED <<up, down, relay, done, inbox, strays>> /\ RelayOnly

(* Another user logs in, on the first connection or one more; its handler    *)
(* has other things to send before it broadcasts.                            *)
PeerJoins(v) ==
    /\ Turns(v, TRUE)
    /\ notices' = notices \cup {Notice(v, TRUE, FALSE)}

(* The connection that `connected' has of another user ends, and its handler *)
(* begins to broadcast.                                                      *)
PeerLeaves(v) ==
    /\ v \in peers
    /\ Turns(v, FALSE)
    /\ notices' = IF relay.connected = "yes"
                    THEN notices \cup {Notice(v, FALSE, TRUE)} ELSE notices

NoticesOnly == UNCHANGED <<up, relay, done, peers, pushes, inbox, strays>> /\ RelayOnly

(* _broadcast_presence copies `connected'; this connection may not be in it. *)
BeginBroadcast(n) ==
    /\ n \in notices /\ ~n.begun
    /\ notices' = IF relay.connected = "yes"
                    THEN (notices \ {n}) \cup {[n EXCEPT !.begun = TRUE]}
                    ELSE notices \ {n}
    /\ UNCHANGED <<down, mistold>> /\ NoticesOnly

(* It sends to each in turn, here to this one.                               *)
Tell(n) ==
    /\ n \in notices /\ n.begun
    /\ notices' = notices \ {n}
    /\ down' = IF link = "up" THEN Append(down, Presence(n.user, n.online)) ELSE down
    /\ UNCHANGED mistold /\ NoticesOnly

(* A send of that handler raises, because the connection is closing: the     *)
(* others are not told.                                                      *)
CutShort(n) ==
    /\ n \in notices
    /\ notices' = notices \ {n}
    /\ mistold' = IF relay.connected = "no" THEN mistold ELSE mistold \cup {n.user}
    /\ UNCHANGED down /\ NoticesOnly

(* The connection is lost, with all that is under way.  The client sets no   *)
(* onclose: nothing there changes.                                           *)
Die ==
    /\ link = "up"
    /\ link' = "dead"
    /\ up' = <<>> /\ down' = <<>>
    /\ UNCHANGED <<boot, ws, items, waiters, reqs, got, relay, done, others, online, dots,
                   pushes, inbox, strays>>

Answering == (\E ok \in BOOLEAN : Serve(ok)) \/ SendSnapshot \/ Finish \/ Stray

Next ==
    \/ Attach \/ Open \/ OpenFails \/ Login \/ Publish \/ Enter \/ BootFails
    \/ \E t \in Callers, kind \in {"fetch", "send"} : Call(t, kind)
    \/ Close \/ Arrive \/ ReadOnline \/ ShowOnline
    \/ \E i \in 1..MaxPushes : Report(i)
    \/ Answering \/ PushMail \/ Die \/ Replaced
    \/ \E v \in Peers : PeerJoins(v) \/ PeerLeaves(v)
    \/ \E n \in notices : BeginBroadcast(n) \/ Tell(n) \/ CutShort(n)

(* The relay's event loop goes on with a handler that can go on, and the     *)
(* transport and the browser's event loop with a frame that is under way.    *)
Fairness == WF_vars(Answering) /\ WF_vars(Arrive)

Spec == Init /\ [][Next]_vars /\ Fairness

-----------------------------------------------------------------------------

Frames(q) == {q[i] : i \in DOMAIN q}

(* Nobody waits for a frame that is there, and whoever waits has got nothing *)
(* and waits in the order of the requests (network.ts:33-48).                *)
TypeOK ==
    /\ items = <<>> \/ waiters = <<>>
    /\ \A i \in DOMAIN waiters : got[waiters[i]] = NoFrame
    /\ \A i, j \in DOMAIN waiters : i < j => waiters[i] < waiters[j]
    /\ Frames(waiters) = {n \in DOMAIN reqs : got[n] = NoFrame}
    /\ \A n \in DOMAIN reqs : reqs[n].kind \in Kinds

(* network.ts:5-13: a request gets its own reply, or that of an earlier one, *)
(* and then of one at most as many requests back as there were stray errors. *)
(* This holds although operations of the main window overlap.                *)
AnswersLagByStrays ==
    \A n \in DOMAIN got : got[n] # NoFrame =>
        got[n].of <= n /\ n <= got[n].of + strays

(* webApi.ts:83-85: every message pushed is under way, in the callback or    *)
(* reported, unless it got lost with the connection.                         *)
NothingPushedIsDropped ==
    link = "up" =>
        \A i \in inbox.pushed : \/ Mail(i) \in Frames(down)
                                \/ i \in inbox.handling \cup inbox.reported

(* A peer's dot is right as long as no frame about him is still to be        *)
(* written or under way here and this user has not logged in elsewhere,      *)
(* unless his comings and goings crossed their notices or one of these was   *)
(* cut short: snapshot and broadcasts leave no gap, in whatever order they   *)
(* come.  The main window shows what the backend has unless an event came    *)
(* between the reading and the answer of its first request                   *)
(* (server.py:58-62, 100-114, webApi.ts:68-76, MainWindow.tsx:46-64).        *)
About(f, v) == f.type = "presence_snapshot" \/ (f.type = "presence" /\ f.user = v)

DotsFollowTheRelay ==
    link = "up" /\ relay.told /\ relay.connected = "yes" =>
        \A v \in Peers \ mistold :
            (\A n \in notices : n.user # v) /\ (\A f \in Frames(down) : ~About(f, v)) =>
                /\ v \in online <=> v \in peers
                /\ dots.asked = "done" /\ ~dots.raced => (v \in dots.shown <=> v \in peers)

(* network.ts:100-108: a request is answered in the end, unless the          *)
(* connection is lost or closed.                                             *)
RequestsAreAnswered == waiters # <<>> ~> waiters = <<>> \/ link = "dead"

(* network.ts:5-8: "request/response pairs (register, login, upload_keys,    *)
(* fetch_bundle, send_message) are correlated by simply waiting for the next *)
(* non-pushed frame, since this client only ever has one request in flight". *)
(* Read of send_message: a send that returned is one the relay stored.       *)
SentMeansStored ==
    \A n \in DOMAIN reqs : reqs[n].kind = "send" /\ Succeeded(n) => n \in done
=============================================================================
