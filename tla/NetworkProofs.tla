--------------------------- MODULE NetworkProofs ---------------------------
(***************************************************************************)
(* Theorems about Network, for every set of operations and of users and    *)
(* every number of requests, pushes and stray errors.                      *)
(*                                                                         *)
(* Requests are numbered, and so are the replies in the order in which     *)
(* they were written; the invariant says that the n-th reply, wherever it  *)
(* is by now, answers one of the requests it may answer, and that the n-th *)
(* request gets it.  Frames under way are not counted but ranked by a      *)
(* function that is said to exist.  What they do to the set of users online *)
(* is told user by user, by the last frame that is about her or a notice    *)
(* that will be written later still.                                       *)
(***************************************************************************)
EXTENDS Network, SequenceTheorems, TLAPS

USE DEF others

Replies == [type : {"reply"}, of : Nat, ok : BOOLEAN]

Pushed ==
    [type : {"incoming_message"}, id : Nat]
    \cup [type : {"presence"}, user : Peers, online : BOOLEAN]
    \cup [type : {"presence_snapshot"}, users : SUBSET Peers]

Notices == [user : Peers, online : BOOLEAN, begun : BOOLEAN, of : Nat]

IsPresence(frame) == frame.type \in {"presence", "presence_snapshot"}

(* The values of all variables.                                              *)
Typed ==
    /\ boot \in {"start", "connecting", "login", "upload", "main", "failed"}
    /\ ws \in {"null", "set"} /\ link \in {"none", "up", "dead"}
    /\ up \in Seq(Nat) /\ down \in Seq(Replies \cup Pushed)
    /\ items \in Seq(Replies) /\ waiters \in Seq(Nat)
    /\ reqs \in Seq([by : Callers \cup {Boot}, kind : Kinds])
    /\ got \in Seq(Replies \cup {NoFrame})
    /\ relay \in [step : {"idle", "snapshot", "others"}, of : Nat,
                  connected : {"no", "yes", "replaced"}, told : BOOLEAN]
    /\ peers \in SUBSET Peers /\ online \in SUBSET Peers
    /\ notices \in SUBSET Notices /\ mistold \in SUBSET Peers
    /\ dots \in [shown : SUBSET Peers, asked : {"not", "asked", "read", "done"},
                 answer : SUBSET Peers, raced : BOOLEAN]
    /\ pushes \in Nat /\ strays \in Nat
    /\ inbox \in [pushed : SUBSET Nat, handling : SUBSET Nat, reported : SUBSET Nat]

(* How many requests have an answer; they are the first ones.                *)
Answered == Len(got) - Len(waiters)

(* The requests wait in order, and none for an answer that is there.         *)
QueueOK ==
    /\ Len(got) = Len(reqs) /\ Len(waiters) <= Len(got)
    /\ items = <<>> \/ waiters = <<>>
    /\ \A i \in 1..Len(waiters) : waiters[i] = Answered + i
    /\ \A n \in 1..Len(got) : got[n] = NoFrame <=> n > Answered

(* The n-th reply answers a request among the first n, at most as many back  *)
(* as there were stray errors.                                               *)
ArrivedOK ==
    /\ \A n \in 1..Answered : got[n].of <= n /\ n <= got[n].of + strays
    /\ \A i \in 1..Len(items) :
          items[i].of <= Answered + i /\ Answered + i <= items[i].of + strays

(* The relay has the requests that are not on their way, and has written a   *)
(* reply to each and the stray errors.                                       *)
Served == Len(reqs) - Len(up)

UpOK ==
    link = "up" =>
        /\ Len(up) <= Len(reqs)
        /\ \A i \in 1..Len(up) : up[i] = Served + i
        /\ relay.step # "idle" => relay.of = Served

(* rank[i] is how many replies arrive with the first i frames under way.     *)
DownOK ==
    \E rank \in [0..Len(down) -> Nat] :
        /\ rank[0] = Answered + Len(items)
        /\ \A i \in 1..Len(down) :
              IF down[i].type = "reply"
                THEN /\ rank[i] = rank[i - 1] + 1
                     /\ down[i].of <= rank[i] /\ rank[i] <= down[i].of + strays
                ELSE rank[i] = rank[i - 1]
        /\ link = "up" => rank[Len(down)] = Served + strays

(* Where the connection is, and where the login flow is with it.             *)
LinkOK ==
    /\ link = "none" <=> boot \in {"start", "connecting"} \/ (boot = "failed" /\ ws = "null")
    /\ link = "none" =>
          /\ reqs = <<>> /\ items = <<>> /\ strays = 0 /\ inbox.pushed = {}
          /\ relay.step = "idle" /\ ~relay.told
    /\ link # "up" => up = <<>> /\ down = <<>>
    /\ boot \in {"start", "connecting"} => ws = "null"
    /\ boot \in {"login", "upload"} => ws = "set"
    /\ dots.asked # "not" => boot = "main"

(* A message that was pushed is under way, unless it arrived.                *)
MailOK ==
    link = "up" =>
        \A i \in inbox.pushed : \/ \E k \in 1..Len(down) : down[k] = Mail(i)
                                \/ i \in inbox.handling \cup inbox.reported

(* A notice that will be written is true.                                    *)
NoticesOK == \A n \in notices : n.user \notin mistold => (n.online <=> n.user \in peers)

Says(frame, v) ==
    IF frame.type = "presence_snapshot" THEN v \in frame.users ELSE frame.online

Noticed(v) == \E n \in notices : n.user = v

(* What the last frame under way that is about a user says of her is true,   *)
(* and if there is none, the set is right, unless a notice of her is to come. *)
PresenceOK ==
    link = "up" /\ relay.told /\ relay.connected = "yes" => \A v \in Peers \ mistold :
        \/ Noticed(v)
        \/ \E i \in 1..Len(down) :
              /\ About(down[i], v) /\ (Says(down[i], v) <=> v \in peers)
              /\ \A j \in (i + 1)..Len(down) : ~About(down[j], v)
        \/ /\ \A i \in 1..Len(down) : ~About(down[i], v)
           /\ v \in online <=> v \in peers

DotsOK ==
    ~dots.raced =>
        /\ dots.asked = "read" => dots.answer = online
        /\ dots.asked = "done" => dots.shown = online

IInv ==
    /\ Typed
    /\ QueueOK
    /\ ArrivedOK
    /\ UpOK
    /\ DownOK
    /\ LinkOK
    /\ MailOK
    /\ NoticesOK
    /\ PresenceOK
    /\ DotsOK

-----------------------------------------------------------------------------

LEMMA ReplyTypes ==
    ASSUME NEW frame \in Replies \cup Pushed, frame.type = "reply"
    PROVE  frame \in Replies /\ frame.of \in Nat
BY DEF Replies, Pushed

LEMMA Counts ==
    ASSUME Typed, QueueOK
    PROVE  /\ Answered \in Nat /\ Len(items) \in Nat /\ Len(down) \in Nat
           /\ Len(got) \in Nat /\ Len(waiters) \in Nat /\ Len(reqs) \in Nat
           /\ strays \in Nat /\ Len(up) \in Nat /\ Served \in Int
           /\ Answered <= Len(got)
           /\ \A n \in 1..Answered : got[n] \in Replies /\ got[n].of \in Nat
           /\ \A i \in 1..Len(items) : items[i] \in Replies /\ items[i].of \in Nat
           /\ \A i \in 1..Len(down) : down[i].type = "reply" => down[i].of \in Nat
<1>1. Len(items) \in Nat /\ \A i \in 1..Len(items) : items[i] \in Replies
  BY DEF Typed
<1>2. Len(down) \in Nat /\ \A i \in 1..Len(down) : down[i] \in Replies \cup Pushed
  BY DEF Typed
<1>3. Len(got) \in Nat /\ \A n \in 1..Len(got) : got[n] \in Replies \cup {NoFrame}
  BY DEF Typed
<1>4. Len(waiters) \in Nat /\ Len(reqs) \in Nat /\ Len(up) \in Nat /\ strays \in Nat
  BY DEF Typed
<1>5. Answered \in Nat /\ Answered <= Len(got) /\ Served \in Int
  BY <1>3, <1>4 DEF QueueOK, Answered, Served
<1>6. \A n \in 1..Answered : got[n] \in Replies
  BY <1>3, <1>5 DEF QueueOK
<1>7. \A frame \in Replies : frame.of \in Nat
  BY DEF Replies
<1> QED
  BY <1>1, <1>2, <1>3, <1>4, <1>5, <1>6, <1>7, ReplyTypes

(* The relay writes a frame.                                                 *)
LEMMA WriteFrame ==
    ASSUME IInv, link = "up", link' = link, NEW frame \in Replies \cup Pushed,
           down' = Append(down, frame), strays' \in Nat, strays' >= strays,
           Served' \in Int,
           IF frame.type = "reply"
             THEN /\ Served' + strays' = Served + strays + 1
                  /\ frame.of <= Served' + strays' /\ Served' + strays' <= frame.of + strays'
             ELSE Served' + strays' = Served + strays,
           UNCHANGED <<reqs, got, items, waiters>>
    PROVE  /\ QueueOK' /\ ArrivedOK' /\ DownOK'
           /\ down' \in Seq(Replies \cup Pushed)
           /\ Len(down') = Len(down) + 1 /\ down'[Len(down) + 1] = frame
           /\ \A i \in 1..Len(down) : down'[i] = down[i]
<1>1. /\ Answered \in Nat /\ Len(items) \in Nat /\ Len(down) \in Nat
      /\ Len(got) \in Nat /\ strays \in Nat /\ Served \in Int
      /\ Answered' = Answered
      /\ \A n \in 1..Answered : got[n].of \in Nat
      /\ \A i \in 1..Len(items) : items[i].of \in Nat
      /\ \A i \in 1..Len(down) : down[i].type = "reply" => down[i].of \in Nat
  BY Counts DEF IInv, Answered
<1>2. /\ down' \in Seq(Replies \cup Pushed)
      /\ Len(down') = Len(down) + 1 /\ down'[Len(down) + 1] = frame
      /\ \A i \in 1..Len(down) : down'[i] = down[i]
  BY DEF IInv, Typed
<1>3. QueueOK'
  BY DEF IInv, QueueOK, Answered
<1>4. ArrivedOK'
  BY <1>1 DEF IInv, ArrivedOK
<1>5. DownOK'
  <2>1. PICK rank \in [0..Len(down) -> Nat] :
          /\ rank[0] = Answered + Len(items)
          /\ \A i \in 1..Len(down) :
                IF down[i].type = "reply"
                  THEN /\ rank[i] = rank[i - 1] + 1
                       /\ down[i].of <= rank[i] /\ rank[i] <= down[i].of + strays
                  ELSE rank[i] = rank[i - 1]
          /\ rank[Len(down)] = Served + strays
    BY DEF IInv, DownOK
  <2>2. PICK next \in Nat :
          next = IF frame.type = "reply" THEN rank[Len(down)] + 1 ELSE rank[Len(down)]
    <3>1. Len(down) \in 0..Len(down)
      BY <1>1
    <3>2. rank[Len(down)] \in Nat
      BY <2>1, <3>1
    <3> QED
      BY <3>2
  <2>3. next = Served' + strays'
    BY <1>1, <2>1, <2>2
  <2> DEFINE new == [i \in 0..(Len(down) + 1) |-> IF i <= Len(down) THEN rank[i] ELSE next]
  <2>4. new \in [0..(Len(down) + 1) -> Nat]
    BY <1>1
  <2>5. /\ new[0] = Answered + Len(items) /\ new[Len(down) + 1] = next
        /\ \A i \in 0..Len(down) : new[i] = rank[i]
    BY <1>1, <2>1
  <2> HIDE DEF new
  <2>6. ASSUME NEW i \in 1..(Len(down) + 1)
        PROVE  IF down'[i].type = "reply"
                 THEN /\ new[i] = new[i - 1] + 1
                      /\ down'[i].of <= new[i] /\ new[i] <= down'[i].of + strays'
                 ELSE new[i] = new[i - 1]
    <3>1. CASE i <= Len(down)
      <4>1. i \in 1..Len(down) /\ i - 1 \in 0..Len(down) /\ i \in 0..Len(down)
        BY <1>1, <3>1
      <4>2. down'[i] = down[i] /\ new[i] = rank[i] /\ new[i - 1] = rank[i - 1]
        BY <1>2, <2>5, <4>1
      <4>3. rank[i] \in Nat /\ (down[i].type = "reply" => down[i].of \in Nat)
        BY <1>1, <4>1
      <4> QED
        BY <1>1, <2>1, <4>1, <4>2, <4>3
    <3>2. CASE i = Len(down) + 1
      <4>1. down'[i] = frame /\ new[i] = next /\ new[i - 1] = rank[Len(down)]
        BY <1>1, <1>2, <2>5, <3>2
      <4> QED
        BY <2>2, <2>3, <4>1
    <3> QED
      BY <1>1, <3>1, <3>2
  <2> QED
    BY <1>1, <1>2, <2>3, <2>4, <2>5, <2>6 DEF DownOK
<1> QED
  BY <1>2, <1>3, <1>4, <1>5

(* What a presence frame says of a user is true of the set it is folded      *)
(* into, and of the others the set says what it said before.                 *)
LEMMA FoldSays ==
    ASSUME NEW users \in SUBSET Peers, NEW frame \in Replies \cup Pushed,
           IsPresence(frame)
    PROVE  /\ Fold(users, frame) \in SUBSET Peers
           /\ \A v \in Peers :
                 v \in Fold(users, frame) <=>
                     IF About(frame, v) THEN Says(frame, v) ELSE v \in users
<1>1. CASE frame.type = "presence_snapshot"
  <2>1. frame.users \in SUBSET Peers
    BY <1>1 DEF Replies, Pushed
  <2> QED
    BY <1>1, <2>1 DEF Fold, About, Says
<1>2. CASE frame.type = "presence"
  <2>1. frame.user \in Peers /\ frame.online \in BOOLEAN
    BY <1>2 DEF Replies, Pushed
  <2>2. CASE frame.online
    BY <1>2, <2>1, <2>2 DEF Fold, About, Says
  <2>3. CASE ~frame.online
    BY <1>2, <2>1, <2>3 DEF Fold, About, Says
  <2> QED
    BY <2>1, <2>2, <2>3
<1> QED
  BY <1>1, <1>2 DEF IsPresence

(* A frame arrives, and is passed on if it is a reply.                       *)
LEMMA TakeFrame ==
    ASSUME IInv, Arrive
    PROVE  /\ Typed' /\ QueueOK' /\ ArrivedOK' /\ DownOK'
           /\ link = "up" /\ Len(down) \in Nat /\ Len(down) >= 1
           /\ down[1] \in Replies \cup Pushed
           /\ Len(down') = Len(down) - 1
           /\ \A i \in 1..Len(down') : down'[i] = down[i + 1]
<1>1. /\ Answered \in Nat /\ Len(items) \in Nat /\ Len(down) \in Nat
      /\ Len(got) \in Nat /\ Len(waiters) \in Nat /\ strays \in Nat
      /\ \A n \in 1..Answered : got[n].of \in Nat
      /\ \A i \in 1..Len(items) : items[i].of \in Nat
      /\ \A i \in 1..Len(down) : down[i].type = "reply" => down[i].of \in Nat
  BY Counts DEF IInv
<1>2. /\ down \in Seq(Replies \cup Pushed) /\ down # <<>> /\ down' = Tail(down)
      /\ UNCHANGED <<boot, ws, link, up, reqs, relay, done, others, pushes, strays>>
  BY DEF IInv, Typed, Arrive
<1>3. /\ Len(down) >= 1 /\ Head(down) = down[1] /\ down[1] \in Replies \cup Pushed
      /\ down' \in Seq(Replies \cup Pushed) /\ Len(down') = Len(down) - 1
      /\ \A i \in 1..Len(down') : down'[i] = down[i + 1]
  BY <1>1, <1>2, HeadTailProperties
<1>4. link = "up"
  BY <1>2 DEF IInv, LinkOK
<1>5. PICK rank \in [0..Len(down) -> Nat] :
        /\ rank[0] = Answered + Len(items)
        /\ \A i \in 1..Len(down) :
              IF down[i].type = "reply"
                THEN /\ rank[i] = rank[i - 1] + 1
                     /\ down[i].of <= rank[i] /\ rank[i] <= down[i].of + strays
                ELSE rank[i] = rank[i - 1]
        /\ rank[Len(down)] = Served + strays
  BY <1>4 DEF IInv, DownOK
<1>6. IF down[1].type = "reply"
        THEN /\ rank[1] = Answered + Len(items) + 1
             /\ down[1].of <= Answered + Len(items) + 1
             /\ Answered + Len(items) + 1 <= down[1].of + strays
        ELSE rank[1] = Answered + Len(items)
  <2>1. 1 \in 1..Len(down) /\ 1 - 1 = 0
    BY <1>1, <1>3
  <2> QED
    BY <1>5, <2>1
<1>7. /\ QueueOK' /\ ArrivedOK' /\ Answered' \in Nat /\ Len(items') \in Nat
      /\ items' \in Seq(Replies) /\ waiters' \in Seq(Nat)
      /\ got' \in Seq(Replies \cup {NoFrame})
      /\ Answered' + Len(items') = rank[1]
  <2>1. CASE down[1].type # "reply"
    <3>1. UNCHANGED <<items, waiters, got>>
      BY <1>3, <2>1 DEF Arrive
    <3> QED
      BY <1>1, <1>2, <1>6, <2>1, <3>1 DEF IInv, Typed, QueueOK, ArrivedOK, Answered
  <2>2. CASE down[1].type = "reply"
    <3>1. Push(down[1]) /\ down[1] \in Replies /\ down[1].of \in Nat /\ down[1] # NoFrame
      BY <1>3, <2>2, ReplyTypes DEF Arrive, Replies, NoFrame
    <3>2. CASE waiters = <<>>
      <4>1. /\ items' = Append(items, down[1]) /\ got' = got /\ waiters' = waiters
            /\ Answered' = Answered
        BY <3>1, <3>2 DEF Push, Answered
      <4>2. /\ items' \in Seq(Replies) /\ Len(items') = Len(items) + 1
            /\ items'[Len(items) + 1] = down[1]
            /\ \A i \in 1..Len(items) : items'[i] = items[i]
        BY <3>1, <4>1 DEF IInv, Typed
      <4>3. QueueOK'
        BY <1>2, <3>2, <4>1 DEF IInv, QueueOK
      <4>4. ArrivedOK'
        <5>1. ASSUME NEW i \in 1..Len(items')
              PROVE  items'[i].of <= Answered + i /\ Answered + i <= items'[i].of + strays
          <6>1. CASE i = Len(items) + 1
            BY <1>1, <1>6, <2>2, <3>1, <4>2, <6>1
          <6>2. CASE i # Len(items) + 1
            <7>1. i \in 1..Len(items)
              BY <1>1, <4>2, <6>2
            <7> QED
              BY <4>2, <7>1 DEF IInv, ArrivedOK
          <6> QED
            BY <6>1, <6>2
        <5> QED
          BY <1>2, <4>1, <5>1 DEF IInv, ArrivedOK
      <4> QED
        BY <1>1, <1>6, <2>2, <4>1, <4>2, <4>3, <4>4 DEF IInv, Typed
    <3>3. CASE waiters # <<>>
      <4>1. /\ got' = [got EXCEPT ![Head(waiters)] = down[1]] /\ waiters' = Tail(waiters)
            /\ items' = items /\ items = <<>> /\ Len(items) = 0
        BY <3>1, <3>3 DEF Push, IInv, QueueOK
      <4>2. /\ Len(waiters) >= 1 /\ Head(waiters) = waiters[1]
            /\ waiters' \in Seq(Nat) /\ Len(waiters') = Len(waiters) - 1
            /\ \A i \in 1..Len(waiters') : waiters'[i] = waiters[i + 1]
        BY <1>1, <3>3, <4>1, HeadTailProperties DEF IInv, Typed
      <4>3. /\ Head(waiters) = Answered + 1 /\ Answered + 1 \in 1..Len(got)
        BY <1>1, <4>2 DEF IInv, QueueOK, Answered
      <4>4. /\ got' \in Seq(Replies \cup {NoFrame}) /\ Len(got') = Len(got)
            /\ got'[Answered + 1] = down[1]
            /\ \A n \in 1..Len(got) : n # Answered + 1 => got'[n] = got[n]
        <5>1. got \in Seq(Replies \cup {NoFrame}) /\ down[1] \in Replies \cup {NoFrame}
          BY <3>1 DEF IInv, Typed
        <5>2. got' = [got EXCEPT ![Answered + 1] = down[1]]
          BY <4>1, <4>3
        <5> QED
          BY <4>3, <5>1, <5>2, ExceptSeq
      <4>5. Answered' = Answered + 1
        BY <1>1, <4>2, <4>4 DEF Answered
      <4>6. QueueOK'
        <5>1. /\ Len(got') = Len(reqs') /\ Len(waiters') <= Len(got') /\ items' = <<>>
          BY <1>1, <1>2, <4>1, <4>2, <4>4 DEF IInv, QueueOK
        <5>2. \A i \in 1..Len(waiters') : waiters'[i] = Answered + 1 + i
          BY <1>1, <4>2 DEF IInv, QueueOK
        <5>3. \A n \in 1..Len(got') : got'[n] = NoFrame <=> n > Answered + 1
          BY <1>1, <3>1, <4>3, <4>4 DEF IInv, QueueOK
        <5> QED
          BY <4>5, <5>1, <5>2, <5>3 DEF QueueOK
      <4>7. ArrivedOK'
        <5>1. ASSUME NEW n \in 1..(Answered + 1)
              PROVE  got'[n].of <= n /\ n <= got'[n].of + strays
          <6>1. CASE n = Answered + 1
            BY <1>1, <1>6, <2>2, <4>1, <4>4, <6>1
          <6>2. CASE n # Answered + 1
            <7>1. n \in 1..Answered /\ n \in 1..Len(got)
              BY <1>1, <4>3, <6>2
            <7> QED
              BY <4>4, <6>2, <7>1 DEF IInv, ArrivedOK
          <6> QED
            BY <6>1, <6>2
        <5>2. \A i \in 1..Len(items') : FALSE
          BY <4>1
        <5> QED
          BY <1>2, <4>5, <5>1, <5>2 DEF ArrivedOK
      <4> QED
        BY <1>1, <1>6, <2>2, <4>1, <4>2, <4>4, <4>5, <4>6, <4>7 DEF IInv, Typed
    <3> QED
      BY <3>2, <3>3
  <2> QED
    BY <2>1, <2>2
<1>8. DownOK'
  <2> DEFINE new == [i \in 0..(Len(down) - 1) |-> rank[i + 1]]
  <2>1. new \in [0..(Len(down) - 1) -> Nat]
    BY <1>1, <1>3, <1>5
  <2>2. /\ \A i \in 0..(Len(down) - 1) : new[i] = rank[i + 1]
        /\ new[0] = rank[1]
        /\ new[Len(down) - 1] = rank[Len(down)]
    BY <1>1, <1>3
  <2> HIDE DEF new
  <2>3. ASSUME NEW i \in 1..(Len(down) - 1)
        PROVE  IF down'[i].type = "reply"
                 THEN /\ new[i] = new[i - 1] + 1
                      /\ down'[i].of <= new[i] /\ new[i] <= down'[i].of + strays
                 ELSE new[i] = new[i - 1]
    <3>1. i + 1 \in 1..Len(down) /\ (i + 1) - 1 = i /\ i - 1 \in 0..(Len(down) - 1)
          /\ (i - 1) + 1 = i /\ i \in 0..(Len(down) - 1)
      BY <1>1, <1>3
    <3>2. new[i] = rank[i + 1] /\ new[i - 1] = rank[i] /\ down'[i] = down[i + 1]
      BY <1>3, <2>2, <3>1
    <3> QED
      BY <1>5, <3>1, <3>2
  <2>4. new[Len(down')] = Served + strays
    BY <1>3, <1>5, <2>2
  <2> QED
    BY <1>2, <1>3, <1>7, <2>1, <2>2, <2>3, <2>4 DEF DownOK, Served
<1>9. Typed'
  <2>1. /\ online \in SUBSET Peers
        /\ dots \in [shown : SUBSET Peers, asked : {"not", "asked", "read", "done"},
                    answer : SUBSET Peers, raced : BOOLEAN]
        /\ inbox \in [pushed : SUBSET Nat, handling : SUBSET Nat, reported : SUBSET Nat]
    BY DEF IInv, Typed
  <2>2. CASE down[1].type = "reply"
    <3>1. UNCHANGED <<online, dots, inbox>>
      BY <1>3, <2>2 DEF Arrive
    <3> QED
      BY <1>2, <1>3, <1>7, <2>1, <3>1 DEF IInv, Typed
  <2>3. CASE down[1].type = "incoming_message"
    <3>1. down[1].id \in Nat
      BY <1>3, <2>3 DEF Replies, Pushed
    <3>2. inbox' = IF Attached THEN [inbox EXCEPT !.handling = @ \cup {down[1].id}] ELSE inbox
      BY <1>3, <2>3 DEF Arrive
    <3>3. inbox' \in [pushed : SUBSET Nat, handling : SUBSET Nat, reported : SUBSET Nat]
      BY <2>1, <3>1, <3>2
    <3>4. UNCHANGED <<online, dots>>
      BY <1>3, <2>3 DEF Arrive
    <3> QED
      BY <1>2, <1>3, <1>7, <2>1, <3>3, <3>4 DEF IInv, Typed
  <2>4. CASE down[1].type \notin {"reply", "incoming_message"}
    <3>1. UNCHANGED inbox /\ Note(down[1]) /\ IsPresence(down[1])
      BY <1>3, <2>4 DEF Arrive, Replies, Pushed, IsPresence
    <3>2. /\ Fold(online, down[1]) \in SUBSET Peers
          /\ Fold(dots.shown, down[1]) \in SUBSET Peers
      BY <1>3, <2>1, <3>1, FoldSays
    <3>3. /\ online' \in SUBSET Peers
          /\ dots' \in [shown : SUBSET Peers, asked : {"not", "asked", "read", "done"},
                    answer : SUBSET Peers, raced : BOOLEAN]
      BY <2>1, <3>1, <3>2 DEF Note
    <3> QED
      BY <1>2, <1>3, <1>7, <2>1, <3>1, <3>3 DEF IInv, Typed
  <2> QED
    BY <2>2, <2>3, <2>4
<1> QED
  BY <1>1, <1>3, <1>4, <1>7, <1>8, <1>9

(* The ranks hold as long as the counts they start and end with.             *)
LEMMA DownFrame ==
    ASSUME IInv, down' = down, strays' = strays, link' = "up" => link = "up",
           Answered' + Len(items') = Answered + Len(items),
           link' = "up" => Served' = Served
    PROVE  DownOK'
<1>1. PICK rank \in [0..Len(down) -> Nat] :
        /\ rank[0] = Answered + Len(items)
        /\ \A i \in 1..Len(down) :
              IF down[i].type = "reply"
                THEN /\ rank[i] = rank[i - 1] + 1
                     /\ down[i].of <= rank[i] /\ rank[i] <= down[i].of + strays
                ELSE rank[i] = rank[i - 1]
        /\ link = "up" => rank[Len(down)] = Served + strays
  BY DEF IInv, DownOK
<1>2. /\ rank[0] = Answered' + Len(items')
      /\ link' = "up" => rank[Len(down')] = Served' + strays'
  BY <1>1
<1> QED
  BY <1>1, <1>2 DEF DownOK

(* A step that leaves the queue, the relay and what is under way alone.      *)
LEMMA Elsewhere ==
    ASSUME IInv,
           UNCHANGED <<link, up, down, items, waiters, reqs, got, relay, others, online,
                       strays>>
    PROVE  QueueOK' /\ ArrivedOK' /\ UpOK' /\ DownOK' /\ NoticesOK' /\ PresenceOK'
<1>1. Answered' = Answered /\ Served' = Served
  BY DEF Answered, Served
<1>2. QueueOK' /\ ArrivedOK' /\ UpOK'
  BY <1>1 DEF IInv, QueueOK, ArrivedOK, UpOK
<1>3. DownOK'
  BY <1>1, DownFrame
<1>4. NoticesOK' /\ PresenceOK'
  BY DEF IInv, NoticesOK, PresenceOK, Noticed
<1> QED
  BY <1>2, <1>3, <1>4

(* A request is queued up for an answer, or has one at once.                 *)
LEMMA RequestStep ==
    ASSUME IInv, NEW by \in Callers \cup {Boot}, NEW kind \in Kinds, Request(by, kind),
           \/ boot \in {"login", "main"} /\ boot' = boot
           \/ boot = "login" /\ boot' = "upload"
    PROVE  IInv'
<1>1. /\ Answered \in Nat /\ Len(items) \in Nat /\ Len(got) \in Nat
      /\ Len(waiters) \in Nat /\ Len(reqs) \in Nat /\ Len(up) \in Nat /\ strays \in Nat
      /\ Len(got) = Len(reqs) /\ Answered <= Len(got)
      /\ \A n \in 1..Answered : got[n].of \in Nat
      /\ \A i \in 1..Len(items) : items[i] \in Replies /\ items[i].of \in Nat
  BY Counts DEF IInv, QueueOK
<1>2. /\ ws = "set"
      /\ UNCHANGED <<ws, link, down, relay, done, others, online, dots, pushes, inbox, strays>>
      /\ reqs' = Append(reqs, [by |-> by, kind |-> kind])
      /\ up' = IF link = "up" THEN Append(up, Len(reqs) + 1) ELSE up
      /\ Pop(Len(reqs) + 1)
  BY DEF Request
<1>3. reqs' \in Seq([by : Callers \cup {Boot}, kind : Kinds]) /\ Len(reqs') = Len(reqs) + 1
  BY <1>2 DEF IInv, Typed
<1>4. /\ up' \in Seq(Nat)
      /\ link = "up" => /\ Len(up') = Len(up) + 1 /\ up'[Len(up) + 1] = Len(reqs) + 1
                        /\ \A i \in 1..Len(up) : up'[i] = up[i]
  BY <1>1, <1>2 DEF IInv, Typed
<1>5. link' = "up" => Served' = Served
  BY <1>1, <1>2, <1>3, <1>4 DEF Served
<1>6. UpOK'
  <2> SUFFICES ASSUME link = "up"
               PROVE  UpOK'
    BY <1>2 DEF UpOK
  <2>1. /\ Len(up') <= Len(reqs')
        /\ relay'.step # "idle" => relay'.of = Served'
    BY <1>1, <1>2, <1>3, <1>4, <1>5 DEF IInv, UpOK
  <2>2. ASSUME NEW i \in 1..Len(up')
        PROVE  up'[i] = Served' + i
    <3>1. CASE i = Len(up) + 1
      BY <1>1, <1>2, <1>4, <1>5, <3>1 DEF Served
    <3>2. CASE i # Len(up) + 1
      <4>1. i \in 1..Len(up) /\ up'[i] = up[i]
        BY <1>1, <1>2, <1>4, <3>2
      <4> QED
        BY <1>2, <1>5, <4>1 DEF IInv, UpOK
    <3> QED
      BY <3>1, <3>2
  <2> QED
    BY <2>1, <2>2 DEF UpOK
<1>7. /\ QueueOK' /\ ArrivedOK' /\ Answered' + Len(items') = Answered + Len(items)
      /\ items' \in Seq(Replies) /\ waiters' \in Seq(Nat)
      /\ got' \in Seq(Replies \cup {NoFrame})
  <2>1. CASE items = <<>>
    <3>1. /\ got' = Append(got, NoFrame) /\ waiters' = Append(waiters, Len(reqs) + 1)
          /\ items' = items
      BY <1>2, <2>1 DEF Pop
    <3>2. /\ got' \in Seq(Replies \cup {NoFrame}) /\ Len(got') = Len(got) + 1
          /\ got'[Len(got) + 1] = NoFrame
          /\ \A n \in 1..Len(got) : got'[n] = got[n]
      BY <3>1 DEF IInv, Typed
    <3>3. /\ waiters' \in Seq(Nat) /\ Len(waiters') = Len(waiters) + 1
          /\ waiters'[Len(waiters) + 1] = Len(reqs) + 1
          /\ \A i \in 1..Len(waiters) : waiters'[i] = waiters[i]
      BY <1>1, <3>1 DEF IInv, Typed
    <3>4. Answered' = Answered /\ Len(got) + 1 = Answered + (Len(waiters) + 1)
      BY <1>1, <3>2, <3>3 DEF Answered
    <3>5. QueueOK'
      <4>1. Len(got') = Len(reqs') /\ Len(waiters') <= Len(got') /\ items' = <<>>
        BY <1>1, <1>3, <2>1, <3>1, <3>2, <3>3 DEF IInv, QueueOK
      <4>2. ASSUME NEW i \in 1..Len(waiters')
            PROVE  waiters'[i] = Answered + i
        <5>1. CASE i = Len(waiters) + 1
          BY <1>1, <3>3, <3>4, <5>1
        <5>2. CASE i # Len(waiters) + 1
          <6>1. i \in 1..Len(waiters)
            BY <1>1, <3>3, <5>2
          <6> QED
            BY <3>3, <6>1 DEF IInv, QueueOK
        <5> QED
          BY <5>1, <5>2
      <4>3. ASSUME NEW n \in 1..Len(got')
            PROVE  got'[n] = NoFrame <=> n > Answered
        <5>1. CASE n = Len(got) + 1
          BY <1>1, <3>2, <3>4, <5>1
        <5>2. CASE n # Len(got) + 1
          <6>1. n \in 1..Len(got)
            BY <1>1, <3>2, <5>2
          <6> QED
            BY <3>2, <6>1 DEF IInv, QueueOK
        <5> QED
          BY <5>1, <5>2
      <4> QED
        BY <3>4, <4>1, <4>2, <4>3 DEF QueueOK
    <3>6. ArrivedOK'
      <4>1. \A n \in 1..Answered : n \in 1..Len(got)
        BY <1>1
      <4>2. \A n \in 1..Answered : got'[n] = got[n]
        BY <3>2, <4>1
      <4> QED
        BY <1>2, <3>1, <3>4, <4>2 DEF IInv, ArrivedOK
    <3> QED
      BY <3>1, <3>2, <3>3, <3>4, <3>5, <3>6 DEF IInv, Typed
  <2>2. CASE items # <<>>
    <3>1. /\ got' = Append(got, Head(items)) /\ items' = Tail(items) /\ waiters' = waiters
          /\ waiters = <<>> /\ Len(waiters) = 0
      BY <1>2, <2>2 DEF Pop, IInv, QueueOK
    <3>2. /\ Len(items) >= 1 /\ Head(items) = items[1]
          /\ items' \in Seq(Replies) /\ Len(items') = Len(items) - 1
          /\ \A i \in 1..Len(items') : items'[i] = items[i + 1]
      BY <1>1, <2>2, <3>1, HeadTailProperties DEF IInv, Typed
    <3>3. items[1] \in Replies /\ items[1] # NoFrame /\ Answered = Len(got)
      BY <1>1, <3>1, <3>2 DEF Replies, NoFrame, Answered
    <3>4. /\ got' \in Seq(Replies \cup {NoFrame}) /\ Len(got') = Len(got) + 1
          /\ got'[Len(got) + 1] = items[1]
          /\ \A n \in 1..Len(got) : got'[n] = got[n]
      BY <3>1, <3>2, <3>3 DEF IInv, Typed
    <3>5. Answered' = Answered + 1
      BY <1>1, <3>1, <3>3, <3>4 DEF Answered
    <3>6. QueueOK'
      <4>1. ASSUME NEW n \in 1..Len(got')
            PROVE  got'[n] = NoFrame <=> n > Answered + 1
        <5>1. CASE n = Len(got) + 1
          BY <1>1, <3>3, <3>4, <5>1
        <5>2. CASE n # Len(got) + 1
          <6>1. n \in 1..Len(got) /\ n <= Len(got)
            BY <1>1, <3>4, <5>2
          <6>2. got[n] # NoFrame
            BY <1>1, <3>3, <6>1 DEF IInv, QueueOK
          <6> QED
            BY <1>1, <3>3, <3>4, <6>1, <6>2
        <5> QED
          BY <5>1, <5>2
      <4> QED
        BY <1>1, <1>3, <3>1, <3>4, <3>5, <4>1 DEF QueueOK
    <3>7. ArrivedOK'
      <4>1. ASSUME NEW n \in 1..(Answered + 1)
            PROVE  got'[n].of <= n /\ n <= got'[n].of + strays
        <5>1. CASE n = Answered + 1
          <6>1. 1 \in 1..Len(items)
            BY <1>1, <3>2
          <6>2. items[1].of <= Answered + 1 /\ Answered + 1 <= items[1].of + strays
            BY <6>1 DEF IInv, ArrivedOK
          <6> QED
            BY <3>3, <3>4, <5>1, <6>2
        <5>2. CASE n # Answered + 1
          <6>1. n \in 1..Answered /\ n \in 1..Len(got)
            BY <1>1, <3>3, <5>2
          <6> QED
            BY <3>4, <6>1 DEF IInv, ArrivedOK
        <5> QED
          BY <5>1, <5>2
      <4>2. ASSUME NEW i \in 1..Len(items')
            PROVE  /\ items'[i].of <= Answered + 1 + i
                   /\ Answered + 1 + i <= items'[i].of + strays
        <5>1. i + 1 \in 1..Len(items) /\ Answered + (i + 1) = Answered + 1 + i
          BY <1>1, <3>2
        <5>2. /\ items[i + 1].of <= Answered + (i + 1)
              /\ Answered + (i + 1) <= items[i + 1].of + strays
          BY <5>1 DEF IInv, ArrivedOK
        <5> QED
          BY <3>2, <5>1, <5>2
      <4> QED
        BY <1>2, <3>5, <4>1, <4>2 DEF ArrivedOK
    <3> QED
      BY <1>1, <3>1, <3>2, <3>4, <3>5, <3>6, <3>7 DEF IInv, Typed
  <2> QED
    BY <2>1, <2>2
<1>8. DownOK'
  BY <1>2, <1>5, <1>7, DownFrame
<1>9. Typed'
  BY <1>2, <1>3, <1>4, <1>7 DEF IInv, Typed
<1>10. LinkOK'
  <2>1. link # "none" /\ (link # "up" => up' = <<>> /\ down' = <<>>)
    BY <1>2 DEF IInv, LinkOK
  <2>2. dots.asked # "not" => boot = "main"
    BY DEF IInv, LinkOK
  <2> QED
    BY <1>2, <2>1, <2>2 DEF IInv, LinkOK
<1>11. MailOK' /\ NoticesOK' /\ PresenceOK' /\ DotsOK'
  BY <1>2 DEF IInv, MailOK, NoticesOK, PresenceOK, DotsOK, Noticed
<1> QED
  BY <1>6, <1>7, <1>8, <1>9, <1>10, <1>11 DEF IInv

(* What is under way after the relay has written a frame.                    *)
LEMMA WriteNews ==
    ASSUME IInv, link = "up", link' = link, NEW frame,
           Len(down) \in Nat, Len(down') = Len(down) + 1, down'[Len(down) + 1] = frame,
           \A i \in 1..Len(down) : down'[i] = down[i],
           \A i \in inbox'.pushed : i \in inbox.pushed \/ frame = Mail(i),
           inbox'.handling = inbox.handling, inbox'.reported = inbox.reported,
           online' = online,
           relay'.told /\ relay'.connected = "yes" => \A v \in Peers \ mistold' :
                \/ \E n \in notices' : n.user = v
                \/ About(frame, v) /\ (Says(frame, v) <=> v \in peers')
                \/ /\ ~About(frame, v) /\ relay.told /\ relay.connected = "yes"
                   /\ v \notin mistold /\ ~Noticed(v) /\ (v \in peers' <=> v \in peers)
    PROVE  MailOK' /\ PresenceOK'
<1>1. Len(down) + 1 \in 1..Len(down')
  OBVIOUS
<1>2. MailOK'
  <2> SUFFICES ASSUME NEW i \in inbox'.pushed
               PROVE  \/ \E k \in 1..Len(down') : down'[k] = Mail(i)
                      \/ i \in inbox'.handling \cup inbox'.reported
    BY DEF MailOK, Mail
  <2>1. CASE frame = Mail(i)
    BY <1>1, <2>1
  <2>2. CASE i \in inbox.pushed
    <3>1. \A k \in 1..Len(down) : k \in 1..Len(down')
      OBVIOUS
    <3> QED
      BY <2>2, <3>1 DEF IInv, MailOK
  <2> QED
    BY <2>1, <2>2
<1>3. PresenceOK'
  <2> SUFFICES ASSUME relay'.told, relay'.connected = "yes", NEW v \in Peers \ mistold',
                      \A n \in notices' : n.user # v
               PROVE  \/ \E i \in 1..Len(down') :
                           /\ About(down'[i], v) /\ (Says(down'[i], v) <=> v \in peers')
                           /\ \A j \in (i + 1)..Len(down') : ~About(down'[j], v)
                      \/ /\ \A i \in 1..Len(down') : ~About(down'[i], v)
                         /\ v \in online' <=> v \in peers'
    BY DEF PresenceOK, Noticed, About, Says
  <2>1. CASE About(frame, v) /\ (Says(frame, v) <=> v \in peers')
    <3>1. \A j \in ((Len(down) + 1) + 1)..Len(down') : FALSE
      OBVIOUS
    <3> QED
      BY <1>1, <2>1, <3>1
  <2>2. CASE /\ ~About(frame, v) /\ relay.told /\ relay.connected = "yes"
             /\ v \notin mistold /\ ~Noticed(v) /\ (v \in peers' <=> v \in peers)
    <3>1. CASE \E i \in 1..Len(down) :
                  /\ About(down[i], v) /\ (Says(down[i], v) <=> v \in peers)
                  /\ \A j \in (i + 1)..Len(down) : ~About(down[j], v)
      <4>1. PICK i \in 1..Len(down) :
                  /\ About(down[i], v) /\ (Says(down[i], v) <=> v \in peers)
                  /\ \A j \in (i + 1)..Len(down) : ~About(down[j], v)
        BY <3>1
      <4>2. ASSUME NEW j \in (i + 1)..Len(down')
            PROVE  ~About(down'[j], v)
        <5>1. CASE j = Len(down) + 1
          BY <2>2, <5>1
        <5>2. CASE j # Len(down) + 1
          <6>1. j \in (i + 1)..Len(down) /\ j \in 1..Len(down)
            BY <5>2
          <6> QED
            BY <4>1, <6>1
        <5> QED
          BY <5>1, <5>2
      <4>3. i \in 1..Len(down') /\ down'[i] = down[i]
        OBVIOUS
      <4> QED
        BY <2>2, <4>1, <4>2, <4>3
    <3>2. CASE (\A i \in 1..Len(down) : ~About(down[i], v)) /\ (v \in online <=> v \in peers)
      <4>1. ASSUME NEW i \in 1..Len(down')
            PROVE  ~About(down'[i], v)
        <5>1. CASE i = Len(down) + 1
          BY <2>2, <5>1
        <5>2. CASE i # Len(down) + 1
          <6>1. i \in 1..Len(down)
            BY <5>2
          <6> QED
            BY <3>2, <6>1
        <5> QED
          BY <5>1, <5>2
      <4> QED
        BY <2>2, <3>2, <4>1
    <3> QED
      BY <2>2, <3>1, <3>2 DEF IInv, PresenceOK
  <2> QED
    BY <2>1, <2>2
<1> QED
  BY <1>2, <1>3

LEMMA ServeStep ==
    ASSUME IInv, NEW ok \in BOOLEAN, Serve(ok)
    PROVE  IInv'
<1> DEFINE n == Head(up)
<1>1. /\ link = "up" /\ relay.step = "idle" /\ up # <<>> /\ up' = Tail(up)
      /\ down' = Append(down, Reply(n, ok))
      /\ relay' = [relay EXCEPT
                !.of = n,
                !.connected = IF ok /\ reqs[n].kind = "login" THEN "yes" ELSE @,
                !.told = @ /\ ~(ok /\ reqs[n].kind = "login"),
                !.step = IF ok /\ reqs[n].kind = "login" THEN "snapshot"
                         ELSE IF ok /\ reqs[n].kind = "send" THEN "others" ELSE "idle"]
      /\ UNCHANGED <<others, pushes, inbox, strays, boot, ws, link, items, waiters, reqs, got,
                     online, dots>>
  BY DEF Serve, RelayOnly
<1>2. /\ Answered \in Nat /\ Len(reqs) \in Nat /\ Len(up) \in Nat /\ strays \in Nat
      /\ Len(down) \in Nat
  BY Counts DEF IInv
<1>3. /\ Len(up) >= 1 /\ n = up[1] /\ n \in Nat
      /\ up' \in Seq(Nat) /\ Len(up') = Len(up) - 1
      /\ \A i \in 1..Len(up') : up'[i] = up[i + 1]
  <2>1. up \in Seq(Nat)
    BY DEF IInv, Typed
  <2> QED
    BY <1>1, <1>2, <2>1, HeadTailProperties
<1>4. /\ Served \in Nat /\ n = Served + 1 /\ Served' = Served + 1
      /\ Len(up') <= Len(reqs')
      /\ \A i \in 1..Len(up') : up'[i] = Served + 1 + i
  <2>1. Len(up) <= Len(reqs) /\ \A i \in 1..Len(up) : up[i] = Served + i
    BY <1>1 DEF IInv, UpOK
  <2>2. Served \in Nat /\ Served' = Served + 1 /\ Len(up') <= Len(reqs')
    BY <1>1, <1>2, <1>3, <2>1 DEF Served
  <2>3. n = Served + 1
    BY <1>2, <1>3, <2>1
  <2>4. ASSUME NEW i \in 1..Len(up')
        PROVE  up'[i] = Served + 1 + i
    <3>1. i + 1 \in 1..Len(up)
      BY <1>2, <1>3
    <3> QED
      BY <1>3, <2>1, <2>2, <3>1
  <2> QED
    BY <2>2, <2>3, <2>4
<1>5. /\ Reply(n, ok) \in Replies \cup Pushed /\ Reply(n, ok).type = "reply"
      /\ Reply(n, ok).of = n
  BY <1>3 DEF Reply, Replies
<1> HIDE DEF n
<1>6. /\ QueueOK' /\ ArrivedOK' /\ DownOK'
      /\ down' \in Seq(Replies \cup Pushed)
      /\ Len(down') = Len(down) + 1 /\ down'[Len(down) + 1] = Reply(n, ok)
      /\ \A i \in 1..Len(down) : down'[i] = down[i]
  <2>1. strays' = strays
    BY <1>1
  <2>2. /\ strays' \in Nat /\ strays' >= strays /\ Served' \in Int
        /\ Served' + strays' = Served + strays + 1
    BY <1>2, <1>4, <2>1
  <2>3. n <= Served' + strays' /\ Served' + strays' <= n + strays'
    BY <1>2, <1>4, <2>1
  <2> QED
    BY <1>1, <1>5, <2>2, <2>3, WriteFrame
<1>7. /\ relay'.of = n
      /\ relay'.told => relay.told /\ relay'.connected = relay.connected
      /\ relay'.step \in {"idle", "snapshot", "others"}
      /\ relay' \in [step : {"idle", "snapshot", "others"}, of : Nat,
                     connected : {"no", "yes", "replaced"}, told : BOOLEAN]
  <2>1. relay \in [step : {"idle", "snapshot", "others"}, of : Nat,
                  connected : {"no", "yes", "replaced"}, told : BOOLEAN]
    BY DEF IInv, Typed
  <2>2. CASE ok /\ reqs[n].kind = "login"
    BY <1>1, <1>3, <2>1, <2>2
  <2>3. CASE ok /\ reqs[n].kind = "send"
    BY <1>1, <1>3, <2>1, <2>3
  <2>4. CASE ~ok \/ reqs[n].kind \notin {"login", "send"}
    BY <1>1, <1>3, <2>1, <2>4
  <2> QED
    BY <2>2, <2>3, <2>4
<1>8. Typed'
  BY <1>1, <1>3, <1>6, <1>7 DEF IInv, Typed
<1>9. UpOK'
  BY <1>4, <1>7 DEF UpOK
<1>10. LinkOK' /\ DotsOK' /\ NoticesOK'
  BY <1>1, <1>7 DEF IInv, LinkOK, DotsOK, NoticesOK
<1>11. MailOK' /\ PresenceOK'
  <2>1. \A v : ~About(Reply(n, ok), v)
    BY <1>5 DEF About
  <2> QED
    BY <1>1, <1>2, <1>6, <1>7, <2>1, WriteNews DEF Noticed
<1> QED
  BY <1>6, <1>8, <1>9, <1>10, <1>11 DEF IInv

LEMMA SnapshotStep ==
    ASSUME IInv, SendSnapshot
    PROVE  IInv'
<1>1. /\ link = "up" /\ relay.step = "snapshot" /\ down' = Append(down, Snapshot(peers))
      /\ relay' = [relay EXCEPT !.step = "others", !.told = TRUE]
      /\ UNCHANGED <<up, others, pushes, inbox, strays, boot, ws, link, items, waiters, reqs,
                     got, online, dots>>
  BY DEF SendSnapshot, RelayOnly
<1>2. Len(reqs) \in Nat /\ Len(up) \in Nat /\ strays \in Nat /\ Len(down) \in Nat
  BY Counts DEF IInv
<1>3. /\ Snapshot(peers) \in Replies \cup Pushed /\ Snapshot(peers).type # "reply"
      /\ \A v : About(Snapshot(peers), v) /\ (Says(Snapshot(peers), v) <=> v \in peers)
      /\ \A i : Snapshot(peers) # Mail(i)
  BY DEF IInv, Typed, Snapshot, Pushed, About, Says, Mail
<1>4. Served' = Served /\ Served \in Int
  BY <1>1, <1>2 DEF Served
<1>5. /\ QueueOK' /\ ArrivedOK' /\ DownOK'
      /\ down' \in Seq(Replies \cup Pushed)
      /\ Len(down') = Len(down) + 1 /\ down'[Len(down) + 1] = Snapshot(peers)
      /\ \A i \in 1..Len(down) : down'[i] = down[i]
  <2>1. /\ strays' \in Nat /\ strays' >= strays /\ Served' \in Int
        /\ Served' + strays' = Served + strays
    BY <1>1, <1>2, <1>4
  <2> QED
    BY <1>1, <1>3, <2>1, WriteFrame
<1>6. /\ relay' \in [step : {"idle", "snapshot", "others"}, of : Nat,
                     connected : {"no", "yes", "replaced"}, told : BOOLEAN]
      /\ relay'.step = "others" /\ relay'.of = relay.of
      /\ relay'.connected = relay.connected
  BY <1>1 DEF IInv, Typed
<1>7. Typed'
  BY <1>1, <1>5, <1>6 DEF IInv, Typed
<1>8. UpOK'
  BY <1>1, <1>4, <1>6 DEF IInv, UpOK
<1>9. LinkOK' /\ DotsOK' /\ NoticesOK'
  BY <1>1, <1>6 DEF IInv, LinkOK, DotsOK, NoticesOK
<1>10. MailOK' /\ PresenceOK'
  BY <1>1, <1>2, <1>3, <1>5, WriteNews
<1> QED
  BY <1>5, <1>7, <1>8, <1>9, <1>10 DEF IInv

LEMMA FinishStep ==
    ASSUME IInv, Finish
    PROVE  IInv'
<1>1. /\ link = "up" /\ relay' = [relay EXCEPT !.step = "idle"]
      /\ UNCHANGED <<up, down, others, pushes, inbox, strays, boot, ws, link, items, waiters,
                     reqs, got, online, dots>>
  BY DEF Finish, RelayOnly
<1>2. /\ relay' \in [step : {"idle", "snapshot", "others"}, of : Nat,
                     connected : {"no", "yes", "replaced"}, told : BOOLEAN]
      /\ relay'.step = "idle" /\ relay'.told = relay.told
      /\ relay'.connected = relay.connected
  BY <1>1 DEF IInv, Typed
<1>3. Answered' = Answered /\ Served' = Served
  BY <1>1 DEF Answered, Served
<1>4. QueueOK' /\ ArrivedOK' /\ UpOK'
  BY <1>1, <1>2, <1>3 DEF IInv, QueueOK, ArrivedOK, UpOK
<1>5. DownOK'
  BY <1>1, <1>3, DownFrame
<1>6. Typed'
  BY <1>1, <1>2 DEF IInv, Typed
<1>7. LinkOK'
  BY <1>1, <1>2 DEF IInv, LinkOK
<1>8. MailOK' /\ DotsOK' /\ NoticesOK'
  BY <1>1 DEF IInv, MailOK, DotsOK, NoticesOK
<1>9. PresenceOK'
  BY <1>1, <1>2 DEF IInv, PresenceOK, Noticed
<1> QED
  BY <1>4, <1>5, <1>6, <1>7, <1>8, <1>9 DEF IInv

LEMMA StrayStep ==
    ASSUME IInv, Stray
    PROVE  IInv'
<1> DEFINE n == relay.of
<1>1. /\ link = "up" /\ relay.step = "others" /\ strays' = strays + 1
      /\ down' = Append(down, Reply(n, FALSE))
      /\ relay' = [relay EXCEPT !.step = "idle"]
      /\ UNCHANGED <<up, others, pushes, inbox, boot, ws, link, items, waiters, reqs, got,
                     online, dots>>
  BY DEF Stray, RelayOnly
<1>2. /\ Len(reqs) \in Nat /\ Len(up) \in Nat /\ strays \in Nat /\ Len(down) \in Nat
      /\ Answered \in Nat
  BY Counts DEF IInv
<1>3. n \in Nat
  BY DEF IInv, Typed
<1>4. Served' = Served /\ Served \in Int /\ n = Served
  BY <1>1, <1>2 DEF IInv, UpOK, Served
<1>5. /\ relay' \in [step : {"idle", "snapshot", "others"}, of : Nat,
                     connected : {"no", "yes", "replaced"}, told : BOOLEAN]
      /\ relay'.step = "idle" /\ relay'.told = relay.told
      /\ relay'.connected = relay.connected
  BY <1>1 DEF IInv, Typed
<1>6. /\ Reply(n, FALSE) \in Replies \cup Pushed /\ Reply(n, FALSE).type = "reply"
      /\ Reply(n, FALSE).of = n
  BY <1>3 DEF Reply, Replies
<1>7. \A v : ~About(Reply(n, FALSE), v)
  BY <1>6 DEF About
<1> HIDE DEF n
<1>8. /\ QueueOK' /\ ArrivedOK' /\ DownOK'
      /\ down' \in Seq(Replies \cup Pushed)
      /\ Len(down') = Len(down) + 1 /\ down'[Len(down) + 1] = Reply(n, FALSE)
      /\ \A i \in 1..Len(down) : down'[i] = down[i]
  <2>1. strays' = strays + 1
    BY <1>1
  <2>2. /\ strays' \in Nat /\ strays' >= strays /\ Served' \in Int
        /\ Served' + strays' = Served + strays + 1
    BY <1>2, <1>4, <2>1
  <2>3. n <= Served' + strays' /\ Served' + strays' <= n + strays'
    BY <1>2, <1>4, <2>1
  <2> QED
    BY <1>1, <1>6, <2>2, <2>3, WriteFrame
<1>9. Typed'
  <2>1. strays' \in Nat
    BY <1>1, <1>2
  <2> QED
    BY <1>1, <1>5, <1>8, <2>1 DEF IInv, Typed
<1>10. UpOK'
  BY <1>1, <1>4, <1>5 DEF IInv, UpOK
<1>11. LinkOK' /\ DotsOK' /\ NoticesOK'
  BY <1>1, <1>5 DEF IInv, LinkOK, DotsOK, NoticesOK
<1>12. MailOK' /\ PresenceOK'
  BY <1>1, <1>2, <1>5, <1>7, <1>8, WriteNews DEF Noticed
<1> QED
  BY <1>8, <1>9, <1>10, <1>11, <1>12 DEF IInv

LEMMA PushMailStep ==
    ASSUME IInv, PushMail
    PROVE  IInv'
<1> DEFINE i == pushes + 1
<1>1. /\ link = "up" /\ pushes' = i
      /\ down' = Append(down, Mail(i))
      /\ inbox' = [inbox EXCEPT !.pushed = @ \cup {i}]
      /\ UNCHANGED <<up, relay, others, strays, boot, ws, link, items, waiters, reqs, got,
                     online, dots>>
  BY DEF PushMail, RelayOnly
<1>2. Len(reqs) \in Nat /\ Len(up) \in Nat /\ strays \in Nat /\ Len(down) \in Nat
  BY Counts DEF IInv
<1>3. i \in Nat
  BY DEF IInv, Typed
<1> HIDE DEF i
<1>4. /\ Mail(i) \in Replies \cup Pushed /\ Mail(i).type # "reply"
      /\ \A v : ~About(Mail(i), v)
  BY <1>3 DEF Mail, Pushed, About
<1>5. Served' = Served /\ Served \in Int
  BY <1>1, <1>2 DEF Served
<1>6. /\ QueueOK' /\ ArrivedOK' /\ DownOK'
      /\ down' \in Seq(Replies \cup Pushed)
      /\ Len(down') = Len(down) + 1 /\ down'[Len(down) + 1] = Mail(i)
      /\ \A k \in 1..Len(down) : down'[k] = down[k]
  <2>1. /\ strays' \in Nat /\ strays' >= strays /\ Served' \in Int
        /\ Served' + strays' = Served + strays
    BY <1>1, <1>2, <1>5
  <2> QED
    BY <1>1, <1>4, <2>1, WriteFrame
<1>7. /\ inbox' \in [pushed : SUBSET Nat, handling : SUBSET Nat, reported : SUBSET Nat]
      /\ inbox'.pushed = inbox.pushed \cup {i}
      /\ inbox'.handling = inbox.handling /\ inbox'.reported = inbox.reported
  BY <1>1, <1>3 DEF IInv, Typed
<1>8. Typed'
  BY <1>1, <1>3, <1>6, <1>7 DEF IInv, Typed
<1>9. UpOK' /\ LinkOK' /\ DotsOK' /\ NoticesOK'
  BY <1>1, <1>5 DEF IInv, UpOK, LinkOK, DotsOK, NoticesOK
<1>10. MailOK' /\ PresenceOK'
  BY <1>1, <1>2, <1>4, <1>6, <1>7, WriteNews DEF Noticed
<1> QED
  BY <1>6, <1>8, <1>9, <1>10 DEF IInv

(* The user logs in elsewhere.                                               *)
LEMMA ReplacedStep ==
    ASSUME IInv, Replaced
    PROVE  IInv'
<1>1. /\ relay' = [relay EXCEPT !.connected = "replaced"]
      /\ UNCHANGED <<up, down, others, pushes, inbox, strays, boot, ws, link, items, waiters,
                     reqs, got, online, dots>>
  BY DEF Replaced, RelayOnly
<1>2. /\ relay' \in [step : {"idle", "snapshot", "others"}, of : Nat,
                     connected : {"no", "yes", "replaced"}, told : BOOLEAN]
      /\ relay'.step = relay.step /\ relay'.of = relay.of /\ relay'.told = relay.told
      /\ relay'.connected # "yes"
  BY <1>1 DEF IInv, Typed
<1>3. Answered' = Answered /\ Served' = Served
  BY <1>1 DEF Answered, Served
<1>4. QueueOK' /\ ArrivedOK' /\ UpOK'
  BY <1>1, <1>2, <1>3 DEF IInv, QueueOK, ArrivedOK, UpOK
<1>5. DownOK'
  BY <1>1, <1>3, DownFrame
<1>6. Typed'
  BY <1>1, <1>2 DEF IInv, Typed
<1>7. LinkOK' /\ PresenceOK'
  BY <1>1, <1>2 DEF IInv, LinkOK, PresenceOK
<1>8. MailOK' /\ DotsOK' /\ NoticesOK'
  BY <1>1 DEF IInv, MailOK, DotsOK, NoticesOK
<1> QED
  BY <1>4, <1>5, <1>6, <1>7, <1>8 DEF IInv

(* Handlers of other users go on without a frame for this one.               *)
LEMMA OthersStep ==
    ASSUME IInv, NoticesOK', pushes' \in Nat, peers' \in SUBSET Peers,
           notices' \in SUBSET Notices, mistold' \in SUBSET Peers,
           UNCHANGED <<up, down, relay, done, inbox, strays>>, RelayOnly,
           relay.connected = "yes" => \A v \in Peers \ mistold' :
                \/ \E n \in notices' : n.user = v
                \/ v \notin mistold /\ ~Noticed(v) /\ (v \in peers' <=> v \in peers)
    PROVE  IInv'
<1>1. UNCHANGED <<up, down, relay, inbox, strays, boot, ws, link, items, waiters, reqs, got,
                  online, dots>>
  BY DEF RelayOnly
<1>2. Answered' = Answered /\ Served' = Served
  BY <1>1 DEF Answered, Served
<1>3. QueueOK' /\ ArrivedOK' /\ UpOK'
  BY <1>1, <1>2 DEF IInv, QueueOK, ArrivedOK, UpOK
<1>4. DownOK'
  BY <1>1, <1>2, DownFrame
<1>5. Typed'
  BY <1>1 DEF IInv, Typed
<1>6. LinkOK' /\ MailOK' /\ DotsOK'
  BY <1>1 DEF IInv, LinkOK, MailOK, DotsOK
<1>7. PresenceOK'
  BY <1>1 DEF IInv, PresenceOK, Noticed
<1> QED
  BY <1>3, <1>4, <1>5, <1>6, <1>7 DEF IInv

(* Another user comes or goes: if a notice of her that says otherwise is     *)
(* still to come, nothing is claimed of her.                                 *)
LEMMA TurnsStep ==
    ASSUME IInv, NEW v \in Peers, NEW on \in BOOLEAN, NEW begun \in BOOLEAN, Turns(v, on),
           \/ notices' = notices \cup {Notice(v, on, begun)}
           \/ notices' = notices /\ relay.connected # "yes"
    PROVE  IInv'
<1>1. /\ pushes' = pushes + 1
      /\ peers' = IF on THEN peers \cup {v} ELSE peers \ {v}
      /\ mistold' = IF \E n \in notices : n.user = v /\ n.online # on
                      THEN mistold \cup {v} ELSE mistold
      /\ UNCHANGED <<up, down, relay, done, inbox, strays>> /\ RelayOnly
  BY DEF Turns
<1>2. /\ notices \in SUBSET Notices /\ mistold \in SUBSET Peers
      /\ peers \in SUBSET Peers /\ pushes \in Nat
  BY DEF IInv, Typed
<1>3. PICK m \in Notices : m = Notice(v, on, begun)
  <2>1. pushes + 1 \in Nat
    BY <1>2
  <2>2. Notice(v, on, begun) \in Notices
    BY <2>1 DEF Notice, Notices
  <2> QED
    BY <2>2
<1>4. m.user = v /\ m.online = on
  BY <1>3 DEF Notice
<1>5. notices' = notices \cup {m} \/ (notices' = notices /\ relay.connected # "yes")
  BY <1>3
<1>6. /\ mistold \subseteq mistold' /\ mistold' \in SUBSET Peers
      /\ peers' \in SUBSET Peers /\ notices' \in SUBSET Notices /\ pushes' \in Nat
      /\ v \in peers' <=> on
      /\ \A w : w # v => (w \in peers' <=> w \in peers)
  BY <1>1, <1>2, <1>5
<1>7. NoticesOK'
  <2>1. ASSUME NEW n \in notices', n.user \notin mistold'
        PROVE  n.online <=> n.user \in peers'
    <3>1. CASE n = m
      BY <3>1, <1>4, <1>6
    <3>2. CASE n # m
      <4>1. n \in notices /\ n.user \notin mistold /\ n.online \in BOOLEAN
        BY <3>2, <2>1, <1>2, <1>5, <1>6 DEF Notices
      <4>2. CASE n.user = v
        <5>1. n.online = on
          BY <4>1, <4>2, <2>1, <1>1
        <5> QED
          BY <5>1, <4>2, <1>6
      <4>3. CASE n.user # v
        BY <4>1, <4>3, <1>6 DEF IInv, NoticesOK
      <4> QED
        BY <4>2, <4>3
    <3> QED
      BY <3>1, <3>2
  <2> QED
    BY <2>1 DEF NoticesOK
<1>8. ASSUME relay.connected = "yes", NEW w \in Peers \ mistold'
      PROVE  \/ \E n \in notices' : n.user = w
             \/ w \notin mistold /\ ~Noticed(w) /\ (w \in peers' <=> w \in peers)
  BY <1>8, <1>4, <1>5, <1>6 DEF Noticed
<1> QED
  BY <1>1, <1>6, <1>7, <1>8, OthersStep

LEMMA NoticeStep ==
    ASSUME IInv, NEW n \in notices, BeginBroadcast(n) \/ CutShort(n)
    PROVE  IInv'
<1>1. UNCHANGED <<up, down, relay, done, peers, pushes, inbox, strays>> /\ RelayOnly
  BY DEF BeginBroadcast, CutShort, NoticesOnly
<1>2. /\ notices \in SUBSET Notices /\ mistold \in SUBSET Peers
      /\ peers \in SUBSET Peers /\ pushes \in Nat
  BY DEF IInv, Typed
<1>3. CASE BeginBroadcast(n)
  <2>1. PICK m : m = [n EXCEPT !.begun = TRUE]
    OBVIOUS
  <2>2. m \in Notices /\ m.user = n.user /\ m.online = n.online
    BY <2>1, <1>2 DEF Notices
  <2>3. /\ mistold' = mistold
        /\ \/ notices' = (notices \ {n}) \cup {m}
           \/ notices' = notices \ {n} /\ relay.connected # "yes"
    BY <1>3, <2>1 DEF BeginBroadcast
  <2>4. NoticesOK' /\ notices' \in SUBSET Notices
    BY <1>1, <1>2, <2>2, <2>3 DEF IInv, NoticesOK
  <2>5. ASSUME relay.connected = "yes", NEW w \in Peers \ mistold'
        PROVE  \/ \E x \in notices' : x.user = w
               \/ w \notin mistold /\ ~Noticed(w) /\ (w \in peers' <=> w \in peers)
    BY <1>1, <2>2, <2>3, <2>5 DEF Noticed
  <2> QED
    BY <1>1, <1>2, <2>3, <2>4, <2>5, OthersStep
<1>4. CASE CutShort(n)
  <2>1. /\ notices' = notices \ {n}
        /\ mistold' = IF relay.connected = "no" THEN mistold ELSE mistold \cup {n.user}
    BY <1>4 DEF CutShort
  <2>2. /\ NoticesOK' /\ notices' \in SUBSET Notices /\ mistold' \in SUBSET Peers
    BY <1>1, <1>2, <2>1 DEF IInv, NoticesOK, Notices
  <2>3. ASSUME relay.connected = "yes", NEW w \in Peers \ mistold'
        PROVE  \/ \E x \in notices' : x.user = w
               \/ w \notin mistold /\ ~Noticed(w) /\ (w \in peers' <=> w \in peers)
    BY <1>1, <2>1, <2>3 DEF Noticed
  <2> QED
    BY <1>1, <1>2, <2>2, <2>3, OthersStep
<1> QED
  BY <1>3, <1>4

(* A notice is written, and is the last frame about that user.               *)
LEMMA TellStep ==
    ASSUME IInv, NEW n \in notices, Tell(n)
    PROVE  IInv'
<1> DEFINE frame == Presence(n.user, n.online)
<1>1. /\ notices' = notices \ {n} /\ mistold' = mistold
      /\ down' = IF link = "up" THEN Append(down, frame) ELSE down
      /\ UNCHANGED <<up, relay, done, peers, pushes, inbox, strays, boot, ws, link, items,
                     waiters, reqs, got, online, dots>>
  BY DEF Tell, NoticesOnly, RelayOnly
<1>2. /\ Len(reqs) \in Nat /\ Len(up) \in Nat /\ strays \in Nat /\ Len(down) \in Nat
      /\ notices' \in SUBSET Notices /\ mistold \in SUBSET Peers
      /\ peers \in SUBSET Peers /\ pushes \in Nat /\ n \in Notices
  BY <1>1, Counts DEF IInv, Typed
<1>3. frame \in Pushed /\ frame.type = "presence" /\ frame.user = n.user
      /\ frame.online = n.online
  BY <1>2 DEF Presence, Pushed, Notices
<1> HIDE DEF frame
<1>4. Served' = Served /\ Served \in Int
  BY <1>1, <1>2 DEF Served
<1>5. NoticesOK'
  BY <1>1 DEF IInv, NoticesOK
<1>6. CASE link = "up"
  <2>1. down' = Append(down, frame)
    BY <1>1, <1>6
  <2>2. /\ QueueOK' /\ ArrivedOK' /\ DownOK'
        /\ down' \in Seq(Replies \cup Pushed)
        /\ Len(down') = Len(down) + 1 /\ down'[Len(down) + 1] = frame
        /\ \A k \in 1..Len(down) : down'[k] = down[k]
    <3>1. /\ strays' \in Nat /\ strays' >= strays /\ Served' \in Int
          /\ Served' + strays' = Served + strays
      BY <1>1, <1>2, <1>4
    <3> QED
      BY <1>1, <1>3, <1>6, <2>1, <3>1, WriteFrame
  <2>3. Typed'
    BY <1>1, <1>2, <2>2 DEF IInv, Typed
  <2>4. UpOK' /\ LinkOK' /\ DotsOK'
    BY <1>1, <1>4, <1>6 DEF IInv, UpOK, LinkOK, DotsOK
  <2>5. ASSUME relay'.told, relay'.connected = "yes", NEW w \in Peers \ mistold'
        PROVE  \/ \E x \in notices' : x.user = w
               \/ About(frame, w) /\ (Says(frame, w) <=> w \in peers')
               \/ /\ ~About(frame, w) /\ relay.told /\ relay.connected = "yes"
                  /\ w \notin mistold /\ ~Noticed(w) /\ (w \in peers' <=> w \in peers)
    <3>1. CASE w = n.user
      <4>1. n.online <=> w \in peers
        BY <1>1, <2>5, <3>1 DEF IInv, NoticesOK
      <4> QED
        BY <4>1, <3>1, <1>1, <1>3 DEF About, Says
    <3>2. CASE w # n.user
      BY <1>1, <1>3, <2>5, <3>2 DEF About, Noticed
    <3> QED
      BY <3>1, <3>2
  <2>6. MailOK' /\ PresenceOK'
    BY <1>1, <1>2, <1>6, <2>2, <2>5, WriteNews
  <2> QED
    BY <1>5, <2>2, <2>3, <2>4, <2>6 DEF IInv
<1>7. CASE link # "up"
  <2>1. down' = down
    BY <1>1, <1>7
  <2>2. Answered' = Answered
    BY <1>1 DEF Answered
  <2>3. DownOK'
    BY <1>1, <1>4, <2>1, <2>2, DownFrame
  <2>4. QueueOK' /\ ArrivedOK'
    BY <1>1, <2>2 DEF IInv, QueueOK, ArrivedOK
  <2>5. Typed'
    BY <1>1, <1>2, <2>1 DEF IInv, Typed
  <2>6. LinkOK' /\ DotsOK'
    BY <1>1, <2>1 DEF IInv, LinkOK, DotsOK
  <2>7. UpOK' /\ MailOK' /\ PresenceOK'
    BY <1>1, <1>7 DEF UpOK, MailOK, PresenceOK
  <2> QED
    BY <1>5, <2>3, <2>4, <2>5, <2>6, <2>7 DEF IInv
<1> QED
  BY <1>6, <1>7

LEMMA ArriveStep ==
    ASSUME IInv, Arrive
    PROVE  IInv'
<1>1. /\ Typed' /\ QueueOK' /\ ArrivedOK' /\ DownOK'
      /\ link = "up" /\ Len(down) \in Nat /\ Len(down) >= 1
      /\ down[1] \in Replies \cup Pushed
      /\ Len(down') = Len(down) - 1
      /\ \A i \in 1..Len(down') : down'[i] = down[i + 1]
  BY TakeFrame
<1>2. UNCHANGED <<boot, ws, link, up, reqs, relay, done, others, pushes, strays>>
  BY DEF Arrive
<1>3. boot # "start" /\ Attached
  BY <1>1 DEF IInv, LinkOK, Attached
<1>4. /\ down[1].type = "reply" => UNCHANGED <<online, dots, inbox>>
      /\ down[1].type = "incoming_message" =>
            /\ UNCHANGED <<online, dots>>
            /\ inbox' = [inbox EXCEPT !.handling = @ \cup {down[1].id}]
      /\ down[1].type \notin {"reply", "incoming_message"} =>
            Note(down[1]) /\ UNCHANGED inbox
  <2>1. Head(down) = down[1]
    BY DEF IInv, Typed
  <2> QED
    BY <1>3, <2>1 DEF Arrive
<1>5. IF IsPresence(down[1])
        THEN /\ online' = Fold(online, down[1]) /\ UNCHANGED inbox
             /\ dots' = IF boot # "main" THEN dots
                        ELSE [dots EXCEPT !.shown = Fold(@, down[1]),
                                          !.raced = @ \/ dots.asked = "read"]
        ELSE UNCHANGED <<online, dots>>
  <2>1. CASE IsPresence(down[1])
    <3>1. down[1].type \notin {"reply", "incoming_message"}
      BY <2>1 DEF IsPresence
    <3> QED
      BY <1>3, <1>4, <2>1, <3>1 DEF Note
  <2>2. CASE ~IsPresence(down[1])
    <3>1. down[1].type \in {"reply", "incoming_message"}
      BY <1>1, <2>2 DEF IsPresence, Replies, Pushed
    <3> QED
      BY <1>4, <2>2, <3>1
  <2> QED
    BY <2>1, <2>2
<1>6. UpOK'
  <2>1. Served' = Served
    BY <1>2 DEF Served
  <2> QED
    BY <1>2, <2>1 DEF IInv, UpOK
<1>7. dots \in [shown : SUBSET Peers, asked : {"not", "asked", "read", "done"},
                answer : SUBSET Peers, raced : BOOLEAN] /\ online \in SUBSET Peers
  BY DEF IInv, Typed
<1>8. dots'.asked = dots.asked
  BY <1>5, <1>7
<1>9. LinkOK'
  BY <1>1, <1>2, <1>8 DEF IInv, LinkOK
<1>10. MailOK'
  <2>1. /\ inbox'.pushed = inbox.pushed /\ inbox'.reported = inbox.reported
        /\ inbox.handling \subseteq inbox'.handling
        /\ down[1].type = "incoming_message" => down[1].id \in inbox'.handling
    <3>1. inbox \in [pushed : SUBSET Nat, handling : SUBSET Nat, reported : SUBSET Nat]
      BY DEF IInv, Typed
    <3> QED
      BY <1>4, <3>1
  <2>2. ASSUME NEW i \in inbox.pushed
        PROVE  \/ \E k \in 1..Len(down') : down'[k] = Mail(i)
               \/ i \in inbox'.handling \cup inbox'.reported
    <3>1. CASE i \in inbox.handling \cup inbox.reported
      BY <2>1, <3>1
    <3>2. CASE \E k \in 1..Len(down) : down[k] = Mail(i)
      <4>1. PICK k \in 1..Len(down) : down[k] = Mail(i)
        BY <3>2
      <4>2. CASE k = 1
        BY <2>1, <4>1, <4>2 DEF Mail
      <4>3. CASE k # 1
        <5>1. k - 1 \in 1..Len(down') /\ (k - 1) + 1 = k
          BY <1>1, <4>3
        <5>2. down'[k - 1] = Mail(i)
          BY <1>1, <4>1, <5>1
        <5> QED
          BY <5>1, <5>2
      <4> QED
        BY <4>2, <4>3
    <3> QED
      BY <1>1, <3>1, <3>2 DEF IInv, MailOK
  <2>3. \A i : Mail(i)' = Mail(i)
    BY DEF Mail
  <2> QED
    BY <2>1, <2>2, <2>3 DEF MailOK
<1>11. \A v \in Peers :
          v \in online' <=> IF About(down[1], v) THEN Says(down[1], v) ELSE v \in online
  <2>1. CASE IsPresence(down[1])
    BY <1>1, <1>5, <1>7, <2>1, FoldSays
  <2>2. CASE ~IsPresence(down[1])
    BY <1>5, <2>2 DEF IsPresence, About
  <2> QED
    BY <2>1, <2>2
<1>12. PresenceOK'
  <2> SUFFICES ASSUME relay.told, relay.connected = "yes", NEW v \in Peers \ mistold,
                      ~Noticed(v)
               PROVE  \/ \E i \in 1..Len(down') :
                           /\ About(down'[i], v) /\ (Says(down'[i], v) <=> v \in peers)
                           /\ \A j \in (i + 1)..Len(down') : ~About(down'[j], v)
                      \/ /\ \A i \in 1..Len(down') : ~About(down'[i], v)
                         /\ v \in online' <=> v \in peers
    BY <1>2 DEF PresenceOK, Noticed, About, Says
  <2>1. CASE (\A i \in 1..Len(down) : ~About(down[i], v)) /\ (v \in online <=> v \in peers)
    <3>1. 1 \in 1..Len(down) /\ \A i \in 1..Len(down') : i + 1 \in 1..Len(down)
      BY <1>1
    <3> QED
      BY <1>1, <1>11, <2>1, <3>1
  <2>2. CASE \E i \in 1..Len(down) :
                /\ About(down[i], v) /\ (Says(down[i], v) <=> v \in peers)
                /\ \A j \in (i + 1)..Len(down) : ~About(down[j], v)
    <3>1. PICK i \in 1..Len(down) :
                /\ About(down[i], v) /\ (Says(down[i], v) <=> v \in peers)
                /\ \A j \in (i + 1)..Len(down) : ~About(down[j], v)
      BY <2>2
    <3>2. CASE i = 1
      <4>1. \A j \in 1..Len(down') : j + 1 \in (i + 1)..Len(down)
        BY <1>1, <3>2
      <4>2. \A j \in 1..Len(down') : ~About(down'[j], v)
        BY <1>1, <3>1, <4>1
      <4>3. v \in online' <=> v \in peers
        BY <1>11, <3>1, <3>2
      <4> QED
        BY <4>2, <4>3
    <3>3. CASE i # 1
      <4>1. i - 1 \in 1..Len(down') /\ (i - 1) + 1 = i
        BY <1>1, <3>3
      <4>2. down'[i - 1] = down[i]
        BY <1>1, <4>1
      <4>3. ASSUME NEW j \in ((i - 1) + 1)..Len(down')
            PROVE  ~About(down'[j], v)
        <5>1. j \in 1..Len(down') /\ j + 1 \in (i + 1)..Len(down)
          BY <1>1, <4>1
        <5> QED
          BY <1>1, <3>1, <5>1
      <4> QED
        BY <3>1, <4>1, <4>2, <4>3
    <3> QED
      BY <3>2, <3>3
  <2> QED
    BY <1>1, <2>1, <2>2 DEF IInv, PresenceOK
<1>13. DotsOK'
  <2>1. CASE ~IsPresence(down[1])
    BY <1>5, <2>1 DEF IInv, DotsOK
  <2>2. CASE IsPresence(down[1]) /\ boot # "main"
    <3>1. dots' = dots /\ dots.asked = "not"
      BY <1>5, <2>2 DEF IInv, LinkOK
    <3> QED
      BY <3>1 DEF DotsOK
  <2>3. CASE IsPresence(down[1]) /\ boot = "main"
    <3>1. /\ online' = Fold(online, down[1]) /\ dots'.shown = Fold(dots.shown, down[1])
          /\ dots'.raced <=> dots.raced \/ dots.asked = "read"
      BY <1>5, <1>7, <2>3
    <3>2. ASSUME ~dots'.raced
          PROVE  dots'.asked # "read" /\ (dots'.asked = "done" => dots'.shown = online')
      BY <1>8, <3>1, <3>2 DEF IInv, DotsOK
    <3> QED
      BY <3>2 DEF DotsOK
  <2> QED
    BY <2>1, <2>2, <2>3
<1>14. NoticesOK'
  BY <1>2 DEF IInv, NoticesOK
<1> QED
  BY <1>1, <1>6, <1>9, <1>10, <1>12, <1>13, <1>14 DEF IInv

(* The connection is lost or closed.                                         *)
LEMMA LostStep ==
    ASSUME IInv, link' = "dead", up' = <<>>, down' = <<>>, ws' \in {"null", "set"},
           boot \notin {"start", "connecting"},
           boot \in {"login", "upload"} => ws' = "set",
           boot # "main" => ws' = ws /\ link # "none",
           UNCHANGED <<boot, items, waiters, reqs, got, relay, others, online, dots, pushes,
                       inbox, strays>>
    PROVE  IInv'
<1>1. Answered \in Nat /\ Len(items) \in Nat
  BY Counts DEF IInv
<1>2. Answered' = Answered
  BY DEF Answered
<1>3. QueueOK' /\ ArrivedOK'
  BY <1>2 DEF IInv, QueueOK, ArrivedOK
<1>4. DownOK'
  <2> DEFINE rank == [i \in 0..0 |-> Answered + Len(items)]
  <2>1. Len(down') = 0 /\ rank \in [0..Len(down') -> Nat]
    BY <1>1
  <2>2. rank[0] = Answered' + Len(items')
    BY <1>2
  <2> HIDE DEF rank
  <2>3. \A i \in 1..Len(down') : FALSE
    BY <2>1
  <2> QED
    BY <2>1, <2>2, <2>3 DEF DownOK
<1>5. Typed'
  BY DEF IInv, Typed
<1>6. UpOK' /\ MailOK' /\ PresenceOK'
  BY DEF UpOK, MailOK, PresenceOK
<1>7. LinkOK' /\ DotsOK' /\ NoticesOK'
  BY DEF IInv, LinkOK, DotsOK, NoticesOK
<1> QED
  BY <1>3, <1>4, <1>5, <1>6, <1>7 DEF IInv

LEMMA OpenStep ==
    ASSUME IInv, Open
    PROVE  IInv'
<1>1. /\ boot = "connecting" /\ boot' = "login" /\ ws' = "set" /\ link' = "up"
      /\ UNCHANGED <<up, down, items, waiters, reqs, got, relay, done, others, online, dots,
                     pushes, inbox, strays>>
  BY DEF Open
<1>2. /\ link = "none" /\ up = <<>> /\ down = <<>> /\ reqs = <<>> /\ items = <<>>
      /\ strays = 0 /\ inbox.pushed = {} /\ relay.step = "idle" /\ ~relay.told
      /\ dots.asked = "not"
  BY <1>1 DEF IInv, LinkOK
<1>3. Answered' = Answered /\ Answered = 0 /\ Len(items) = 0
  <2>1. Answered \in Nat /\ Answered <= Len(got) /\ Len(got) = Len(reqs) /\ Len(reqs) = 0
    BY <1>2, Counts DEF IInv, QueueOK
  <2> QED
    BY <1>1, <1>2, <2>1 DEF Answered
<1>4. Served' = 0 /\ Len(up') = 0 /\ Len(reqs') = 0 /\ Len(down') = 0
  BY <1>1, <1>2 DEF Served
<1>5. QueueOK' /\ ArrivedOK'
  BY <1>1, <1>3 DEF IInv, QueueOK, ArrivedOK
<1>6. UpOK'
  BY <1>1, <1>2, <1>4 DEF UpOK
<1>7. DownOK'
  <2> DEFINE rank == [i \in 0..0 |-> 0]
  <2>1. rank \in [0..Len(down') -> Nat] /\ rank[0] = 0
    BY <1>4
  <2> HIDE DEF rank
  <2>2. \A i \in 1..Len(down') : FALSE
    BY <1>4
  <2>3. rank[0] = Answered' + Len(items') /\ rank[Len(down')] = Served' + strays'
    BY <1>1, <1>2, <1>3, <1>4, <2>1
  <2> QED
    BY <2>1, <2>2, <2>3 DEF DownOK
<1>8. Typed'
  BY <1>1 DEF IInv, Typed
<1>9. MailOK' /\ PresenceOK' /\ LinkOK' /\ DotsOK' /\ NoticesOK'
  BY <1>1, <1>2 DEF IInv, MailOK, PresenceOK, LinkOK, DotsOK, NoticesOK
<1> QED
  BY <1>5, <1>6, <1>7, <1>8, <1>9 DEF IInv

(* The login flow and the main window go on without the queue.               *)
LEMMA FlowStep ==
    ASSUME IInv, Attach \/ OpenFails \/ Enter \/ BootFails
    PROVE  IInv'
<1>1. UNCHANGED <<ws, link, up, down, items, waiters, reqs, got, relay, others, online,
                  pushes, inbox, strays>>
  BY DEF Attach, OpenFails, Enter, BootFails, Goes
<1>2. QueueOK' /\ ArrivedOK' /\ UpOK' /\ DownOK' /\ NoticesOK' /\ PresenceOK'
  BY <1>1, Elsewhere
<1>3. MailOK'
  BY <1>1 DEF IInv, MailOK
<1>4. dots \in [shown : SUBSET Peers, asked : {"not", "asked", "read", "done"},
                answer : SUBSET Peers, raced : BOOLEAN]
  BY DEF IInv, Typed
<1>5. CASE Attach
  <2>1. boot = "start" /\ boot' = "connecting" /\ dots' = dots
    BY <1>5 DEF Attach, Goes
  <2>2. Typed' /\ DotsOK'
    BY <1>1, <2>1 DEF IInv, Typed, DotsOK
  <2>3. LinkOK'
    BY <1>1, <2>1 DEF IInv, LinkOK
  <2> QED
    BY <1>2, <1>3, <2>2, <2>3 DEF IInv
<1>6. CASE OpenFails
  <2>1. boot = "connecting" /\ boot' = "failed" /\ dots' = dots
    BY <1>6 DEF OpenFails, Goes
  <2>2. Typed' /\ DotsOK'
    BY <1>1, <2>1 DEF IInv, Typed, DotsOK
  <2>3. LinkOK'
    BY <1>1, <2>1 DEF IInv, LinkOK
  <2> QED
    BY <1>2, <1>3, <2>2, <2>3 DEF IInv
<1>7. CASE Enter
  <2>1. boot = "upload" /\ boot' = "main" /\ dots' = [dots EXCEPT !.asked = "asked"]
    BY <1>7 DEF Enter, Goes
  <2>2. Typed'
    BY <1>1, <2>1 DEF IInv, Typed
  <2>3. DotsOK'
    BY <1>4, <2>1 DEF DotsOK
  <2>4. LinkOK'
    BY <1>1, <2>1 DEF IInv, LinkOK
  <2> QED
    BY <1>2, <1>3, <2>2, <2>3, <2>4 DEF IInv
<1>8. CASE BootFails
  <2>1. boot \in {"login", "upload"} /\ boot' = "failed" /\ dots' = dots
    BY <1>8 DEF BootFails, Goes
  <2>2. Typed' /\ DotsOK'
    BY <1>1, <2>1 DEF IInv, Typed, DotsOK
  <2>3. LinkOK'
    BY <1>1, <2>1 DEF IInv, LinkOK
  <2> QED
    BY <1>2, <1>3, <2>2, <2>3 DEF IInv
<1> QED
  BY <1>5, <1>6, <1>7, <1>8

LEMMA WindowStep ==
    ASSUME IInv, ReadOnline \/ ShowOnline \/ \E i \in 1..MaxPushes : Report(i)
    PROVE  IInv'
<1>1. UNCHANGED <<boot, ws, link, up, down, items, waiters, reqs, got, relay, others, online,
                  pushes, strays>>
  BY DEF ReadOnline, ShowOnline, Report
<1>2. QueueOK' /\ ArrivedOK' /\ UpOK' /\ DownOK' /\ NoticesOK' /\ PresenceOK'
  BY <1>1, Elsewhere
<1>3. /\ dots \in [shown : SUBSET Peers, asked : {"not", "asked", "read", "done"},
                   answer : SUBSET Peers, raced : BOOLEAN]
      /\ inbox \in [pushed : SUBSET Nat, handling : SUBSET Nat, reported : SUBSET Nat]
  BY DEF IInv, Typed
<1>4. CASE ReadOnline
  <2>1. /\ dots.asked = "asked" /\ UNCHANGED inbox
        /\ dots' = [dots EXCEPT !.asked = "read", !.answer = online]
    BY <1>4 DEF ReadOnline
  <2>2. Typed'
    BY <1>1, <2>1 DEF IInv, Typed
  <2>3. DotsOK'
    BY <1>1, <1>3, <2>1 DEF DotsOK
  <2>4. LinkOK' /\ MailOK'
    BY <1>1, <2>1 DEF IInv, LinkOK, MailOK
  <2> QED
    BY <1>2, <2>2, <2>3, <2>4 DEF IInv
<1>5. CASE ShowOnline
  <2>1. /\ dots.asked = "read" /\ UNCHANGED inbox
        /\ dots' = [dots EXCEPT !.asked = "done", !.shown = dots.answer, !.answer = {}]
    BY <1>5 DEF ShowOnline
  <2>2. Typed'
    BY <1>1, <2>1 DEF IInv, Typed
  <2>3. DotsOK'
    BY <1>1, <1>3, <2>1 DEF IInv, DotsOK
  <2>4. LinkOK' /\ MailOK'
    BY <1>1, <2>1 DEF IInv, LinkOK, MailOK
  <2> QED
    BY <1>2, <2>2, <2>3, <2>4 DEF IInv
<1>6. ASSUME NEW i \in 1..MaxPushes, Report(i)
      PROVE  IInv'
  <2>1. /\ dots' = dots /\ i \in inbox.handling
        /\ inbox' = [inbox EXCEPT !.handling = @ \ {i}, !.reported = @ \cup {i}]
    BY <1>6 DEF Report
  <2>2. /\ inbox' \in [pushed : SUBSET Nat, handling : SUBSET Nat, reported : SUBSET Nat]
        /\ inbox'.pushed = inbox.pushed
        /\ inbox.handling \cup inbox.reported
              \subseteq inbox'.handling \cup inbox'.reported
    BY <1>3, <2>1
  <2>3. Typed'
    BY <1>1, <2>1, <2>2 DEF IInv, Typed
  <2>4. DotsOK' /\ LinkOK'
    BY <1>1, <2>1, <2>2 DEF IInv, DotsOK, LinkOK
  <2>5. MailOK'
    BY <1>1, <2>2 DEF IInv, MailOK
  <2> QED
    BY <1>2, <2>3, <2>4, <2>5 DEF IInv
<1> QED
  BY <1>4, <1>5, <1>6

LEMMA InitIInv ==
    ASSUME Init
    PROVE  IInv
<1>1. Typed
  BY DEF Init, Typed
<1>2. /\ Len(got) = 0 /\ Len(waiters) = 0 /\ Len(reqs) = 0 /\ Len(items) = 0
      /\ Len(down) = 0 /\ Answered = 0
  BY DEF Init, Answered
<1>3. QueueOK /\ ArrivedOK
  BY <1>2 DEF Init, QueueOK, ArrivedOK
<1>4. DownOK
  <2> DEFINE rank == [i \in 0..0 |-> 0]
  <2>1. rank \in [0..Len(down) -> Nat] /\ rank[0] = Answered + Len(items)
    BY <1>2
  <2> HIDE DEF rank
  <2>2. \A i \in 1..Len(down) : FALSE
    BY <1>2
  <2>3. link # "up"
    BY DEF Init
  <2> QED
    BY <2>1, <2>2, <2>3 DEF DownOK
<1>5. UpOK /\ LinkOK /\ MailOK /\ NoticesOK /\ PresenceOK /\ DotsOK
  BY DEF Init, UpOK, LinkOK, MailOK, NoticesOK, PresenceOK, DotsOK
<1> QED
  BY <1>1, <1>3, <1>4, <1>5 DEF IInv

LEMMA NextIInv ==
    ASSUME IInv, [Next]_vars
    PROVE  IInv'
<1>1. CASE Attach \/ OpenFails \/ Enter \/ BootFails
  BY <1>1, FlowStep
<1>2. CASE Open
  BY <1>2, OpenStep
<1>3. CASE Login
  BY <1>3, RequestStep DEF Login, Kinds
<1>4. CASE Publish
  BY <1>4, RequestStep DEF Publish, Kinds
<1>5. ASSUME NEW t \in Callers, NEW kind \in {"fetch", "send"}, Call(t, kind)
      PROVE  IInv'
  BY <1>5, RequestStep DEF Call, Kinds
<1>6. CASE Close
  <2>1. ws' \in {"null", "set"} /\ boot = "main"
    BY <1>6 DEF Close
  <2> QED
    BY <1>6, <2>1, LostStep DEF Close
<1>7. CASE Die
  <2>1. /\ ws' \in {"null", "set"} /\ boot \notin {"start", "connecting"}
        /\ boot \in {"login", "upload"} => ws' = "set"
        /\ ws' = ws /\ link # "none"
    BY <1>7 DEF Die, IInv, Typed, LinkOK
  <2> QED
    BY <1>7, <2>1, LostStep DEF Die
<1>8. CASE Arrive
  BY <1>8, ArriveStep
<1>9. CASE ReadOnline \/ ShowOnline \/ \E i \in 1..MaxPushes : Report(i)
  BY <1>9, WindowStep
<1>10. CASE Answering
  BY <1>10, ServeStep, SnapshotStep, FinishStep, StrayStep DEF Answering
<1>11. CASE PushMail
  BY <1>11, PushMailStep
<1>12. ASSUME NEW v \in Peers, PeerJoins(v) \/ PeerLeaves(v)
       PROVE  IInv'
  BY <1>12, TurnsStep DEF PeerJoins, PeerLeaves
<1>13. ASSUME NEW n \in notices, BeginBroadcast(n) \/ Tell(n) \/ CutShort(n)
       PROVE  IInv'
  BY <1>13, NoticeStep, TellStep
<1>14. CASE Replaced
  BY <1>14, ReplacedStep
<1>15. CASE UNCHANGED vars
  <2>1. QueueOK' /\ ArrivedOK' /\ UpOK' /\ DownOK' /\ NoticesOK' /\ PresenceOK'
    BY <1>15, Elsewhere DEF vars
  <2>2. Typed'
    BY <1>15 DEF vars, IInv, Typed
  <2>3. LinkOK' /\ MailOK' /\ DotsOK'
    BY <1>15 DEF vars, IInv, LinkOK, MailOK, DotsOK
  <2> QED
    BY <2>1, <2>2, <2>3 DEF IInv
<1> QED
  BY <1>1, <1>2, <1>3, <1>4, <1>5, <1>6, <1>7, <1>8, <1>9, <1>10, <1>11, <1>12, <1>13,
     <1>14, <1>15
  DEF Next

-----------------------------------------------------------------------------

(* The replies that were matched to requests, the ones in the queue and the  *)
(* ones under way are numbered without a gap, in every reachable state       *)
(* (network.ts:29-49, 100-108, 151-179; server.py's _dispatch).              *)
THEOREM NetworkInvariant == Spec => []IInv
<1>1. Init => IInv
  BY InitIInv
<1>2. IInv /\ [Next]_vars => IInv'
  BY NextIInv
<1> QED
  BY <1>1, <1>2, PTL DEF Spec

(* Nobody waits for a frame that is there, and whoever waits has got nothing *)
(* and waits in the order of the requests (network.ts:33-48), however many   *)
(* operations ask at once.                                                   *)
THEOREM NetworkTypeCorrect == Spec => []TypeOK
<1>1. ASSUME IInv
      PROVE  TypeOK
  <2>1. /\ Answered \in Nat /\ Len(got) \in Nat /\ Len(waiters) \in Nat
        /\ Len(got) = Answered + Len(waiters) /\ Len(got) = Len(reqs)
    BY <1>1, Counts DEF IInv, QueueOK, Answered
  <2>2. /\ DOMAIN waiters = 1..Len(waiters) /\ DOMAIN reqs = 1..Len(got)
    BY <1>1, <2>1 DEF IInv, Typed
  <2>3. \A i \in 1..Len(waiters) : waiters[i] = Answered + i
    BY <1>1 DEF IInv, QueueOK
  <2>4. \A n \in 1..Len(got) : got[n] = NoFrame <=> n > Answered
    BY <1>1 DEF IInv, QueueOK
  <2>5. \A i \in 1..Len(waiters) : waiters[i] \in 1..Len(got) /\ got[waiters[i]] = NoFrame
    BY <2>1, <2>3, <2>4
  <2>6. \A i, j \in 1..Len(waiters) : i < j => waiters[i] < waiters[j]
    BY <2>1, <2>3
  <2>7. ASSUME NEW n \in 1..Len(got), got[n] = NoFrame
        PROVE  n \in Frames(waiters)
    <3>1. n - Answered \in 1..Len(waiters) /\ waiters[n - Answered] = n
      BY <2>1, <2>3, <2>4, <2>7
    <3> QED
      BY <2>2, <3>1 DEF Frames
  <2>8. Frames(waiters) = {n \in DOMAIN reqs : got[n] = NoFrame}
    BY <2>2, <2>5, <2>7 DEF Frames
  <2>9. \A n \in DOMAIN reqs : reqs[n].kind \in Kinds
    <3>1. reqs \in Seq([by : Callers \cup {Boot}, kind : Kinds])
      BY <1>1 DEF IInv, Typed
    <3>2. \A n \in 1..Len(reqs) : reqs[n] \in [by : Callers \cup {Boot}, kind : Kinds]
      BY <3>1, ElementOfSeq
    <3> QED
      BY <2>1, <2>2, <3>2
  <2> QED
    BY <1>1, <2>2, <2>5, <2>6, <2>8, <2>9 DEF IInv, QueueOK, TypeOK
<1> QED
  BY <1>1, NetworkInvariant, PTL

(* A request gets its own reply or that of an earlier one, at most as many   *)
(* requests back as there were stray errors (network.ts:5-13), whoever else  *)
(* was asking at the time: without stray errors every reply is the right     *)
(* one.                                                                      *)
THEOREM NetworkAnswersLagByStrays == Spec => []AnswersLagByStrays
<1>1. ASSUME IInv
      PROVE  AnswersLagByStrays
  <2>1. DOMAIN got = 1..Len(got) /\ Answered \in Nat
    BY <1>1, Counts DEF IInv, Typed
  <2>2. ASSUME NEW n \in DOMAIN got, got[n] # NoFrame
        PROVE  n \in 1..Answered
    BY <1>1, <2>1, <2>2 DEF IInv, QueueOK
  <2> QED
    BY <1>1, <2>2 DEF IInv, ArrivedOK, AnswersLagByStrays
<1> QED
  BY <1>1, NetworkInvariant, PTL

(* Every message pushed is under way, in the callback or reported, unless it *)
(* got lost with the connection: the callbacks are set before the first      *)
(* frame can come (webApi.ts:83-85).                                         *)
THEOREM NetworkNothingPushedIsDropped == Spec => []NothingPushedIsDropped
<1>1. ASSUME IInv
      PROVE  NothingPushedIsDropped
  <2>1. DOMAIN down = 1..Len(down)
    BY <1>1 DEF IInv, Typed
  <2> QED
    BY <1>1, <2>1 DEF IInv, MailOK, NothingPushedIsDropped, Frames
<1> QED
  BY <1>1, NetworkInvariant, PTL

(* A peer's dot is right when no frame about him is under way or still to be *)
(* written here, unless his comings and goings crossed or one of their       *)
(* notices was cut short, or this user logged in elsewhere: between the      *)
(* snapshot of a login and the broadcasts of the other handlers no change is *)
(* lost (server.py:58-62, 100-114).  The main window shows what the backend  *)
(* has unless an event came between the reading and the answer of its first  *)
(* request (webApi.ts:68-76, MainWindow.tsx:46-64).                          *)
THEOREM NetworkDotsFollowTheRelay == Spec => []DotsFollowTheRelay
<1>1. ASSUME IInv
      PROVE  DotsFollowTheRelay
  <2> SUFFICES ASSUME link = "up", relay.told, relay.connected = "yes",
                      NEW v \in Peers \ mistold, \A n \in notices : n.user # v,
                      \A f \in Frames(down) : ~About(f, v)
               PROVE  /\ v \in online <=> v \in peers
                      /\ dots.asked = "done" /\ ~dots.raced => (v \in dots.shown <=> v \in peers)
    BY DEF DotsFollowTheRelay
  <2>1. \A i \in 1..Len(down) : ~About(down[i], v)
    <3>1. DOMAIN down = 1..Len(down)
      BY <1>1 DEF IInv, Typed
    <3> QED
      BY <3>1 DEF Frames
  <2>2. v \in online <=> v \in peers
    BY <1>1, <2>1 DEF IInv, PresenceOK, Noticed
  <2> QED
    BY <1>1, <2>2 DEF IInv, DotsOK
<1> QED
  BY <1>1, NetworkInvariant, PTL
=============================================================================
