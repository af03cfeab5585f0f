---------------------------- MODULE RelayProofs ----------------------------
(***************************************************************************)
(* Theorems about Relay, for every set of users and connections and every  *)
(* bound on the mailbox and on the restarts.                               *)
(***************************************************************************)
EXTENDS Relay, SequenceTheorems, TLAPS

(* What the suspended handlers rely on: a handler past login has a user, one *)
(* that will look a recipient up knows it, and a push loop writes to a       *)
(* connection of the user whose rows it holds.                               *)
HandlersReady ==
    \A c \in Conns :
        /\ pc[c] \in {"snapshot", "deliver", "delivering", "announcing", "farewell"}
              => user[c] # None
        /\ pc[c] = "lookup" => job[c].to # None
        /\ pc[c] \in Loops => /\ job[c].to # None
                              /\ job[c].target # None
                              /\ user[job[c].target] = job[c].to

(* The registered connection of a user is a connection of that user.         *)
RegisteredOwn ==
    \A u \in Users : connected[u] # None => user[connected[u]] = u

(* A push loop holds rows of its recipient only, it has written those it has *)
(* no longer left, and every older row of that recipient was either fetched  *)
(* with them or delivered by then.                                           *)
LoopsComplete ==
    \A c \in Conns : pc[c] \in Loops =>
        /\ job[c].left \subseteq job[c].all
        /\ \A i \in job[c].all : mail[i].to = job[c].to
        /\ job[c].all \ job[c].left \subseteq pushed[job[c].target]
        /\ \A j \in job[c].all, i \in Ids :
              i < j /\ mail[i].to = job[c].to => i \in job[c].all \cup delivered

(* The part of the invariant that type correctness needs.                    *)
TypeInv == TypeOK /\ HandlersReady /\ RegisteredOwn

-----------------------------------------------------------------------------

(* Types of the values the helpers compute.                                  *)
LEMMA OthersType ==
    ASSUME NEW dict \in [Users -> Conns \cup {None}], NEW u
    PROVE  Others(dict, u) \subseteq Conns
BY DEF Others

LEMMA InitTypeInv == Init => TypeInv
BY RelayAssumption
DEF Init, TypeInv, TypeOK, HandlersReady, RegisteredOwn, JobType, NoJob, Ids, Loops, Points

(* Leaving a push loop keeps the types; only a login goes on to announce.    *)
LEMMA AfterLoopType ==
    ASSUME TypeOK, NEW c \in Conns, NEW isLogin \in BOOLEAN, AfterLoop(c, isLogin)
    PROVE  /\ pc' \in [Conns -> Points]
           /\ job' = [job EXCEPT ![c] = NoJob]
           /\ job' \in [Conns -> JobType]
           /\ notify' \in [Conns -> SUBSET Conns]
           /\ \A d \in Conns \ {c} : pc'[d] = pc[d]
           /\ pc'[c] \in {"idle", "announcing"}
           /\ pc'[c] = "announcing" => isLogin
<1>1. NoJob \in JobType
  BY DEF NoJob, JobType
<1>2. Others(connected, user[c]) \subseteq Conns
  BY OthersType DEF TypeOK
<1> QED
  BY <1>1, <1>2 DEF AfterLoop, TypeOK, Points, Loops

(* Beginning a push loop keeps the types, and the loop writes to target.     *)
LEMMA BeginLoopType ==
    ASSUME TypeOK, NEW c \in Conns, NEW isLogin \in BOOLEAN,
           NEW target \in Conns, NEW u \in Users, BeginLoop(c, target, u, isLogin)
    PROVE  /\ pc' \in [Conns -> Points]
           /\ job' \in [Conns -> JobType]
           /\ notify' \in [Conns -> SUBSET Conns]
           /\ \A d \in Conns \ {c} : pc'[d] = pc[d] /\ job'[d] = job[d]
           /\ \/ /\ pc'[c] \in {"idle", "announcing"}
                 /\ pc'[c] = "announcing" => isLogin
              \/ /\ pc'[c] = IF isLogin THEN "delivering" ELSE "pushing"
                 /\ job'[c] = [to |-> u, target |-> target,
                               left |-> Pending(u), all |-> Pending(u)]
<1>1. CASE Pending(u) = {}
  <2>1. AfterLoop(c, isLogin)
    BY <1>1 DEF BeginLoop
  <2>2. job' = [job EXCEPT ![c] = NoJob]
    BY <2>1, AfterLoopType
  <2> QED
    <3>1. job \in [Conns -> JobType]
      BY DEF TypeOK
    <3> HIDE DEF TypeOK
    <3> QED
      BY <2>1, <3>1, AfterLoopType
<1>2. CASE Pending(u) # {}
  <2>1. Pending(u) \subseteq Ids
    BY DEF Pending
  <2>2. [to |-> u, target |-> target, left |-> Pending(u), all |-> Pending(u)] \in JobType
    BY <2>1 DEF JobType
  <2> QED
    BY <1>2, <2>2 DEF BeginLoop, TypeOK, Points, Loops
<1> QED
  BY <1>1, <1>2

(* Every step keeps the types and what the suspended handlers rely on.       *)
LEMMA StepTypeInv == TypeInv /\ [Next]_vars => TypeInv'
<1> SUFFICES ASSUME TypeInv, [Next]_vars
             PROVE  TypeInv'
  OBVIOUS
<1> USE RelayAssumption DEF TypeInv
<1>1. ASSUME NEW c \in Conns, Connect(c)
      PROVE  TypeInv'
  BY <1>1 DEF Connect, TypeOK, HandlersReady, RegisteredOwn, Points, Loops, Ids, JobType
<1>2. ASSUME NEW c \in Conns, HangUp(c)
      PROVE  TypeInv'
  BY <1>2 DEF HangUp, TypeOK, HandlersReady, RegisteredOwn, Points, Loops, Ids, JobType
<1>3. ASSUME NEW c \in Conns, Refuse(c)
      PROVE  TypeInv'
  BY <1>3 DEF Refuse, TypeOK, HandlersReady, RegisteredOwn, Points, Loops, Ids, JobType
<1>4. ASSUME NEW c \in Conns, NEW u \in Users, Login(c, u)
      PROVE  TypeInv'
  BY <1>4 DEF Login, Answered, TypeOK, HandlersReady, RegisteredOwn, Points, Loops, Ids, JobType
<1>5. ASSUME NEW c \in Conns, NEW u \in Users, SendMessage(c, u)
      PROVE  TypeInv'
  <2>1. TypeOK'
    <3>1. mail' \in Seq([to : Users, via : Conns])
      BY <1>5 DEF SendMessage, TypeOK
    <3>2. Ids \subseteq Ids'
      BY <1>5 DEF SendMessage, TypeOK, Ids
    <3>3. job' \in [Conns -> JobType']
      BY <1>5, <3>2 DEF SendMessage, TypeOK, JobType, NoJob
    <3> QED
      BY <1>5, <3>1, <3>2, <3>3 DEF SendMessage, Answered, TypeOK, Points, Loops
  <2>2. HandlersReady'
    BY <1>5 DEF SendMessage, Answered, NoJob, HandlersReady, TypeOK, Points, Loops, Ids, JobType
  <2> QED
    BY <1>5, <2>1, <2>2 DEF SendMessage, RegisteredOwn
<1>6. ASSUME NEW c \in Conns, Snapshot(c)
      PROVE  TypeInv'
  BY <1>6 DEF Snapshot, Answered, TypeOK, HandlersReady, RegisteredOwn, Points, Loops, Ids, JobType
<1>7. ASSUME NEW c \in Conns, Deliver(c)
      PROVE  TypeInv'
  <2>1. user[c] \in Users
    BY <1>7 DEF Deliver, HandlersReady, TypeOK
  <2>2. BeginLoop(c, c, user[c], TRUE)
    BY <1>7 DEF Deliver
  <2>3. TypeOK'
    BY <1>7, <2>1, <2>2, BeginLoopType DEF Deliver, TypeOK, Ids, JobType
  <2>4. HandlersReady'
    <3>1. /\ \A d \in Conns \ {c} : pc'[d] = pc[d] /\ job'[d] = job[d]
          /\ \/ pc'[c] \in {"idle", "announcing"}
             \/ /\ pc'[c] = "delivering"
                /\ job'[c].to = user[c] /\ job'[c].target = c
          /\ user' = user
      <4>1. /\ \A d \in Conns \ {c} : pc'[d] = pc[d] /\ job'[d] = job[d]
            /\ \/ pc'[c] \in {"idle", "announcing"}
               \/ /\ pc'[c] = "delivering"
                  /\ job'[c] = [to |-> user[c], target |-> c,
                                left |-> Pending(user[c]), all |-> Pending(user[c])]
        BY <2>1, <2>2, BeginLoopType
      <4> QED
        BY <1>7, <4>1 DEF Deliver
    <3>2. /\ user[c] # None
          /\ c # None
      BY <2>1
    <3> QED
      BY <3>1, <3>2 DEF HandlersReady, Loops
  <2> QED
    BY <1>7, <2>3, <2>4 DEF Deliver, RegisteredOwn
<1>8. ASSUME NEW c \in Conns, Lookup(c)
      PROVE  TypeInv'
  <2>1. job[c].to \in Users
    BY <1>8 DEF Lookup, HandlersReady, TypeOK, JobType
  <2>2. CASE connected[job[c].to] = None
    <3>1. AfterLoop(c, FALSE)
      BY <1>8, <2>2 DEF Lookup
    <3>2. TypeOK'
      BY <1>8, <3>1, AfterLoopType DEF Lookup, TypeOK, Ids, JobType
    <3>3. HandlersReady'
      BY <1>8, <3>1, AfterLoopType DEF Lookup, HandlersReady, Loops, TypeOK
    <3> QED
      BY <1>8, <3>2, <3>3 DEF Lookup, RegisteredOwn
  <2>3. CASE connected[job[c].to] # None
    <3>1. /\ connected[job[c].to] \in Conns
          /\ user[connected[job[c].to]] = job[c].to
          /\ BeginLoop(c, connected[job[c].to], job[c].to, FALSE)
      BY <1>8, <2>1, <2>3 DEF Lookup, TypeOK, RegisteredOwn
    <3>2. TypeOK'
      BY <1>8, <2>1, <3>1, BeginLoopType DEF Lookup, TypeOK, Ids, JobType
    <3>3. HandlersReady'
      <4>1. /\ \A d \in Conns \ {c} : pc'[d] = pc[d] /\ job'[d] = job[d]
            /\ \/ pc'[c] = "idle"
               \/ /\ pc'[c] = "pushing"
                  /\ job'[c].to = job[c].to
                  /\ job'[c].target = connected[job[c].to]
            /\ user' = user
        <5>1. /\ \A d \in Conns \ {c} : pc'[d] = pc[d] /\ job'[d] = job[d]
              /\ \/ pc'[c] = "idle"
                 \/ /\ pc'[c] = "pushing"
                    /\ job'[c] = [to |-> job[c].to, target |-> connected[job[c].to],
                                  left |-> Pending(job[c].to),
                                  all |-> Pending(job[c].to)]
          BY <2>1, <3>1, BeginLoopType
        <5> QED
          BY <1>8, <5>1 DEF Lookup
      <4> QED
        BY <2>1, <2>3, <3>1, <4>1 DEF HandlersReady, Loops
    <3> QED
      BY <1>8, <3>2, <3>3 DEF Lookup, RegisteredOwn
  <2> QED
    BY <2>2, <2>3
<1>9. ASSUME NEW c \in Conns, PushRow(c)
      PROVE  TypeInv'
  <2>1. PICK row \in job[c].left :
          /\ pushed' = [pushed EXCEPT ![job[c].target] = @ \cup {row}]
          /\ job' = [job EXCEPT ![c].left = @ \ {row}]
          /\ UNCHANGED <<link, user, connected, mail, delivered, pc, notify, view, crashes>>
    BY <1>9 DEF PushRow
  <2>2. job' \in [Conns -> JobType]
    <3>1. job[c] \in JobType
      BY DEF TypeOK
    <3>2. [job[c] EXCEPT !.left = @ \ {row}] \in JobType
      BY <3>1 DEF JobType
    <3> QED
      BY <2>1, <3>2 DEF TypeOK
  <2>3. pushed' \in [Conns -> SUBSET Ids]
    BY <2>1 DEF TypeOK, JobType
  <2>4. TypeOK'
    BY <2>1, <2>2, <2>3 DEF TypeOK, Ids, JobType
  <2>5. HandlersReady'
    BY <2>1 DEF HandlersReady, TypeOK, JobType
  <2> QED
    BY <2>1, <2>4, <2>5 DEF RegisteredOwn
<1>10. ASSUME NEW c \in Conns, PushFails(c)
      PROVE  TypeInv'
  BY <1>10 DEF PushFails, NoJob, TypeOK, HandlersReady, RegisteredOwn, Points, Loops, Ids, JobType
<1>11. ASSUME NEW c \in Conns, MarkDelivered(c)
      PROVE  TypeInv'
  <2>1. AfterLoop(c, pc[c] = "delivering")
    BY <1>11 DEF MarkDelivered
  <2>2. job[c].all \subseteq Ids
    BY DEF TypeOK, JobType
  <2>3. TypeOK'
    BY <1>11, <2>1, <2>2, AfterLoopType DEF MarkDelivered, TypeOK, Ids, JobType
  <2>4. HandlersReady'
    BY <1>11, <2>1, AfterLoopType DEF MarkDelivered, HandlersReady, Loops, TypeOK
  <2> QED
    BY <1>11, <2>3, <2>4 DEF MarkDelivered, RegisteredOwn
<1>12. ASSUME NEW c \in Conns, Announce(c)
      PROVE  TypeInv'
  <2>1. user[c] \in Users
    BY <1>12 DEF Announce, HandlersReady, TypeOK
  <2>2. /\ view' \in [Conns -> SUBSET Users]
        /\ notify' \in [Conns -> SUBSET Conns]
        /\ pc' \in [Conns -> Points]
    <3>1. PICK t \in notify[c] :
            IF link[t] = "open"
              THEN /\ view' = [view EXCEPT ![t] = @ \cup {user[c]}]
                   /\ notify' = [notify EXCEPT ![c] = @ \ {t}]
                   /\ pc' = [pc EXCEPT ![c] = IF notify[c] = {t} THEN "idle" ELSE @]
              ELSE /\ notify' = [notify EXCEPT ![c] = {}]
                   /\ pc' = [pc EXCEPT ![c] = "error"]
                   /\ UNCHANGED view
      BY <1>12 DEF Announce
    <3>2. t \in Conns
      BY DEF TypeOK
    <3>3. /\ view \in [Conns -> SUBSET Users]
          /\ notify \in [Conns -> SUBSET Conns]
          /\ pc \in [Conns -> Points]
          /\ {"idle", "error"} \subseteq Points
      BY DEF TypeOK, Points
    <3>4. CASE link[t] = "open"
      BY <2>1, <3>1, <3>2, <3>3, <3>4
    <3>5. CASE link[t] # "open"
      BY <3>1, <3>3, <3>5
    <3> QED
      BY <3>4, <3>5
  <2>3. TypeOK'
    BY <1>12, <2>2 DEF Announce, TypeOK, Ids, JobType
  <2>4. HandlersReady'
    BY <1>12 DEF Announce, HandlersReady, TypeOK, Loops
  <2> QED
    BY <1>12, <2>3, <2>4 DEF Announce, RegisteredOwn
<1>13. ASSUME NEW c \in Conns, ReportError(c)
      PROVE  TypeInv'
  BY <1>13 DEF ReportError, Answered, TypeOK, HandlersReady, RegisteredOwn, Points, Loops, Ids, JobType
<1>14. ASSUME NEW c \in Conns, End(c)
      PROVE  TypeInv'
  BY <1>14, OthersType DEF End, TypeOK, HandlersReady, RegisteredOwn, Points, Loops, Ids, JobType
<1>15. ASSUME NEW c \in Conns, Farewell(c)
      PROVE  TypeInv'
  <2>1. /\ view' \in [Conns -> SUBSET Users]
        /\ notify' \in [Conns -> SUBSET Conns]
        /\ pc' \in [Conns -> Points]
    <3>1. PICK t \in notify[c] :
            IF link[t] = "open"
              THEN /\ view' = [view EXCEPT ![t] = @ \ {user[c]}]
                   /\ notify' = [notify EXCEPT ![c] = @ \ {t}]
                   /\ pc' = [pc EXCEPT ![c] = IF notify[c] = {t} THEN "gone" ELSE @]
              ELSE /\ notify' = [notify EXCEPT ![c] = {}]
                   /\ pc' = [pc EXCEPT ![c] = "gone"]
                   /\ UNCHANGED view
      BY <1>15 DEF Farewell
    <3>2. t \in Conns
      BY DEF TypeOK
    <3>3. /\ view \in [Conns -> SUBSET Users]
          /\ notify \in [Conns -> SUBSET Conns]
          /\ pc \in [Conns -> Points]
          /\ "gone" \in Points
      BY DEF TypeOK, Points
    <3>4. CASE link[t] = "open"
      BY <3>1, <3>2, <3>3, <3>4
    <3>5. CASE link[t] # "open"
      BY <3>1, <3>3, <3>5
    <3> QED
      BY <3>4, <3>5
  <2>2. TypeOK'
    BY <1>15, <2>1 DEF Farewell, TypeOK, Ids, JobType
  <2>3. HandlersReady'
    BY <1>15 DEF Farewell, HandlersReady, TypeOK, Loops
  <2> QED
    BY <1>15, <2>2, <2>3 DEF Farewell, RegisteredOwn
<1>16. CASE Crash
  BY <1>16 DEF Crash, NoJob, TypeOK, HandlersReady, RegisteredOwn, Points, Loops, Ids, JobType
<1>17. CASE UNCHANGED vars
  BY <1>17 DEF vars, TypeOK, HandlersReady, RegisteredOwn, Points, Loops, Ids, JobType
<1> QED
  BY <1>1, <1>2, <1>3, <1>4, <1>5, <1>6, <1>7, <1>8, <1>9, <1>10, <1>11, <1>12,
     <1>13, <1>14, <1>15, <1>16, <1>17
  DEF Next, Request, Handler

(* The state of the relay has the stated types: every broadcast goes to      *)
(* connections and every push loop holds rows that exist, whatever clients,  *)
(* network and restarts do (server.py:43-180).                               *)
THEOREM TypeCorrect == Spec => []TypeOK
<1>1. TypeInv => TypeOK
  BY DEF TypeInv
<1> QED
  BY <1>1, InitTypeInv, StepTypeInv, PTL DEF Spec

-----------------------------------------------------------------------------

(* What the order of deliveries rests on.                                    *)
OrderInv == LoopsComplete /\ OnlyToRecipient /\ DeliveredWasPushed /\ NoGaps

IInv == TypeInv /\ OrderInv

(* A step that neither touches the mailbox nor what was written, and starts  *)
(* no push loop, cannot disturb it.                                          *)
LEMMA OrderFrame ==
    ASSUME OrderInv,
           UNCHANGED <<user, mail, delivered, pushed>>,
           \A d \in Conns : pc'[d] \in Loops => pc[d] \in Loops /\ job'[d] = job[d]
    PROVE  OrderInv'
<1>1. LoopsComplete'
  BY DEF OrderInv, LoopsComplete, Ids
<1>2. OnlyToRecipient' /\ DeliveredWasPushed' /\ NoGaps'
  BY DEF OrderInv, OnlyToRecipient, DeliveredWasPushed, NoGaps, Ids
<1> QED
  BY <1>1, <1>2 DEF OrderInv

(* A loop that begins holds everything pending for its recipient.            *)
LEMMA OrderBegin ==
    ASSUME TypeInv, OrderInv, NEW c \in Conns, NEW isLogin \in BOOLEAN,
           NEW target \in Conns, NEW u \in Users, BeginLoop(c, target, u, isLogin),
           UNCHANGED <<user, mail, delivered, pushed>>
    PROVE  OrderInv'
<1>1. /\ \A d \in Conns \ {c} : pc'[d] = pc[d] /\ job'[d] = job[d]
      /\ \/ pc'[c] \in {"idle", "announcing"}
         \/ job'[c] = [to |-> u, target |-> target,
                       left |-> Pending(u), all |-> Pending(u)]
  BY BeginLoopType DEF TypeInv
<1>2. LoopsComplete'
  <2> SUFFICES ASSUME NEW d \in Conns, pc'[d] \in Loops
               PROVE  /\ job'[d].left \subseteq job'[d].all
                      /\ \A i \in job'[d].all : mail[i].to = job'[d].to
                      /\ job'[d].all \ job'[d].left \subseteq pushed[job'[d].target]
                      /\ \A j \in job'[d].all, i \in Ids :
                            i < j /\ mail[i].to = job'[d].to
                              => i \in job'[d].all \cup delivered
    BY DEF LoopsComplete, Ids
  <2>1. CASE d # c
    BY <1>1, <2>1 DEF OrderInv, LoopsComplete
  <2>2. CASE d = c
    <3>1. job'[d] = [to |-> u, target |-> target,
                     left |-> Pending(u), all |-> Pending(u)]
      BY <1>1, <2>2 DEF Loops
    <3> QED
      BY <3>1 DEF Pending
  <2> QED
    BY <2>1, <2>2
<1>3. OnlyToRecipient' /\ DeliveredWasPushed' /\ NoGaps'
  BY DEF OrderInv, OnlyToRecipient, DeliveredWasPushed, NoGaps, Ids
<1> QED
  BY <1>2, <1>3 DEF OrderInv

(* Logging in gives a connection its user; nothing was written on it before. *)
LEMMA OrderLogin ==
    ASSUME TypeInv, OrderInv, NEW c \in Conns, NEW u \in Users, Login(c, u)
    PROVE  OrderInv'
<1> USE RelayAssumption
<1>1. \A d \in Conns : pc'[d] \in Loops => pc[d] \in Loops /\ job'[d] = job[d]
  BY DEF Login, Answered, Loops, TypeInv, TypeOK
<1>2. LoopsComplete'
  BY <1>1 DEF Login, OrderInv, LoopsComplete, Ids
<1>3. pushed[c] = {}
  <2>1. \A i \in Ids : mail[i] \in [to : Users, via : Conns]
    <3> DEFINE Row == [to : Users, via : Conns]
    <3>1. mail \in Seq(Row)
      BY DEF TypeInv, TypeOK
    <3> HIDE DEF Row
    <3>2. \A i \in 1..Len(mail) : mail[i] \in Row
      BY <3>1
    <3>3. Ids = 1..Len(mail)
      BY <3>1 DEF Ids
    <3> QED
      BY <3>2, <3>3 DEF Row
  <2>2. \A i \in Ids : mail[i].to # None
    BY <2>1
  <2>3. user[c] = None /\ pushed[c] \subseteq Ids
    BY DEF Login, TypeInv, TypeOK
  <2> QED
    BY <2>2, <2>3 DEF OrderInv, OnlyToRecipient
<1>4. OnlyToRecipient'
  BY <1>3 DEF Login, OrderInv, OnlyToRecipient, TypeInv, TypeOK
<1>5. DeliveredWasPushed' /\ NoGaps'
  BY DEF Login, OrderInv, DeliveredWasPushed, NoGaps, Ids
<1> QED
  BY <1>2, <1>4, <1>5 DEF OrderInv

(* A stored row is younger than everything written or fetched so far.        *)
LEMMA OrderSend ==
    ASSUME TypeInv, OrderInv, NEW c \in Conns, NEW u \in Users, SendMessage(c, u)
    PROVE  OrderInv'
<1>1. \A d \in Conns : pc'[d] \in Loops => pc[d] \in Loops /\ job'[d] = job[d]
  BY DEF SendMessage, Answered, Loops, TypeInv, TypeOK
<1>2. /\ Ids = 1..Len(mail)
      /\ Ids' = 1..(Len(mail) + 1)
      /\ Len(mail) \in Nat
      /\ \A i \in Ids : mail'[i] = mail[i]
  BY DEF SendMessage, TypeInv, TypeOK, Ids
<1>3. \A d \in Conns : pushed[d] \subseteq Ids /\ job[d].all \subseteq Ids
  BY DEF TypeInv, TypeOK, JobType
<1>4. LoopsComplete'
  <2> SUFFICES ASSUME NEW d \in Conns, pc'[d] \in Loops
               PROVE  /\ job'[d].left \subseteq job'[d].all
                      /\ \A i \in job'[d].all : mail'[i].to = job'[d].to
                      /\ job'[d].all \ job'[d].left \subseteq pushed'[job'[d].target]
                      /\ \A j \in job'[d].all, i \in Ids' :
                            i < j /\ mail'[i].to = job'[d].to
                              => i \in job'[d].all \cup delivered'
    BY DEF LoopsComplete
  <2>1. pc[d] \in Loops /\ job'[d] = job[d] /\ pushed' = pushed /\ delivered' = delivered
    BY <1>1 DEF SendMessage
  <2>2. \A j \in job[d].all, i \in Ids' : i < j => i \in Ids
    BY <1>2, <1>3
  <2> QED
    BY <1>2, <1>3, <2>1, <2>2 DEF OrderInv, LoopsComplete
<1>5. OnlyToRecipient'
  BY <1>2, <1>3 DEF SendMessage, OrderInv, OnlyToRecipient
<1>6. DeliveredWasPushed'
  BY DEF SendMessage, OrderInv, DeliveredWasPushed
<1>7. NoGaps'
  <2>1. \A d \in Conns : \A j \in pushed[d], i \in Ids' : i < j => i \in Ids
    BY <1>2, <1>3
  <2> QED
    BY <1>2, <1>3, <2>1 DEF SendMessage, OrderInv, NoGaps
<1> QED
  BY <1>4, <1>5, <1>6, <1>7 DEF OrderInv

(* The oldest row a loop has left is written: everything older that was      *)
(* fetched with it was written before, everything else older was delivered.  *)
LEMMA OrderPush ==
    ASSUME TypeInv, OrderInv, NEW c \in Conns, PushRow(c)
    PROVE  OrderInv'
<1> DEFINE t == job[c].target
<1>1. PICK row \in job[c].left :
        /\ pc[c] \in Loops
        /\ \A j \in job[c].left : row <= j
        /\ pushed' = [pushed EXCEPT ![t] = @ \cup {row}]
        /\ job' = [job EXCEPT ![c].left = @ \ {row}]
        /\ UNCHANGED <<user, mail, delivered, pc>>
  BY DEF PushRow, Oldest
<1>2. /\ t \in Conns
      /\ user[t] = job[c].to
      /\ job[c].all \subseteq Ids
      /\ job[c].left \subseteq job[c].all
      /\ Ids \subseteq Nat
      /\ \A d \in Conns : pushed[d] \subseteq Ids
  <2>1. pc[c] \in Loops
    BY <1>1
  <2>2. job[c] \in JobType
    BY DEF TypeInv, TypeOK
  <2>3. job[c].target \in Conns /\ user[t] = job[c].to
    BY <2>1, <2>2 DEF TypeInv, HandlersReady, JobType
  <2>4. job[c].left \subseteq job[c].all
    BY <2>1 DEF OrderInv, LoopsComplete
  <2> QED
    BY <2>2, <2>3, <2>4 DEF TypeInv, TypeOK, JobType, Ids
<1>3. /\ job'[c].all = job[c].all
      /\ job'[c].to = job[c].to
      /\ job'[c].target = t
      /\ job'[c].left = job[c].left \ {row}
      /\ \A d \in Conns \ {c} : job'[d] = job[d]
  <2>1. job \in [Conns -> JobType]
    BY DEF TypeInv, TypeOK
  <2>2. job'[c] = [job[c] EXCEPT !.left = @ \ {row}]
    BY <1>1, <2>1
  <2>3. job[c] \in JobType
    BY <2>1
  <2> QED
    BY <1>1, <2>1, <2>2, <2>3 DEF JobType
<1>4. /\ pushed'[t] = pushed[t] \cup {row}
      /\ \A d \in Conns : pushed[d] \subseteq pushed'[d]
      /\ \A d \in Conns \ {t} : pushed'[d] = pushed[d]
  BY <1>1, <1>2 DEF TypeInv, TypeOK
<1>5. mail[row].to = user[t]
  BY <1>1, <1>2 DEF OrderInv, LoopsComplete
<1>6. LoopsComplete'
  <2> SUFFICES ASSUME NEW d \in Conns, pc[d] \in Loops
               PROVE  /\ job'[d].left \subseteq job'[d].all
                      /\ \A i \in job'[d].all : mail[i].to = job'[d].to
                      /\ job'[d].all \ job'[d].left \subseteq pushed'[job'[d].target]
                      /\ \A j \in job'[d].all, i \in Ids :
                            i < j /\ mail[i].to = job'[d].to
                              => i \in job'[d].all \cup delivered
    BY <1>1 DEF LoopsComplete, Ids
  <2>1. /\ job[d].left \subseteq job[d].all
        /\ \A i \in job[d].all : mail[i].to = job[d].to
        /\ job[d].all \ job[d].left \subseteq pushed[job[d].target]
        /\ \A j \in job[d].all, i \in Ids :
              i < j /\ mail[i].to = job[d].to => i \in job[d].all \cup delivered
    BY DEF OrderInv, LoopsComplete
  <2>2. job[d].target \in Conns
    BY DEF TypeInv, TypeOK, HandlersReady, JobType
  <2>3. CASE d # c
    BY <1>3, <1>4, <2>1, <2>2, <2>3
  <2>4. CASE d = c
    BY <1>3, <1>4, <2>1, <2>4
  <2> QED
    BY <2>3, <2>4
<1>7. OnlyToRecipient'
  <2> SUFFICES ASSUME NEW d \in Conns, NEW i \in pushed'[d]
               PROVE  mail[i].to = user[d]
    BY <1>1 DEF OnlyToRecipient
  <2>1. CASE i \in pushed[d]
    BY <2>1 DEF OrderInv, OnlyToRecipient
  <2>2. CASE i \notin pushed[d]
    BY <1>4, <1>5, <2>2
  <2> QED
    BY <2>1, <2>2
<1>8. DeliveredWasPushed'
  BY <1>1, <1>4 DEF OrderInv, DeliveredWasPushed
<1>9. NoGaps'
  <2> SUFFICES ASSUME NEW d \in Conns, NEW j \in pushed'[d], NEW i \in Ids,
                      i < j, mail[i].to = mail[j].to
               PROVE  i \in pushed'[d] \cup delivered
    BY <1>1 DEF NoGaps, Ids
  <2>1. CASE j \in pushed[d]
    BY <1>4, <2>1 DEF OrderInv, NoGaps
  <2>2. CASE j \notin pushed[d]
    <3>1. d = t /\ j = row
      BY <1>4, <2>2
    <3>2. i \in job[c].all \cup delivered
      BY <1>1, <1>2, <1>5, <3>1 DEF OrderInv, LoopsComplete
    <3>3. i \notin job[c].left
      BY <1>1, <1>2, <3>1
    <3>4. i \in pushed[t] \cup delivered
      BY <1>1, <3>2, <3>3 DEF OrderInv, LoopsComplete
    <3> QED
      BY <1>4, <3>1, <3>4
  <2> QED
    BY <2>1, <2>2
<1> QED
  BY <1>6, <1>7, <1>8, <1>9 DEF OrderInv

(* A loop that is over marks rows it has all written.                        *)
LEMMA OrderMark ==
    ASSUME TypeInv, OrderInv, NEW c \in Conns, MarkDelivered(c)
    PROVE  OrderInv'
<1>1. AfterLoop(c, pc[c] = "delivering")
  BY DEF MarkDelivered
<1>2. \A d \in Conns : pc'[d] \in Loops => pc[d] \in Loops /\ job'[d] = job[d]
  BY <1>1, AfterLoopType DEF TypeInv, TypeOK, Loops
<1>3. /\ UNCHANGED <<user, mail, pushed>>
      /\ delivered \subseteq delivered'
  BY DEF MarkDelivered
<1>4. LoopsComplete'
  BY <1>2, <1>3 DEF OrderInv, LoopsComplete, Ids
<1>5. OnlyToRecipient'
  BY <1>3 DEF OrderInv, OnlyToRecipient
<1>6. DeliveredWasPushed'
  <2>1. job[c].target \in Conns /\ job[c].all \subseteq pushed[job[c].target]
    BY DEF MarkDelivered, TypeInv, TypeOK, HandlersReady, JobType, OrderInv, LoopsComplete
  <2>2. delivered' = delivered \cup job[c].all
    BY DEF MarkDelivered
  <2> QED
    BY <1>3, <2>1, <2>2 DEF OrderInv, DeliveredWasPushed
<1>7. NoGaps'
  BY <1>3 DEF OrderInv, NoGaps, Ids
<1> QED
  BY <1>4, <1>5, <1>6, <1>7 DEF OrderInv

(* Every step keeps the order invariant.                                     *)
LEMMA StepOrderInv == TypeInv /\ OrderInv /\ [Next]_vars => OrderInv'
<1> SUFFICES ASSUME TypeInv, OrderInv, [Next]_vars
             PROVE  OrderInv'
  OBVIOUS
<1> DEFINE Frame == /\ UNCHANGED <<user, mail, delivered, pushed>>
                    /\ \A d \in Conns :
                          pc'[d] \in Loops => pc[d] \in Loops /\ job'[d] = job[d]
<1>1. Frame => OrderInv'
  BY OrderFrame
<1>2. ASSUME NEW c \in Conns, Connect(c)
      PROVE  OrderInv'
  BY <1>1, <1>2 DEF Connect, TypeInv, TypeOK, Loops
<1>3. ASSUME NEW c \in Conns, HangUp(c)
      PROVE  OrderInv'
  BY <1>1, <1>3 DEF HangUp, TypeInv, TypeOK, Loops
<1>4. ASSUME NEW c \in Conns, Refuse(c)
      PROVE  OrderInv'
  BY <1>1, <1>4 DEF Refuse, TypeInv, TypeOK, Loops
<1>5. ASSUME NEW c \in Conns, Snapshot(c)
      PROVE  OrderInv'
  BY <1>1, <1>5 DEF Snapshot, TypeInv, TypeOK, Loops, Answered
<1>6. ASSUME NEW c \in Conns, PushFails(c)
      PROVE  OrderInv'
  BY <1>1, <1>6 DEF PushFails, TypeInv, TypeOK, Loops
<1>7. ASSUME NEW c \in Conns, Announce(c)
      PROVE  OrderInv'
  BY <1>1, <1>7 DEF Announce, TypeInv, TypeOK, Loops
<1>8. ASSUME NEW c \in Conns, ReportError(c)
      PROVE  OrderInv'
  BY <1>1, <1>8 DEF ReportError, TypeInv, TypeOK, Loops, Answered
<1>9. ASSUME NEW c \in Conns, End(c)
      PROVE  OrderInv'
  BY <1>1, <1>9 DEF End, TypeInv, TypeOK, Loops
<1>10. ASSUME NEW c \in Conns, Farewell(c)
      PROVE  OrderInv'
  BY <1>1, <1>10 DEF Farewell, TypeInv, TypeOK, Loops
<1>11. ASSUME NEW c \in Conns, Deliver(c)
      PROVE  OrderInv'
  <2>1. user[c] \in Users
    BY <1>11 DEF Deliver, TypeInv, HandlersReady, TypeOK
  <2> QED
    BY <1>11, <2>1, OrderBegin DEF Deliver
<1>12. ASSUME NEW c \in Conns, Lookup(c)
      PROVE  OrderInv'
  <2>1. job[c].to \in Users
    BY <1>12 DEF Lookup, TypeInv, HandlersReady, TypeOK, JobType
  <2>2. CASE connected[job[c].to] = None
    <3>1. AfterLoop(c, FALSE)
      BY <1>12, <2>2 DEF Lookup
    <3>2. \A d \in Conns : pc'[d] \in Loops => pc[d] \in Loops /\ job'[d] = job[d]
      BY <3>1, AfterLoopType DEF TypeInv, TypeOK, Loops
    <3> QED
      BY <1>1, <1>12, <3>2 DEF Lookup
  <2>3. CASE connected[job[c].to] # None
    <3>1. /\ connected[job[c].to] \in Conns
          /\ BeginLoop(c, connected[job[c].to], job[c].to, FALSE)
      BY <1>12, <2>1, <2>3 DEF Lookup, TypeInv, TypeOK
    <3> QED
      BY <1>12, <2>1, <3>1, OrderBegin DEF Lookup
  <2> QED
    BY <2>2, <2>3
<1>13. CASE Crash
  BY <1>1, <1>13 DEF Crash, TypeInv, TypeOK, Loops
<1>14. CASE UNCHANGED vars
  BY <1>1, <1>14 DEF vars, TypeInv, TypeOK, Loops
<1> QED
  BY <1>2, <1>3, <1>4, <1>5, <1>6, <1>7, <1>8, <1>9, <1>10, <1>11, <1>12, <1>13, <1>14,
     OrderLogin, OrderSend, OrderPush, OrderMark
  DEF Next, Request, Handler

LEMMA InitOrderInv == Init => OrderInv
BY DEF Init, OrderInv, LoopsComplete, OnlyToRecipient, DeliveredWasPushed, NoGaps,
       Loops, Ids

LEMMA Invariance == Spec => []IInv
<1>1. Init => IInv
  BY InitTypeInv, InitOrderInv DEF IInv
<1>2. IInv /\ [Next]_vars => IInv'
  BY StepTypeInv, StepOrderInv DEF IInv
<1> QED
  BY <1>1, <1>2, PTL DEF Spec

(* A row is only ever written on a connection of its recipient: the socket   *)
(* that send_message looks up after the reply, and the one a login pushes    *)
(* to, always belong to the user whose rows were fetched (server.py:149-180).*)
THEOREM RelayOnlyToRecipient == Spec => []OnlyToRecipient
<1>1. IInv => OnlyToRecipient
  BY DEF IInv, OrderInv
<1> QED
  BY <1>1, Invariance, PTL

(* No row is marked delivered that was not written on some connection: an    *)
(* overlap, an exception in a push loop and a restart between the sends and  *)
(* the mark all err on the side of sending again (server.py:165-180).        *)
THEOREM RelayDeliveredWasPushed == Spec => []DeliveredWasPushed
<1>1. IInv => DeliveredWasPushed
  BY DEF IInv, OrderInv
<1> QED
  BY <1>1, Invariance, PTL

(* Rows reach a connection in mailbox order, up to those delivered elsewhere *)
(* before (db.py:180-185, server.py:165-180).                                *)
THEOREM RelayNoGaps == Spec => []NoGaps
<1>1. IInv => NoGaps
  BY DEF IInv, OrderInv
<1> QED
  BY <1>1, Invariance, PTL

-----------------------------------------------------------------------------

(* A connection that was never opened has no handler and nobody is           *)
(* registered on it.                                                         *)
FreshUnused ==
    /\ \A c \in Conns : link[c] = "fresh" => pc[c] = "new"
    /\ \A u \in Users : connected[u] # None => link[connected[u]] # "fresh"

LEMMA StepFreshUnused == TypeInv /\ FreshUnused /\ [Next]_vars => FreshUnused'
<1> SUFFICES ASSUME TypeInv, FreshUnused, [Next]_vars
             PROVE  FreshUnused'
  OBVIOUS
<1> USE RelayAssumption DEF FreshUnused, TypeInv
<1>1. ASSUME NEW c \in Conns, Connect(c)
      PROVE  FreshUnused'
  BY <1>1 DEF Connect, TypeOK
<1>2. ASSUME NEW c \in Conns, HangUp(c)
      PROVE  FreshUnused'
  BY <1>2 DEF HangUp, TypeOK
<1>3. ASSUME NEW c \in Conns, Refuse(c)
      PROVE  FreshUnused'
  BY <1>3 DEF Refuse, TypeOK
<1>4. ASSUME NEW c \in Conns, Snapshot(c)
      PROVE  FreshUnused'
  BY <1>4 DEF Snapshot, Answered, TypeOK
<1>5. ASSUME NEW c \in Conns, PushRow(c)
      PROVE  FreshUnused'
  BY <1>5 DEF PushRow, Loops, TypeOK
<1>6. ASSUME NEW c \in Conns, PushFails(c)
      PROVE  FreshUnused'
  BY <1>6 DEF PushFails, Loops, TypeOK
<1>7. ASSUME NEW c \in Conns, Announce(c)
      PROVE  FreshUnused'
  BY <1>7 DEF Announce, TypeOK
<1>8. ASSUME NEW c \in Conns, ReportError(c)
      PROVE  FreshUnused'
  BY <1>8 DEF ReportError, Answered, TypeOK
<1>9. ASSUME NEW c \in Conns, End(c)
      PROVE  FreshUnused'
  BY <1>9 DEF End, TypeOK
<1>10. ASSUME NEW c \in Conns, Farewell(c)
      PROVE  FreshUnused'
  BY <1>10 DEF Farewell, TypeOK
<1>11. ASSUME NEW c \in Conns, NEW u \in Users, Login(c, u)
      PROVE  FreshUnused'
  BY <1>11 DEF Login, Answered, TypeOK
<1>12. ASSUME NEW c \in Conns, NEW u \in Users, SendMessage(c, u)
      PROVE  FreshUnused'
  BY <1>12 DEF SendMessage, Answered, TypeOK
<1>13. ASSUME NEW c \in Conns, Deliver(c)
      PROVE  FreshUnused'
  <2>1. /\ pc[c] = "deliver"
        /\ user[c] \in Users
        /\ BeginLoop(c, c, user[c], TRUE)
        /\ UNCHANGED <<link, connected>>
    BY <1>13 DEF Deliver, HandlersReady, TypeOK
  <2>2. \A d \in Conns \ {c} : pc'[d] = pc[d]
    BY <2>1, BeginLoopType
  <2> QED
    BY <2>1, <2>2
<1>14. ASSUME NEW c \in Conns, Lookup(c)
      PROVE  FreshUnused'
  <2>1. /\ pc[c] = "lookup"
        /\ job[c].to \in Users
        /\ UNCHANGED <<link, connected>>
        /\ connected[job[c].to] \in Conns \cup {None}
    BY <1>14 DEF Lookup, HandlersReady, TypeOK, JobType
  <2>2. \A d \in Conns \ {c} : pc'[d] = pc[d]
    <3>1. CASE connected[job[c].to] = None
      <4>1. AfterLoop(c, FALSE)
        BY <1>14, <3>1 DEF Lookup
      <4> QED
        BY <4>1, AfterLoopType
    <3>2. CASE connected[job[c].to] # None
      <4>1. BeginLoop(c, connected[job[c].to], job[c].to, FALSE)
        BY <1>14, <3>2 DEF Lookup
      <4> QED
        BY <2>1, <3>2, <4>1, BeginLoopType
    <3> QED
      BY <3>1, <3>2
  <2> QED
    BY <2>1, <2>2
<1>15. ASSUME NEW c \in Conns, MarkDelivered(c)
      PROVE  FreshUnused'
  <2>1. \A d \in Conns \ {c} : pc'[d] = pc[d]
    BY <1>15, AfterLoopType DEF MarkDelivered
  <2> QED
    BY <1>15, <2>1 DEF MarkDelivered, Loops
<1>16. CASE Crash
  BY <1>16 DEF Crash, TypeOK
<1>17. CASE UNCHANGED vars
  BY <1>17 DEF vars
<1> QED
  BY <1>1, <1>2, <1>3, <1>4, <1>5, <1>6, <1>7, <1>8, <1>9, <1>10, <1>11, <1>12, <1>13, <1>14, <1>15, <1>16, <1>17
  DEF Next, Request, Handler

(* What a step has to leave alone for a row to stay in somebody's hands: a   *)
(* handler may drop it only when the connection it works for is not open.    *)
HandsKept ==
    /\ UNCHANGED <<connected, mail, delivered>>
    /\ \A u \in Users : connected[u] # None /\ link'[connected[u]] = "open"
         => link[connected[u]] = "open"
    /\ \A d \in Conns : link[d] = "closed" => link'[d] = "closed"
    /\ \A d \in Conns :
         /\ pc[d] = "lookup" => pc'[d] = "lookup" /\ job'[d].to = job[d].to
         /\ pc[d] \in {"snapshot", "deliver"} /\ link[d] = "open"
              => pc'[d] \in {"snapshot", "deliver"}
         /\ pc[d] \in Loops /\ link[job[d].target] # "closed"
              => /\ pc'[d] \in Loops
                 /\ job'[d].target = job[d].target
                 /\ job'[d].all = job[d].all

LEMMA HandsFrame ==
    ASSUME TypeInv, NoMailForgotten, HandsKept
    PROVE  NoMailForgotten'
<1> SUFFICES ASSUME NEW i \in Ids \ delivered,
                    connected[mail[i].to] # None,
                    link'[connected[mail[i].to]] = "open",
                    link'[mail[i].via] # "closed"
             PROVE  InHands(i, connected[mail[i].to])'
  BY DEF HandsKept, NoMailForgotten, Ids
<1> DEFINE c == connected[mail[i].to]
<1>1. mail[i] \in [to : Users, via : Conns]
  <2> DEFINE Row == [to : Users, via : Conns]
  <2>1. mail \in Seq(Row) /\ Ids = DOMAIN mail
    BY DEF TypeInv, TypeOK, Ids
  <2> HIDE DEF Row
  <2>2. mail[i] \in Row
    BY <2>1
  <2> QED
    BY <2>2 DEF Row
<1>2. mail[i].to \in Users /\ mail[i].via \in Conns
  BY <1>1
<1>3. link[c] = "open"
  BY <1>2 DEF HandsKept
<1>4. InHands(i, c)
  BY <1>2, <1>3 DEF NoMailForgotten, HandsKept
<1> QED
  BY <1>3, <1>4 DEF InHands, HandsKept

(* A login, a stored message and a finished loop change what is in hands.    *)
LEMMA StepMail ==
    TypeInv /\ FreshUnused /\ NoMailForgotten /\ [Next]_vars => NoMailForgotten'
<1> SUFFICES ASSUME TypeInv, FreshUnused, NoMailForgotten, [Next]_vars
             PROVE  NoMailForgotten'
  OBVIOUS
<1> USE RelayAssumption
<1>1. \A i \in Ids : mail[i].to \in Users /\ mail[i].via \in Conns
  <2> DEFINE Row == [to : Users, via : Conns]
  <2>1. mail \in Seq(Row) /\ Ids = DOMAIN mail
    BY DEF TypeInv, TypeOK, Ids
  <2> HIDE DEF Row
  <2>2. \A i \in Ids : mail[i] \in Row
    BY <2>1
  <2> QED
    BY <2>2 DEF Row
<1>2. ASSUME NEW c \in Conns, Connect(c)
      PROVE  NoMailForgotten'
  <2>1. HandsKept
    BY <1>2 DEF HandsKept, Connect, FreshUnused, TypeInv, TypeOK, Loops
  <2> QED
    BY <2>1, HandsFrame
<1>3. ASSUME NEW c \in Conns, HangUp(c)
      PROVE  NoMailForgotten'
  <2>1. HandsKept
    BY <1>3 DEF HandsKept, HangUp, TypeInv, TypeOK, Loops
  <2> QED
    BY <2>1, HandsFrame
<1>4. ASSUME NEW c \in Conns, Refuse(c)
      PROVE  NoMailForgotten'
  <2>1. HandsKept
    BY <1>4 DEF HandsKept, Refuse, TypeInv, TypeOK, Loops
  <2> QED
    BY <2>1, HandsFrame
<1>5. ASSUME NEW c \in Conns, Snapshot(c)
      PROVE  NoMailForgotten'
  <2>1. HandsKept
    BY <1>5 DEF HandsKept, Snapshot, Answered, TypeInv, TypeOK, Loops
  <2> QED
    BY <2>1, HandsFrame
<1>6. ASSUME NEW c \in Conns, PushFails(c)
      PROVE  NoMailForgotten'
  <2>1. HandsKept
    BY <1>6 DEF HandsKept, PushFails, TypeInv, TypeOK, Loops
  <2> QED
    BY <2>1, HandsFrame
<1>7. ASSUME NEW c \in Conns, Announce(c)
      PROVE  NoMailForgotten'
  <2>1. HandsKept
    BY <1>7 DEF HandsKept, Announce, TypeInv, TypeOK, Loops
  <2> QED
    BY <2>1, HandsFrame
<1>8. ASSUME NEW c \in Conns, ReportError(c)
      PROVE  NoMailForgotten'
  <2>1. HandsKept
    BY <1>8 DEF HandsKept, ReportError, Answered, TypeInv, TypeOK, Loops
  <2> QED
    BY <2>1, HandsFrame
<1>9. ASSUME NEW c \in Conns, Farewell(c)
      PROVE  NoMailForgotten'
  <2>1. HandsKept
    BY <1>9 DEF HandsKept, Farewell, TypeInv, TypeOK, Loops
  <2> QED
    BY <2>1, HandsFrame
<1>10. ASSUME NEW c \in Conns, PushRow(c)
      PROVE  NoMailForgotten'
  <2>1. PICK row \in job[c].left :
          /\ job' = [job EXCEPT ![c].left = @ \ {row}]
          /\ UNCHANGED <<link, connected, mail, delivered, pc>>
    BY <1>10 DEF PushRow
  <2>2. \A d \in Conns : /\ job'[d].to = job[d].to
                        /\ job'[d].target = job[d].target
                        /\ job'[d].all = job[d].all
    <3>1. job \in [Conns -> JobType]
      BY DEF TypeInv, TypeOK
    <3>2. \A d \in Conns \ {c} : job'[d] = job[d]
      BY <2>1, <3>1
    <3>3. job'[c] = [job[c] EXCEPT !.left = @ \ {row}] /\ job[c] \in JobType
      BY <2>1, <3>1
    <3> QED
      BY <3>2, <3>3 DEF JobType
  <2>3. HandsKept
    BY <2>1, <2>2 DEF HandsKept
  <2> QED
    BY <2>3, HandsFrame
<1>11. ASSUME NEW c \in Conns, End(c)
      PROVE  NoMailForgotten'
  <2> DEFINE u == user[c]
  <2>1. CASE u # None /\ connected[u] = c
    <3> SUFFICES ASSUME NEW i \in Ids' \ delivered', NEW r,
                        r = connected'[mail'[i].to], r # None, link'[r] = "open",
                        link'[mail'[i].via] # "closed"
                 PROVE  InHands(i, r)'
      BY DEF NoMailForgotten
    <3>1. /\ UNCHANGED <<link, mail, delivered, job>>
          /\ \A d \in Conns \ {c} : pc'[d] = pc[d]
          /\ pc[c] \in {"ending", "idle"}
          /\ connected' = [connected EXCEPT ![u] = None]
      BY <1>11, <2>1 DEF End
    <3>2. r = connected[mail[i].to]
      BY <1>1, <3>1 DEF TypeInv, TypeOK, Ids
    <3>3. InHands(i, r)
      BY <3>1, <3>2 DEF NoMailForgotten, Ids
    <3> QED
      BY <3>1, <3>3 DEF InHands, Loops
  <2>2. CASE ~(u # None /\ connected[u] = c)
    <3>1. HandsKept
      BY <1>11, <2>2 DEF HandsKept, End, TypeInv, TypeOK, Loops
    <3> QED
      BY <3>1, HandsFrame
  <2> QED
    BY <2>1, <2>2
<1>12. ASSUME NEW c \in Conns, NEW u \in Users, Login(c, u)
      PROVE  NoMailForgotten'
  <2> SUFFICES ASSUME NEW i \in Ids' \ delivered', NEW r,
                      r = connected'[mail'[i].to], r # None, link'[r] = "open",
                      link'[mail'[i].via] # "closed"
               PROVE  InHands(i, r)'
    BY DEF NoMailForgotten
  <2>1. /\ UNCHANGED <<link, mail, delivered, job>>
        /\ \A d \in Conns \ {c} : pc'[d] = pc[d]
        /\ pc'[c] = IF link[c] = "open" THEN "snapshot" ELSE "ending"
        /\ connected' = [connected EXCEPT ![u] = c]
        /\ pc[c] = "idle"
    BY <1>12 DEF Login, Answered, TypeInv, TypeOK
  <2>2. i \in Ids \ delivered
    BY <2>1 DEF Ids
  <2>3. CASE mail[i].to = u
    <3>1. r = c
      BY <2>1, <2>3 DEF TypeInv, TypeOK
    <3> QED
      BY <2>1, <3>1 DEF InHands
  <2>4. CASE mail[i].to # u
    <3>1. r = connected[mail[i].to]
      BY <1>1, <2>1, <2>2, <2>4 DEF TypeInv, TypeOK
    <3>2. InHands(i, r)
      BY <2>1, <2>2, <3>1 DEF NoMailForgotten
    <3> QED
      BY <2>1, <3>2 DEF InHands, Loops
  <2> QED
    BY <2>3, <2>4
<1>13. ASSUME NEW c \in Conns, NEW u \in Users, SendMessage(c, u)
      PROVE  NoMailForgotten'
  <2>1. /\ Ids = 1..Len(mail)
        /\ Ids' = Ids \cup {Len(mail) + 1}
        /\ \A i \in Ids : mail'[i] = mail[i]
        /\ mail'[Len(mail) + 1] = [to |-> u, via |-> c]
        /\ UNCHANGED <<link, connected, delivered>>
        /\ pc[c] = "idle"
    BY <1>13 DEF SendMessage, TypeInv, TypeOK, Ids
  <2>2. /\ \A d \in Conns \ {c} : pc'[d] = pc[d] /\ job'[d] = job[d]
        /\ link[c] = "open" => pc'[c] = "lookup" /\ job'[c].to = u
    BY <1>13 DEF SendMessage, Answered, NoJob, TypeInv, TypeOK
  <2>3. link[c] # "fresh"
    BY <2>1 DEF FreshUnused
  <2> SUFFICES ASSUME NEW i \in Ids' \ delivered', NEW r,
                      r = connected'[mail'[i].to], r # None, link'[r] = "open",
                      link'[mail'[i].via] # "closed"
               PROVE  InHands(i, r)'
    BY DEF NoMailForgotten
  <2>4. CASE i \in Ids
    <3>1. InHands(i, r)
      BY <2>1, <2>4 DEF NoMailForgotten
    <3>2. mail'[i] = mail[i] /\ pc[c] \notin Loops \cup {"lookup", "snapshot", "deliver"}
      BY <2>1, <2>4 DEF Loops
    <3> QED
      BY <2>2, <3>1, <3>2 DEF InHands
  <2>5. CASE i = Len(mail) + 1
    <3>1. mail'[i].to = u /\ link[c] = "open"
      BY <2>1, <2>3, <2>5 DEF TypeInv, TypeOK
    <3> QED
      BY <2>2, <3>1 DEF InHands
  <2> QED
    BY <2>1, <2>4, <2>5
<1>14. ASSUME NEW c \in Conns, Deliver(c)
      PROVE  NoMailForgotten'
  <2>1. /\ user[c] \in Users
        /\ pc[c] = "deliver"
        /\ BeginLoop(c, c, user[c], TRUE)
        /\ UNCHANGED <<link, user, connected, mail, delivered>>
    BY <1>14 DEF Deliver, TypeInv, HandlersReady, TypeOK
  <2>2. \A d \in Conns \ {c} : pc'[d] = pc[d] /\ job'[d] = job[d]
    BY <2>1, BeginLoopType DEF TypeInv
  <2>3. CASE Pending(user[c]) = {}
    <3>1. \A i \in Ids \ delivered : mail[i].to # user[c]
      BY <2>3 DEF Pending
    <3> SUFFICES ASSUME NEW i \in Ids' \ delivered', NEW r,
                        r = connected'[mail'[i].to], r # None, link'[r] = "open",
                        link'[mail'[i].via] # "closed"
                 PROVE  InHands(i, r)'
      BY DEF NoMailForgotten
    <3>2. i \in Ids \ delivered /\ mail' = mail
      BY <2>1 DEF Ids
    <3>3. r = connected[mail[i].to] /\ InHands(i, r)
      BY <2>1, <3>2 DEF NoMailForgotten
    <3>4. r # c
      BY <1>1, <3>1, <3>2, <3>3 DEF TypeInv, RegisteredOwn
    <3> QED
      BY <2>1, <2>2, <3>2, <3>3, <3>4 DEF InHands, Loops
  <2>4. CASE Pending(user[c]) # {}
    <3>1. /\ pc'[c] = "delivering"
          /\ job'[c] = [to |-> user[c], target |-> c,
                        left |-> Pending(user[c]), all |-> Pending(user[c])]
      BY <2>1, <2>4 DEF BeginLoop, TypeInv, TypeOK
    <3> SUFFICES ASSUME NEW i \in Ids' \ delivered', NEW r,
                        r = connected'[mail'[i].to], r # None, link'[r] = "open",
                        link'[mail'[i].via] # "closed"
                 PROVE  InHands(i, r)'
      BY DEF NoMailForgotten
    <3>2. i \in Ids \ delivered /\ mail' = mail
      BY <2>1 DEF Ids
    <3>3. r = connected[mail[i].to] /\ InHands(i, r)
      BY <2>1, <3>2 DEF NoMailForgotten
    <3>4. CASE r = c
      <4>1. i \in Pending(user[c])
        BY <1>1, <3>2, <3>3, <3>4 DEF Pending, TypeInv, RegisteredOwn
      <4> QED
        BY <3>1, <3>4, <4>1 DEF InHands, Loops
    <3>5. CASE r # c
      BY <2>1, <2>2, <3>2, <3>3, <3>5 DEF InHands, Loops
    <3> QED
      BY <3>4, <3>5
  <2> QED
    BY <2>3, <2>4
<1>15. ASSUME NEW c \in Conns, Lookup(c)
      PROVE  NoMailForgotten'
  <2> DEFINE t == connected[job[c].to]
             w == job[c].to
  <2>1. /\ w \in Users
        /\ pc[c] = "lookup"
        /\ UNCHANGED <<link, user, connected, mail, delivered>>
    BY <1>15 DEF Lookup, TypeInv, HandlersReady, TypeOK, JobType
  <2>2. \A d \in Conns \ {c} : pc'[d] = pc[d] /\ job'[d] = job[d]
    <3>1. CASE t = None
      <4>1. AfterLoop(c, FALSE)
        BY <1>15, <3>1 DEF Lookup
      <4> QED
        BY <4>1 DEF AfterLoop, TypeInv, TypeOK
    <3>2. CASE t # None
      <4>1. t \in Conns /\ BeginLoop(c, t, w, FALSE)
        BY <1>15, <2>1, <3>2 DEF Lookup, TypeInv, TypeOK
      <4> QED
        BY <2>1, <4>1, BeginLoopType DEF TypeInv
    <3> QED
      BY <3>1, <3>2
  <2>3. t # None /\ Pending(w) # {} =>
          /\ pc'[c] = "pushing"
          /\ job'[c] = [to |-> w, target |-> t, left |-> Pending(w), all |-> Pending(w)]
    <3> SUFFICES ASSUME t # None, Pending(w) # {}
                 PROVE  /\ pc'[c] = "pushing"
                        /\ job'[c] = [to |-> w, target |-> t,
                                      left |-> Pending(w), all |-> Pending(w)]
      OBVIOUS
    <3>1. BeginLoop(c, t, w, FALSE)
      BY <1>15 DEF Lookup
    <3> QED
      BY <3>1 DEF BeginLoop, TypeInv, TypeOK
  <2> SUFFICES ASSUME NEW i \in Ids' \ delivered', NEW r,
                      r = connected'[mail'[i].to], r # None, link'[r] = "open",
                      link'[mail'[i].via] # "closed"
               PROVE  InHands(i, r)'
    BY DEF NoMailForgotten
  <2>4. i \in Ids \ delivered /\ mail' = mail
    BY <2>1 DEF Ids
  <2>5. r = connected[mail[i].to] /\ InHands(i, r)
    BY <2>1, <2>4 DEF NoMailForgotten
  <2>6. CASE mail[i].to = w
    <3>1. i \in Pending(w) /\ t = r
      BY <2>4, <2>5, <2>6 DEF Pending
    <3> QED
      BY <2>3, <3>1 DEF InHands, Loops
  <2>7. CASE mail[i].to # w
    BY <2>1, <2>2, <2>4, <2>5, <2>7 DEF InHands, Loops
  <2> QED
    BY <2>6, <2>7
<1>16. ASSUME NEW c \in Conns, MarkDelivered(c)
      PROVE  NoMailForgotten'
  <2>1. /\ \A d \in Conns \ {c} : pc'[d] = pc[d] /\ job'[d] = job[d]
        /\ delivered' = delivered \cup job[c].all
        /\ UNCHANGED <<link, connected, mail>>
        /\ pc[c] \in Loops
    BY <1>16 DEF MarkDelivered, AfterLoop, TypeInv, TypeOK
  <2> SUFFICES ASSUME NEW i \in Ids' \ delivered', NEW r,
                      r = connected'[mail'[i].to], r # None, link'[r] = "open",
                      link'[mail'[i].via] # "closed"
               PROVE  InHands(i, r)'
    BY DEF NoMailForgotten
  <2>2. i \in Ids /\ i \notin delivered /\ i \notin job[c].all
    BY <2>1 DEF Ids
  <2>3. InHands(i, r)
    BY <2>1, <2>2 DEF NoMailForgotten
  <2> QED
    BY <2>1, <2>2, <2>3 DEF InHands, Loops
<1>17. CASE Crash
  <2>1. \A u \in Users : connected'[u] = None
    BY <1>17 DEF Crash
  <2>2. Ids' = Ids /\ mail' = mail
    BY <1>17 DEF Crash, Ids
  <2> QED
    BY <1>1, <2>1, <2>2 DEF NoMailForgotten
<1>18. CASE UNCHANGED vars
  <2>1. HandsKept
    BY <1>18 DEF HandsKept, vars
  <2> QED
    BY <2>1, HandsFrame
<1> QED
  BY <1>2, <1>3, <1>4, <1>5, <1>6, <1>7, <1>8, <1>9, <1>10, <1>11, <1>12, <1>13, <1>14, <1>15, <1>16, <1>17, <1>18
  DEF Next, Request, Handler

(* No pending row of a user whose registered connection is open is left      *)
(* without a handler that will push it there, as long as the sender stayed   *)
(* for its reply (server.py:149-163): logins, overlapping loops, exceptions  *)
(* and restarts never drop one between two handlers.                         *)
THEOREM RelayNoMailForgotten == Spec => []NoMailForgotten
<1>1. Init => TypeInv /\ FreshUnused /\ NoMailForgotten
  <2>1. Init => FreshUnused /\ NoMailForgotten
    BY DEF Init, FreshUnused, NoMailForgotten, Ids
  <2> QED
    BY <2>1, InitTypeInv
<1>2. TypeInv /\ FreshUnused /\ NoMailForgotten /\ [Next]_vars
        => (TypeInv /\ FreshUnused /\ NoMailForgotten)'
  BY StepTypeInv, StepFreshUnused, StepMail
<1> QED
  BY <1>1, <1>2, PTL DEF Spec

-----------------------------------------------------------------------------

(* Nobody has left yet.                                                      *)
NoneClosed == \A c \in Conns : link[c] # "closed"

(* The handler of d has still to tell c that its user is online.             *)
ToTell(d, c) ==
    \/ pc[d] \in {"snapshot", "deliver", "delivering"}
    \/ pc[d] = "announcing" /\ c \in notify[d]

(* Whom a broadcast goes to is logged in as somebody else, and a client that *)
(* is not logged in shows nobody.                                            *)
ToldOthers ==
    /\ \A d \in Conns : notify[d] # {} => pc[d] \in {"announcing", "farewell"}
    /\ \A d \in Conns : \A t \in notify[d] : user[t] # None /\ user[t] # user[d]
    /\ \A c \in Conns : user[c] = None => view[c] = {}
    /\ \A c \in Conns : link[c] = "fresh" => user[c] = None

(* Until somebody leaves, a client shows only users who are registered, and  *)
(* shows them all but those whose handler has still to tell it, unless its   *)
(* own snapshot is yet to come.                                              *)
ViewsExact ==
    NoneClosed =>
        /\ \A c \in Conns : pc[c] \notin {"ending", "farewell", "gone"}
        /\ \A c \in Conns : user[c] # None => connected[user[c]] # None
        /\ \A c \in Conns : \A v \in view[c] : v # user[c] /\ connected[v] # None
        /\ \A u \in Users : \A v \in Users \ {u} :
              connected[u] # None /\ connected[v] # None =>
                  \/ v \in view[connected[u]]
                  \/ pc[connected[u]] = "snapshot"
                  \/ \E d \in Conns : user[d] = v /\ ToTell(d, connected[u])

(* A step that nobody is told anything in.                                   *)
LEMMA ToldFrame ==
    ASSUME ToldOthers, UNCHANGED <<user, view>>,
           \A d \in Conns : link'[d] = "fresh" => link[d] = "fresh",
           \A d \in Conns : /\ notify'[d] \subseteq notify[d]
                            /\ notify'[d] # {} => pc'[d] \in {"announcing", "farewell"}
    PROVE  ToldOthers'
BY DEF ToldOthers

(* The same for what the clients show: no handler forgets whom it has to     *)
(* tell, as long as nobody leaves.                                           *)
LEMMA ViewsFrame ==
    ASSUME ViewsExact, UNCHANGED <<user, connected, view>>, NoneClosed' => NoneClosed,
           NoneClosed' => \A d \in Conns :
                /\ pc'[d] \notin {"ending", "farewell", "gone"}
                /\ pc[d] = "snapshot" => pc'[d] = "snapshot"
                /\ \A u \in Users : connected[u] # None /\ user[d] # u =>
                       (ToTell(d, connected[u]) => ToTell(d, connected[u])'),
           TypeOK
    PROVE  ViewsExact'
<1> SUFFICES ASSUME NoneClosed'
             PROVE  ViewsExact'
  BY DEF ViewsExact
<1>1. NoneClosed
  OBVIOUS
<1>2. /\ \A c \in Conns : pc'[c] \notin {"ending", "farewell", "gone"}
      /\ \A c \in Conns : user'[c] # None => connected'[user'[c]] # None
      /\ \A c \in Conns : \A v \in view'[c] : v # user'[c] /\ connected'[v] # None
  BY <1>1 DEF ViewsExact
<1>3. ASSUME NEW u \in Users, NEW v \in Users \ {u},
             connected[u] # None, connected[v] # None
      PROVE  \/ v \in view'[connected'[u]]
             \/ pc'[connected'[u]] = "snapshot"
             \/ \E d \in Conns : user'[d] = v /\ ToTell(d, connected[u])'
  <2>1. \/ v \in view[connected[u]]
        \/ pc[connected[u]] = "snapshot"
        \/ \E d \in Conns : user[d] = v /\ ToTell(d, connected[u])
    BY <1>1, <1>3 DEF ViewsExact
  <2>2. connected[u] \in Conns
    BY <1>3 DEF TypeOK
  <2>3. CASE \E d \in Conns : user[d] = v /\ ToTell(d, connected[u])
    <3>1. PICK d \in Conns : user[d] = v /\ ToTell(d, connected[u])
      BY <2>3
    <3>2. ToTell(d, connected[u])'
      BY <1>3, <3>1
    <3> QED
      BY <3>1, <3>2
  <2> QED
    BY <2>1, <2>2, <2>3
<1> QED
  BY <1>2, <1>3 DEF ViewsExact

(* Where a handler goes from its push loop: from that of a login, on to tell *)
(* everybody else who is registered.                                         *)
LEMMA AfterLoopTells ==
    ASSUME TypeInv, ToldOthers, NEW c \in Conns, NEW isLogin \in BOOLEAN,
           AfterLoop(c, isLogin)
    PROVE  /\ pc'[c] \in {"idle", "announcing"}
           /\ notify'[c] # {} => pc'[c] = "announcing"
           /\ \A t \in notify'[c] : user[t] # None /\ user[t] # user[c]
           /\ \A d \in Conns \ {c} : pc'[d] = pc[d] /\ notify'[d] = notify[d]
           /\ isLogin => \A u \in Users : connected[u] # None /\ user[c] # u =>
                            pc'[c] = "announcing" /\ connected[u] \in notify'[c]
<1> USE RelayAssumption
<1> DEFINE peers == IF isLogin THEN Others(connected, user[c]) ELSE {}
<1>1. /\ pc' = [pc EXCEPT ![c] = IF peers = {} THEN "idle" ELSE "announcing"]
      /\ notify' = [notify EXCEPT ![c] = peers]
  BY DEF AfterLoop
<1>2. /\ pc'[c] = IF peers = {} THEN "idle" ELSE "announcing"
      /\ notify'[c] = peers
      /\ \A d \in Conns \ {c} : pc'[d] = pc[d] /\ notify'[d] = notify[d]
  BY <1>1 DEF TypeInv, TypeOK
<1>3. \A t \in peers : user[t] # None /\ user[t] # user[c]
  BY DEF Others, TypeInv, RegisteredOwn
<1>4. isLogin => \A u \in Users : connected[u] # None /\ user[c] # u =>
                    connected[u] \in peers
  BY DEF Others
<1> HIDE DEF peers
<1> QED
  BY <1>2, <1>3, <1>4

LEMMA BeginLoopTells ==
    ASSUME TypeInv, ToldOthers, NEW c \in Conns, NEW isLogin \in BOOLEAN,
           pc[c] \in {"deliver", "lookup"},
           NEW target \in Conns, NEW u \in Users, BeginLoop(c, target, u, isLogin)
    PROVE  /\ pc'[c] \in {"idle", "announcing", "pushing", "delivering"}
           /\ notify'[c] # {} => pc'[c] = "announcing"
           /\ \A t \in notify'[c] : user[t] # None /\ user[t] # user[c]
           /\ \A d \in Conns \ {c} : pc'[d] = pc[d] /\ notify'[d] = notify[d]
           /\ isLogin => \A w \in Users : connected[w] # None /\ user[c] # w =>
                            \/ pc'[c] = "delivering"
                            \/ pc'[c] = "announcing" /\ connected[w] \in notify'[c]
<1>1. CASE Pending(u) = {}
  <2>1. AfterLoop(c, isLogin)
    BY <1>1 DEF BeginLoop
  <2> QED
    BY <2>1, AfterLoopTells
<1>2. CASE Pending(u) # {}
  <2>1. /\ pc' = [pc EXCEPT ![c] = IF isLogin THEN "delivering" ELSE "pushing"]
        /\ notify' = notify
    BY <1>2 DEF BeginLoop
  <2>2. notify[c] = {}
    BY DEF ToldOthers
  <2> QED
    BY <2>1, <2>2 DEF TypeInv, TypeOK
<1> QED
  BY <1>1, <1>2

(* Only the sends of presence frames and the login change what clients show  *)
(* or who is registered; every other step goes on with what it has to tell.  *)
LEMMA StepTold ==
    TypeInv /\ FreshUnused /\ ToldOthers /\ [Next]_vars => ToldOthers'
<1> SUFFICES ASSUME TypeInv, FreshUnused, ToldOthers, [Next]_vars
             PROVE  ToldOthers'
  OBVIOUS
<1> USE RelayAssumption
<1>1. ASSUME NEW c \in Conns, Connect(c)
      PROVE  ToldOthers'
  <2>1. notify[c] = {}
    BY <1>1 DEF Connect, ToldOthers, FreshUnused
  <2> QED
    BY <1>1, <2>1, ToldFrame DEF Connect, ToldOthers, TypeInv, TypeOK
<1>2. ASSUME NEW c \in Conns, HangUp(c)
      PROVE  ToldOthers'
  BY <1>2, ToldFrame DEF HangUp, ToldOthers, TypeInv, TypeOK
<1>3. ASSUME NEW c \in Conns, Refuse(c)
      PROVE  ToldOthers'
  BY <1>3, ToldFrame DEF Refuse, ToldOthers, TypeInv, TypeOK
<1>4. ASSUME NEW c \in Conns, NEW u \in Users, SendMessage(c, u)
      PROVE  ToldOthers'
  BY <1>4, ToldFrame DEF SendMessage, ToldOthers, TypeInv, TypeOK
<1>5. ASSUME NEW c \in Conns, PushRow(c)
      PROVE  ToldOthers'
  BY <1>5, ToldFrame DEF PushRow, ToldOthers
<1>6. ASSUME NEW c \in Conns, PushFails(c)
      PROVE  ToldOthers'
  BY <1>6, ToldFrame DEF PushFails, Loops, ToldOthers, TypeInv, TypeOK
<1>7. ASSUME NEW c \in Conns, ReportError(c)
      PROVE  ToldOthers'
  BY <1>7, ToldFrame DEF ReportError, ToldOthers, TypeInv, TypeOK
<1>8. ASSUME NEW c \in Conns, NEW u \in Users, Login(c, u)
      PROVE  ToldOthers'
  <2>1. /\ pc[c] = "idle" /\ user[c] = None /\ link[c] # "fresh" /\ notify[c] = {}
        /\ user'[c] = u /\ u # None
        /\ \A d \in Conns \ {c} : user'[d] = user[d] /\ pc'[d] = pc[d]
        /\ UNCHANGED <<link, notify, view>>
    BY <1>8 DEF Login, FreshUnused, ToldOthers, TypeInv, TypeOK
  <2>2. \A d \in Conns : c \notin notify[d] /\ notify[d] \subseteq Conns
    BY <2>1 DEF ToldOthers, TypeInv, TypeOK
  <2> QED
    BY <2>1, <2>2 DEF ToldOthers
<1>9. ASSUME NEW c \in Conns, Snapshot(c)
      PROVE  ToldOthers'
  <2>1. /\ pc[c] = "snapshot" /\ user[c] # None /\ notify[c] = {}
        /\ \A d \in Conns \ {c} : view'[d] = view[d] /\ pc'[d] = pc[d]
        /\ UNCHANGED <<link, user, notify>>
    BY <1>9 DEF Snapshot, ToldOthers, TypeInv, TypeOK, HandlersReady
  <2> QED
    BY <2>1 DEF ToldOthers
<1>10. ASSUME NEW c \in Conns, Deliver(c)
       PROVE  ToldOthers'
  <2>1. /\ pc[c] = "deliver" /\ user[c] \in Users /\ BeginLoop(c, c, user[c], TRUE)
        /\ UNCHANGED <<link, user, view>>
    BY <1>10 DEF Deliver, TypeInv, TypeOK, HandlersReady
  <2>2. /\ notify'[c] # {} => pc'[c] = "announcing"
        /\ \A t \in notify'[c] : user[t] # None /\ user[t] # user[c]
        /\ \A d \in Conns \ {c} : pc'[d] = pc[d] /\ notify'[d] = notify[d]
    BY <2>1, BeginLoopTells
  <2> QED
    BY <2>1, <2>2 DEF ToldOthers
<1>11. ASSUME NEW c \in Conns, Lookup(c)
       PROVE  ToldOthers'
  <2>1. /\ pc[c] = "lookup" /\ job[c].to \in Users /\ UNCHANGED <<link, user, view>>
        /\ connected[job[c].to] \in Conns \cup {None}
    BY <1>11 DEF Lookup, TypeInv, TypeOK, HandlersReady, JobType
  <2>2. /\ notify'[c] # {} => pc'[c] = "announcing"
        /\ \A t \in notify'[c] : user[t] # None /\ user[t] # user[c]
        /\ \A d \in Conns \ {c} : pc'[d] = pc[d] /\ notify'[d] = notify[d]
    <3>1. CASE connected[job[c].to] = None
      <4>1. AfterLoop(c, FALSE)
        BY <1>11, <3>1 DEF Lookup
      <4> QED
        BY <4>1, AfterLoopTells
    <3>2. CASE connected[job[c].to] # None
      <4>1. BeginLoop(c, connected[job[c].to], job[c].to, FALSE)
        BY <1>11, <3>2 DEF Lookup
      <4> QED
        BY <2>1, <3>2, <4>1, BeginLoopTells
    <3> QED
      BY <3>1, <3>2
  <2> QED
    BY <2>1, <2>2 DEF ToldOthers
<1>12. ASSUME NEW c \in Conns, MarkDelivered(c)
       PROVE  ToldOthers'
  <2>1. AfterLoop(c, pc[c] = "delivering") /\ UNCHANGED <<link, user, view>>
    BY <1>12 DEF MarkDelivered
  <2>2. /\ notify'[c] # {} => pc'[c] = "announcing"
        /\ \A t \in notify'[c] : user[t] # None /\ user[t] # user[c]
        /\ \A d \in Conns \ {c} : pc'[d] = pc[d] /\ notify'[d] = notify[d]
    BY <2>1, AfterLoopTells
  <2> QED
    BY <2>1, <2>2 DEF ToldOthers
<1>13. ASSUME NEW c \in Conns, Announce(c)
       PROVE  ToldOthers'
  <2>1. PICK t \in notify[c] :
          IF link[t] = "open"
            THEN /\ view' = [view EXCEPT ![t] = @ \cup {user[c]}]
                 /\ notify' = [notify EXCEPT ![c] = @ \ {t}]
                 /\ pc' = [pc EXCEPT ![c] = IF notify[c] = {t} THEN "idle" ELSE @]
            ELSE /\ notify' = [notify EXCEPT ![c] = {}]
                 /\ pc' = [pc EXCEPT ![c] = "error"]
                 /\ UNCHANGED view
    BY <1>13 DEF Announce
  <2>2. /\ UNCHANGED <<link, user>> /\ t \in Conns /\ user[t] # None
        /\ pc[c] = "announcing"
    BY <1>13 DEF Announce, ToldOthers, TypeInv, TypeOK
  <2>3. /\ notify'[c] \subseteq notify[c]
        /\ notify'[c] # {} => pc'[c] = "announcing"
        /\ \A d \in Conns \ {c} : pc'[d] = pc[d] /\ notify'[d] = notify[d]
    BY <2>1, <2>2 DEF TypeInv, TypeOK
  <2>4. \A d \in Conns \ {t} : view'[d] = view[d]
    BY <2>1 DEF TypeInv, TypeOK
  <2> QED
    BY <2>2, <2>3, <2>4 DEF ToldOthers
<1>14. ASSUME NEW c \in Conns, Farewell(c)
       PROVE  ToldOthers'
  <2>1. PICK t \in notify[c] :
          IF link[t] = "open"
            THEN /\ view' = [view EXCEPT ![t] = @ \ {user[c]}]
                 /\ notify' = [notify EXCEPT ![c] = @ \ {t}]
                 /\ pc' = [pc EXCEPT ![c] = IF notify[c] = {t} THEN "gone" ELSE @]
            ELSE /\ notify' = [notify EXCEPT ![c] = {}]
                 /\ pc' = [pc EXCEPT ![c] = "gone"]
                 /\ UNCHANGED view
    BY <1>14 DEF Farewell
  <2>2. /\ UNCHANGED <<link, user>> /\ t \in Conns /\ user[t] # None
        /\ pc[c] = "farewell"
    BY <1>14 DEF Farewell, ToldOthers, TypeInv, TypeOK
  <2>3. /\ notify'[c] \subseteq notify[c]
        /\ notify'[c] # {} => pc'[c] = "farewell"
        /\ \A d \in Conns \ {c} : pc'[d] = pc[d] /\ notify'[d] = notify[d]
    BY <2>1, <2>2 DEF TypeInv, TypeOK
  <2>4. \A d \in Conns \ {t} : view'[d] = view[d]
    BY <2>1 DEF TypeInv, TypeOK
  <2> QED
    BY <2>2, <2>3, <2>4 DEF ToldOthers
<1>15. ASSUME NEW c \in Conns, End(c)
       PROVE  ToldOthers'
  <2> DEFINE peers == IF user[c] # None /\ connected[user[c]] = c
                        THEN Others(connected, user[c]) ELSE {}
  <2>1. /\ pc' = [pc EXCEPT ![c] = IF peers = {} THEN "gone" ELSE "farewell"]
        /\ notify' = [notify EXCEPT ![c] = peers]
        /\ UNCHANGED <<link, user, view>>
    BY <1>15 DEF End
  <2>2. \A t \in peers : user[t] # None /\ user[t] # user[c]
    BY DEF Others, TypeInv, RegisteredOwn
  <2> HIDE DEF peers
  <2>3. /\ notify'[c] = peers /\ (peers # {} => pc'[c] = "farewell")
        /\ \A d \in Conns \ {c} : pc'[d] = pc[d] /\ notify'[d] = notify[d]
    BY <2>1 DEF TypeInv, TypeOK
  <2> QED
    BY <2>1, <2>2, <2>3 DEF ToldOthers
<1>16. CASE Crash
  BY <1>16, ToldFrame DEF Crash
<1>17. CASE UNCHANGED vars
  BY <1>17, ToldFrame DEF vars, ToldOthers
<1> QED
  BY <1>1, <1>2, <1>3, <1>4, <1>5, <1>6, <1>7, <1>8, <1>9, <1>10, <1>11, <1>12, <1>13, <1>14, <1>15, <1>16, <1>17
  DEF Next, Request, Handler

LEMMA StepViews ==
    TypeInv /\ FreshUnused /\ ToldOthers /\ ViewsExact /\ [Next]_vars => ViewsExact'
<1> SUFFICES ASSUME TypeInv, FreshUnused, ToldOthers, ViewsExact, [Next]_vars
             PROVE  ViewsExact'
  OBVIOUS
<1> USE RelayAssumption
<1>a. TypeOK /\ \A u \in Users : connected[u] # None =>
                   connected[u] \in Conns /\ user[connected[u]] = u
  BY DEF TypeInv, TypeOK, RegisteredOwn
<1>b. NoneClosed => \A c \in Conns : link[c] # "open" => link[c] = "fresh" /\ pc[c] = "new"
  BY DEF NoneClosed, FreshUnused, TypeInv, TypeOK
<1>c. NoneClosed => \A c \in Conns : pc[c] \notin {"ending", "farewell", "gone"}
  BY DEF ViewsExact
<1>1. ASSUME NEW c \in Conns, Connect(c)
      PROVE  ViewsExact'
  <2>1. /\ link[c] = "fresh" /\ pc[c] = "new" /\ pc'[c] = "idle" /\ link'[c] = "open"
        /\ \A d \in Conns \ {c} : pc'[d] = pc[d] /\ link'[d] = link[d]
        /\ UNCHANGED <<user, connected, view, notify>>
    BY <1>1 DEF Connect, FreshUnused, TypeInv, TypeOK
  <2>2. NoneClosed' => NoneClosed
    BY <2>1 DEF NoneClosed
  <2> QED
    BY <1>a, <1>c, <2>1, <2>2, ViewsFrame DEF ToTell
<1>2. ASSUME NEW c \in Conns, HangUp(c)
      PROVE  ViewsExact'
  <2>1. link'[c] = "closed"
    BY <1>2 DEF HangUp, TypeInv, TypeOK
  <2> QED
    BY <2>1 DEF ViewsExact, NoneClosed
<1>3. ASSUME NEW c \in Conns, Refuse(c)
      PROVE  ViewsExact'
  <2>1. /\ pc[c] = "idle" /\ pc'[c] = "error" /\ \A d \in Conns \ {c} : pc'[d] = pc[d]
        /\ UNCHANGED <<link, user, connected, view, notify>>
    BY <1>3 DEF Refuse, TypeInv, TypeOK
  <2>2. NoneClosed' => NoneClosed
    BY <2>1 DEF NoneClosed
  <2> QED
    BY <1>a, <1>c, <2>1, <2>2, ViewsFrame DEF ToTell
<1>4. ASSUME NEW c \in Conns, NEW u \in Users, SendMessage(c, u)
      PROVE  ViewsExact'
  <2>1. /\ pc[c] = "idle" /\ (link[c] = "open" => pc'[c] = "lookup")
        /\ \A d \in Conns \ {c} : pc'[d] = pc[d]
        /\ UNCHANGED <<link, user, connected, view, notify>>
    BY <1>4 DEF SendMessage, Answered, TypeInv, TypeOK
  <2>2. NoneClosed' => NoneClosed
    BY <2>1 DEF NoneClosed
  <2> QED
    BY <1>a, <1>b, <1>c, <2>1, <2>2, ViewsFrame DEF ToTell
<1>5. ASSUME NEW c \in Conns, PushRow(c)
      PROVE  ViewsExact'
  <2>1. UNCHANGED <<link, user, connected, view, notify, pc>>
    BY <1>5 DEF PushRow
  <2>2. NoneClosed' => NoneClosed
    BY <2>1 DEF NoneClosed
  <2> QED
    BY <1>a, <1>c, <2>1, <2>2, ViewsFrame DEF ToTell
<1>6. ASSUME NEW c \in Conns, PushFails(c)
      PROVE  ViewsExact'
  <2>1. /\ job[c].target \in Conns /\ link[job[c].target] = "closed" /\ link' = link
    BY <1>6 DEF PushFails, TypeInv, TypeOK, HandlersReady, JobType
  <2> QED
    BY <2>1 DEF ViewsExact, NoneClosed
<1>7. ASSUME NEW c \in Conns, ReportError(c)
      PROVE  ViewsExact'
  <2>1. /\ pc[c] = "error" /\ (link[c] = "open" => pc'[c] = "idle")
        /\ \A d \in Conns \ {c} : pc'[d] = pc[d]
        /\ UNCHANGED <<link, user, connected, view, notify>>
    BY <1>7 DEF ReportError, Answered, TypeInv, TypeOK
  <2>2. NoneClosed' => NoneClosed
    BY <2>1 DEF NoneClosed
  <2> QED
    BY <1>a, <1>b, <1>c, <2>1, <2>2, ViewsFrame DEF ToTell
<1>8. ASSUME NEW c \in Conns, NEW u \in Users, Login(c, u)
      PROVE  ViewsExact'
  <2> SUFFICES ASSUME NoneClosed'
               PROVE  ViewsExact'
    BY DEF ViewsExact
  <2>1. NoneClosed
    BY <1>8 DEF Login, NoneClosed
  <2>2. /\ pc[c] = "idle" /\ user[c] = None /\ view[c] = {}
        /\ user'[c] = u /\ u # None /\ c # None
        /\ \A d \in Conns \ {c} : user'[d] = user[d] /\ pc'[d] = pc[d]
        /\ connected'[u] = c
        /\ \A v \in Users \ {u} : connected'[v] = connected[v]
        /\ UNCHANGED <<link, notify, view>>
    BY <1>8 DEF Login, ToldOthers, TypeInv, TypeOK
  <2>3. pc'[c] = "snapshot"
    BY <1>8, <1>b, <2>1 DEF Login, Answered, TypeInv, TypeOK
  <2>4. /\ \A d \in Conns : pc'[d] \notin {"ending", "farewell", "gone"}
        /\ \A v \in Users : connected[v] # None => connected'[v] # None
    BY <1>c, <2>1, <2>2, <2>3
  <2>5. /\ \A d \in Conns : user[d] # None => user[d] \in Users /\ connected[user[d]] # None
        /\ \A d \in Conns : \A v \in view[d] :
              v \in Users /\ v # user[d] /\ connected[v] # None
    BY <2>1 DEF ViewsExact, TypeInv, TypeOK
  <2>6. /\ \A d \in Conns : user'[d] # None => connected'[user'[d]] # None
        /\ \A d \in Conns : \A v \in view'[d] : v # user'[d] /\ connected'[v] # None
    BY <2>2, <2>4, <2>5
  <2>7. ASSUME NEW w \in Users, NEW v \in Users \ {w},
               connected'[w] # None, connected'[v] # None
        PROVE  \/ v \in view'[connected'[w]]
               \/ pc'[connected'[w]] = "snapshot"
               \/ \E d \in Conns : user'[d] = v /\ ToTell(d, connected[w])'
    <3>1. CASE w = u
      BY <2>2, <2>3, <3>1
    <3>2. CASE v = u
      BY <2>2, <2>3, <3>2 DEF ToTell
    <3>3. CASE w # u /\ v # u
      <4>1. /\ connected'[w] = connected[w] /\ connected[w] # None /\ connected[v] # None
            /\ connected[w] \in Conns
        BY <1>a, <2>2, <2>7, <3>3
      <4>2. \/ v \in view[connected[w]]
            \/ pc[connected[w]] = "snapshot"
            \/ \E d \in Conns : user[d] = v /\ ToTell(d, connected[w])
        BY <2>1, <4>1 DEF ViewsExact
      <4>3. CASE v \in view[connected[w]]
        BY <2>2, <4>1, <4>3
      <4>4. CASE pc[connected[w]] = "snapshot"
        BY <2>2, <4>1, <4>4
      <4>5. CASE \E d \in Conns : user[d] = v /\ ToTell(d, connected[w])
        <5>1. PICK d \in Conns : user[d] = v /\ ToTell(d, connected[w])
          BY <4>5
        <5>2. d # c
          BY <2>2, <5>1 DEF ToTell
        <5>3. user'[d] = v /\ ToTell(d, connected[w])'
          BY <2>2, <4>1, <5>1, <5>2 DEF ToTell
        <5> QED
          BY <5>3
      <4> QED
        BY <4>2, <4>3, <4>4, <4>5
    <3> QED
      BY <3>1, <3>2, <3>3
  <2> QED
    BY <2>4, <2>6, <2>7 DEF ViewsExact, ToTell
<1>9. ASSUME NEW c \in Conns, Snapshot(c)
      PROVE  ViewsExact'
  <2> SUFFICES ASSUME NoneClosed'
               PROVE  ViewsExact'
    BY DEF ViewsExact
  <2>1. NoneClosed
    BY <1>9 DEF Snapshot, NoneClosed
  <2>2. /\ pc[c] = "snapshot" /\ user[c] \in Users
        /\ UNCHANGED <<link, user, connected, notify>>
        /\ \A d \in Conns \ {c} : pc'[d] = pc[d] /\ view'[d] = view[d]
    BY <1>9 DEF Snapshot, TypeInv, TypeOK, HandlersReady
  <2>3. link[c] = "open"
    BY <1>b, <2>1, <2>2
  <2>4. /\ pc'[c] = "deliver"
        /\ view'[c] = {v \in Users \ {user[c]} : connected[v] # None}
    BY <1>9, <2>3 DEF Snapshot, Answered, TypeInv, TypeOK
  <2>5. /\ \A d \in Conns : pc'[d] \notin {"ending", "farewell", "gone"}
        /\ \A d \in Conns : user'[d] # None => connected'[user'[d]] # None
        /\ \A d \in Conns : \A v \in view'[d] : v # user'[d] /\ connected'[v] # None
    BY <2>1, <2>2, <2>4 DEF ViewsExact
  <2>6. ASSUME NEW w \in Users, NEW v \in Users \ {w},
               connected[w] # None, connected[v] # None
        PROVE  \/ v \in view'[connected[w]]
               \/ pc'[connected[w]] = "snapshot"
               \/ \E d \in Conns : user[d] = v /\ ToTell(d, connected[w])'
    <3>1. connected[w] \in Conns /\ user[connected[w]] = w
      BY <1>a, <2>6
    <3>2. CASE connected[w] = c
      BY <2>4, <2>6, <3>1, <3>2
    <3>3. CASE connected[w] # c
      <4>1. \/ v \in view[connected[w]]
            \/ pc[connected[w]] = "snapshot"
            \/ \E d \in Conns : user[d] = v /\ ToTell(d, connected[w])
        BY <2>1, <2>6 DEF ViewsExact
      <4>2. CASE \E d \in Conns : user[d] = v /\ ToTell(d, connected[w])
        <5>1. PICK d \in Conns : user[d] = v /\ ToTell(d, connected[w])
          BY <4>2
        <5>2. ToTell(d, connected[w])'
          BY <2>2, <2>4, <5>1 DEF ToTell
        <5> QED
          BY <5>1, <5>2
      <4> QED
        BY <2>2, <3>1, <3>3, <4>1, <4>2
    <3> QED
      BY <3>2, <3>3
  <2> QED
    BY <2>2, <2>5, <2>6 DEF ViewsExact, ToTell
<1>10. ASSUME NEW c \in Conns, Deliver(c)
       PROVE  ViewsExact'
  <2>1. /\ pc[c] = "deliver" /\ user[c] \in Users /\ BeginLoop(c, c, user[c], TRUE)
        /\ UNCHANGED <<link, user, view, connected>>
    BY <1>10 DEF Deliver, TypeInv, TypeOK, HandlersReady
  <2>2. /\ pc'[c] \in {"idle", "announcing", "pushing", "delivering"}
        /\ \A d \in Conns \ {c} : pc'[d] = pc[d] /\ notify'[d] = notify[d]
        /\ \A w \in Users : connected[w] # None /\ user[c] # w =>
              \/ pc'[c] = "delivering"
              \/ pc'[c] = "announcing" /\ connected[w] \in notify'[c]
    BY <2>1, BeginLoopTells
  <2>3. NoneClosed' => NoneClosed
    BY <2>1 DEF NoneClosed
  <2> QED
    BY <1>a, <1>c, <2>1, <2>2, <2>3, ViewsFrame DEF ToTell
<1>11. ASSUME NEW c \in Conns, Lookup(c)
       PROVE  ViewsExact'
  <2>1. /\ pc[c] = "lookup" /\ job[c].to \in Users
        /\ UNCHANGED <<link, user, view, connected>>
        /\ connected[job[c].to] \in Conns \cup {None}
    BY <1>11 DEF Lookup, TypeInv, TypeOK, HandlersReady, JobType
  <2>2. /\ pc'[c] \in {"idle", "announcing", "pushing", "delivering"}
        /\ \A d \in Conns \ {c} : pc'[d] = pc[d] /\ notify'[d] = notify[d]
    <3>1. CASE connected[job[c].to] = None
      <4>1. AfterLoop(c, FALSE)
        BY <1>11, <3>1 DEF Lookup
      <4> QED
        BY <4>1, AfterLoopTells
    <3>2. CASE connected[job[c].to] # None
      <4>1. BeginLoop(c, connected[job[c].to], job[c].to, FALSE)
        BY <1>11, <3>2 DEF Lookup
      <4> QED
        BY <2>1, <3>2, <4>1, BeginLoopTells
    <3> QED
      BY <3>1, <3>2
  <2>3. NoneClosed' => NoneClosed
    BY <2>1 DEF NoneClosed
  <2> QED
    BY <1>a, <1>c, <2>1, <2>2, <2>3, ViewsFrame DEF ToTell
<1>12. ASSUME NEW c \in Conns, MarkDelivered(c)
       PROVE  ViewsExact'
  <2>1. /\ pc[c] \in Loops /\ AfterLoop(c, pc[c] = "delivering")
        /\ UNCHANGED <<link, user, view, connected>>
    BY <1>12 DEF MarkDelivered
  <2>2. /\ pc'[c] \in {"idle", "announcing"}
        /\ \A d \in Conns \ {c} : pc'[d] = pc[d] /\ notify'[d] = notify[d]
        /\ pc[c] = "delivering" => \A w \in Users : connected[w] # None /\ user[c] # w =>
              pc'[c] = "announcing" /\ connected[w] \in notify'[c]
    BY <2>1, AfterLoopTells
  <2>3. NoneClosed' => NoneClosed
    BY <2>1 DEF NoneClosed
  <2> QED
    BY <1>a, <1>c, <2>1, <2>2, <2>3, ViewsFrame DEF ToTell, Loops
<1>13. ASSUME NEW c \in Conns, Announce(c)
       PROVE  ViewsExact'
  <2> SUFFICES ASSUME NoneClosed'
               PROVE  ViewsExact'
    BY DEF ViewsExact
  <2>1. /\ NoneClosed /\ pc[c] = "announcing" /\ user[c] # None
        /\ UNCHANGED <<link, user, connected>>
    BY <1>13 DEF Announce, NoneClosed, TypeInv, HandlersReady
  <2>2. PICK t \in notify[c] :
          IF link[t] = "open"
            THEN /\ view' = [view EXCEPT ![t] = @ \cup {user[c]}]
                 /\ notify' = [notify EXCEPT ![c] = @ \ {t}]
                 /\ pc' = [pc EXCEPT ![c] = IF notify[c] = {t} THEN "idle" ELSE @]
            ELSE /\ notify' = [notify EXCEPT ![c] = {}]
                 /\ pc' = [pc EXCEPT ![c] = "error"]
                 /\ UNCHANGED view
    BY <1>13 DEF Announce
  <2>3. t \in Conns /\ user[t] # None /\ user[t] # user[c] /\ link[t] = "open"
    BY <1>b, <2>1, <2>2 DEF ToldOthers, TypeInv, TypeOK
  <2>4. /\ view'[t] = view[t] \cup {user[c]}
        /\ \A d \in Conns \ {t} : view'[d] = view[d]
        /\ notify'[c] = notify[c] \ {t}
        /\ pc'[c] = IF notify[c] = {t} THEN "idle" ELSE "announcing"
        /\ \A d \in Conns \ {c} : pc'[d] = pc[d] /\ notify'[d] = notify[d]
    BY <2>1, <2>2, <2>3 DEF TypeInv, TypeOK
  <2>5. /\ \A d \in Conns : pc'[d] \notin {"ending", "farewell", "gone"}
        /\ \A d \in Conns : user'[d] # None => connected'[user'[d]] # None
        /\ \A d \in Conns : \A v \in view'[d] : v # user'[d] /\ connected'[v] # None
    BY <2>1, <2>3, <2>4 DEF ViewsExact
  <2>6. ASSUME NEW w \in Users, NEW v \in Users \ {w},
               connected[w] # None, connected[v] # None
        PROVE  \/ v \in view'[connected[w]]
               \/ pc'[connected[w]] = "snapshot"
               \/ \E d \in Conns : user[d] = v /\ ToTell(d, connected[w])'
    <3>1. connected[w] \in Conns
      BY <1>a, <2>6
    <3>2. \/ v \in view[connected[w]]
          \/ pc[connected[w]] = "snapshot"
          \/ \E d \in Conns : user[d] = v /\ ToTell(d, connected[w])
      BY <2>1, <2>6 DEF ViewsExact
    <3>3. CASE v \in view[connected[w]]
      BY <2>4, <3>1, <3>3
    <3>4. CASE pc[connected[w]] = "snapshot"
      BY <2>1, <2>4, <3>1, <3>4
    <3>5. CASE \E d \in Conns : user[d] = v /\ ToTell(d, connected[w])
      <4>1. PICK d \in Conns : user[d] = v /\ ToTell(d, connected[w])
        BY <3>5
      <4>2. CASE d = c /\ connected[w] = t
        BY <2>4, <4>1, <4>2
      <4>3. CASE d = c /\ connected[w] # t
        <5>1. connected[w] \in notify[c]
          BY <2>1, <4>1, <4>3 DEF ToTell
        <5>2. pc'[c] = "announcing" /\ connected'[w] \in notify'[c]
          BY <2>1, <2>4, <4>3, <5>1
        <5> QED
          BY <4>1, <4>3, <5>2 DEF ToTell
      <4>4. CASE d # c
        <5>1. ToTell(d, connected[w])'
          BY <2>1, <2>4, <4>1, <4>4 DEF ToTell
        <5> QED
          BY <4>1, <5>1
      <4> QED
        BY <4>2, <4>3, <4>4
    <3> QED
      BY <3>2, <3>3, <3>4, <3>5
  <2> QED
    BY <2>1, <2>5, <2>6 DEF ViewsExact, ToTell
<1>14. ASSUME NEW c \in Conns, Farewell(c)
       PROVE  ViewsExact'
  <2>1. pc[c] = "farewell" /\ link' = link
    BY <1>14 DEF Farewell
  <2> QED
    BY <1>c, <2>1 DEF ViewsExact, NoneClosed
<1>15. ASSUME NEW c \in Conns, End(c)
       PROVE  ViewsExact'
  <2>1. pc[c] = "ending" \/ link[c] = "closed"
    BY <1>15 DEF End
  <2>2. link' = link
    BY <1>15 DEF End
  <2> QED
    BY <1>c, <2>1, <2>2 DEF ViewsExact, NoneClosed
<1>16. CASE Crash
  <2> SUFFICES ASSUME NoneClosed'
               PROVE  ViewsExact'
    BY DEF ViewsExact
  <2>1. \A c \in Conns : link[c] = "fresh" /\ pc'[c] = "new"
    BY <1>16 DEF Crash, NoneClosed
  <2>2. \A c \in Conns : user'[c] = None /\ view'[c] = {}
    BY <1>16, <2>1 DEF Crash, ToldOthers
  <2>3. \A u \in Users : connected'[u] = None
    BY <1>16 DEF Crash
  <2> QED
    BY <2>1, <2>2, <2>3 DEF ViewsExact
<1>17. CASE UNCHANGED vars
  <2>1. UNCHANGED <<link, user, connected, view, notify, pc>>
    BY <1>17 DEF vars
  <2>2. NoneClosed' => NoneClosed
    BY <2>1 DEF NoneClosed
  <2> QED
    BY <1>a, <1>c, <2>1, <2>2, ViewsFrame DEF ToTell
<1> QED
  BY <1>1, <1>2, <1>3, <1>4, <1>5, <1>6, <1>7, <1>8, <1>9, <1>10, <1>11, <1>12, <1>13, <1>14, <1>15, <1>16, <1>17
  DEF Next, Request, Handler

(* As long as nobody has left, a client whose login is complete and to whom  *)
(* nobody is about to announce anything shows exactly the users registered   *)
(* on the server (server.py:104-114): however many log in at once, each is   *)
(* in the other's snapshot or is announced to it.                            *)
THEOREM RelayPresenceExact == Spec => []PresenceExactBeforeDepartures
<1>1. Init => TypeInv /\ FreshUnused /\ ToldOthers /\ ViewsExact
  <2>1. Init => FreshUnused /\ ToldOthers /\ ViewsExact
    BY DEF Init, FreshUnused, ToldOthers, ViewsExact
  <2> QED
    BY <2>1, InitTypeInv
<1>2. TypeInv /\ FreshUnused /\ ToldOthers /\ ViewsExact /\ [Next]_vars
        => (TypeInv /\ FreshUnused /\ ToldOthers /\ ViewsExact)'
  BY StepTypeInv, StepFreshUnused, StepTold, StepViews
<1>3. TypeInv /\ ToldOthers /\ ViewsExact => PresenceExactBeforeDepartures
  <2> SUFFICES ASSUME TypeInv, ToldOthers, ViewsExact,
                      \A c \in Conns : link[c] # "closed" /\ pc[c] \in {"new", "idle"},
                      NEW u \in Users, connected[u] # None
               PROVE  view[connected[u]] = {v \in Users \ {u} : connected[v] # None}
    BY DEF PresenceExactBeforeDepartures
  <2>1. connected[u] \in Conns /\ user[connected[u]] = u
    BY DEF TypeInv, TypeOK, RegisteredOwn
  <2>2. view[connected[u]] \subseteq Users
    BY <2>1 DEF TypeInv, TypeOK
  <2>3. \A d \in Conns : \A c : ~ToTell(d, c)
    BY DEF ToTell
  <2>4. NoneClosed
    BY DEF NoneClosed
  <2>5. \A v \in view[connected[u]] : v # u /\ connected[v] # None
    BY <2>1, <2>4 DEF ViewsExact
  <2>6. \A v \in Users \ {u} : connected[v] # None => v \in view[connected[u]]
    BY <2>1, <2>3, <2>4 DEF ViewsExact
  <2> QED
    BY <2>2, <2>5, <2>6
<1> QED
  BY <1>1, <1>2, <1>3, PTL DEF Spec

-----------------------------------------------------------------------------

(* A step that leaves mailbox, sessions and deliveries alone is a stutter of *)
(* the abstract mailbox.                                                     *)
LEMMA PromiseStutter ==
    ASSUME UNCHANGED <<user, mail, delivered, pushed>>
    PROVE  UNCHANGED Promise!vars
BY DEF Promise!vars, Ids

LEMMA PromiseStep == IInv /\ [Next]_vars => [Promise!Next]_Promise!vars
<1> SUFFICES ASSUME IInv, [Next]_vars
             PROVE  Promise!Next \/ UNCHANGED Promise!vars
  OBVIOUS
<1> USE RelayAssumption
<1>1. ASSUME NEW c \in Conns, NEW u \in Users, Login(c, u)
      PROVE  Promise!Next
  <2>1. Promise!Own(c, u)
    BY <1>1 DEF Login, Promise!Own, Ids
  <2> QED
    BY <2>1 DEF Promise!Next
<1>2. ASSUME NEW c \in Conns, NEW u \in Users, SendMessage(c, u)
      PROVE  Promise!Next
  <2> DEFINE to == [i \in Ids |-> mail[i].to]
  <2>1. /\ Ids = 1..Len(mail)
        /\ Len(mail) \in Nat
        /\ Ids' = 1..(Len(mail) + 1)
        /\ \A i \in Ids : mail'[i] = mail[i]
        /\ mail'[Len(mail) + 1] = [to |-> u, via |-> c]
    BY <1>2 DEF SendMessage, IInv, TypeInv, TypeOK, Ids
  <2>2. \A i \in Ids : mail[i].to \in Users
    <3> DEFINE Row == [to : Users, via : Conns]
    <3>1. mail \in Seq(Row) /\ Ids = DOMAIN mail
      BY DEF IInv, TypeInv, TypeOK, Ids
    <3> HIDE DEF Row
    <3>2. \A i \in Ids : mail[i] \in Row
      BY <3>1
    <3> QED
      BY <3>2 DEF Row
  <2>3. [i \in Ids' |-> mail'[i].to] = Append(to, u)
    <3>1. to \in Seq(Users) /\ Len(to) = Len(mail)
      BY <2>1, <2>2
    <3>2. /\ DOMAIN Append(to, u) = 1..(Len(mail) + 1)
          /\ Append(to, u)[Len(mail) + 1] = u
          /\ \A i \in 1..Len(mail) : Append(to, u)[i] = mail[i].to
      BY <2>1, <3>1
    <3>3. Append(to, u) = [i \in 1..(Len(mail) + 1) |-> Append(to, u)[i]]
      <4>1. Append(to, u) \in Seq(Users)
        BY <3>1, AppendProperties
      <4> HIDE DEF to
      <4>2. Append(to, u) \in [1..Len(Append(to, u)) -> Users]
        BY <4>1, LenProperties
      <4> QED
        BY <3>2, <4>2
    <3>4. \A i \in 1..(Len(mail) + 1) : mail'[i].to = Append(to, u)[i]
      BY <2>1, <3>2
    <3> QED
      BY <2>1, <3>3, <3>4
  <2>4. Promise!Accept(u)
    BY <1>2, <2>3 DEF SendMessage, Promise!Accept
  <2> QED
    BY <2>4 DEF Promise!Next
<1>3. ASSUME NEW c \in Conns, PushRow(c)
      PROVE  Promise!Next
  <2> DEFINE t == job[c].target
  <2>1. PICK row \in job[c].left :
          /\ pc[c] \in Loops
          /\ \A j \in job[c].left : row <= j
          /\ pushed' = [pushed EXCEPT ![t] = @ \cup {row}]
          /\ UNCHANGED <<user, mail, delivered>>
    BY <1>3 DEF PushRow, Oldest
  <2>2. /\ t \in Conns
        /\ user[t] = job[c].to
        /\ job[c].all \subseteq Ids
        /\ job[c].left \subseteq job[c].all
        /\ Ids \subseteq Nat
    <3>1. job[c] \in JobType
      BY DEF IInv, TypeInv, TypeOK
    <3>2. t \in Conns /\ user[t] = job[c].to
      BY <2>1, <3>1 DEF IInv, TypeInv, HandlersReady, JobType
    <3>3. job[c].left \subseteq job[c].all
      BY <2>1 DEF IInv, OrderInv, LoopsComplete
    <3> QED
      BY <3>1, <3>2, <3>3 DEF IInv, TypeInv, TypeOK, JobType, Ids
  <2>3. row \in Ids /\ mail[row].to = user[t]
    BY <2>1, <2>2 DEF IInv, OrderInv, LoopsComplete
  <2>4. \A j \in 1..(row - 1) :
          mail[j].to = mail[row].to => j \in pushed[t] \cup delivered
    <3> SUFFICES ASSUME NEW j \in 1..(row - 1), mail[j].to = mail[row].to
                 PROVE  j \in pushed[t] \cup delivered
      OBVIOUS
    <3>1. j \in Ids /\ j < row
      BY <2>2, <2>3 DEF IInv, TypeInv, TypeOK, Ids
    <3>2. j \in job[c].all \cup delivered
      BY <2>1, <2>2, <2>3, <3>1 DEF IInv, OrderInv, LoopsComplete
    <3>3. j \notin job[c].left
      BY <2>1, <2>2, <2>3, <3>1
    <3> QED
      BY <2>1, <3>2, <3>3 DEF IInv, OrderInv, LoopsComplete
  <2>5. Promise!Due(t, row)
    <3>1. \A j \in 1..(row - 1) : j \in Ids
      BY <2>2, <2>3 DEF IInv, TypeInv, TypeOK, Ids
    <3> QED
      BY <2>3, <2>4, <3>1 DEF Promise!Due
  <2>6. Promise!Show(t, row)
    BY <2>1, <2>3, <2>5 DEF Promise!Show, Ids
  <2> QED
    BY <2>2, <2>3, <2>6 DEF Promise!Next
<1>4. ASSUME NEW c \in Conns, MarkDelivered(c)
      PROVE  Promise!Next
  <2>1. /\ pc[c] \in Loops
        /\ job[c].left = {}
        /\ delivered' = delivered \cup job[c].all
        /\ UNCHANGED <<user, mail, pushed>>
    BY <1>4 DEF MarkDelivered
  <2>2. job[c] \in JobType
    BY DEF IInv, TypeInv, TypeOK
  <2>3. job[c].all \subseteq Ids /\ job[c].target \in Conns
    BY <2>1, <2>2 DEF JobType, IInv, TypeInv, HandlersReady
  <2>4. job[c].all \subseteq pushed[job[c].target]
    BY <2>1 DEF IInv, OrderInv, LoopsComplete
  <2>5. Promise!Settle(job[c].all)
    BY <2>1, <2>3, <2>4 DEF Promise!Settle, Ids
  <2> QED
    BY <2>3, <2>5 DEF Promise!Next
<1>5. ASSUME NEW c \in Conns, Connect(c)
      PROVE  UNCHANGED Promise!vars
  BY <1>5, PromiseStutter DEF Connect
<1>6. ASSUME NEW c \in Conns, HangUp(c)
      PROVE  UNCHANGED Promise!vars
  BY <1>6, PromiseStutter DEF HangUp
<1>7. ASSUME NEW c \in Conns, Refuse(c)
      PROVE  UNCHANGED Promise!vars
  BY <1>7, PromiseStutter DEF Refuse
<1>8. ASSUME NEW c \in Conns, Snapshot(c)
      PROVE  UNCHANGED Promise!vars
  BY <1>8, PromiseStutter DEF Snapshot
<1>9. ASSUME NEW c \in Conns, Deliver(c)
      PROVE  UNCHANGED Promise!vars
  BY <1>9, PromiseStutter DEF Deliver
<1>10. ASSUME NEW c \in Conns, Lookup(c)
      PROVE  UNCHANGED Promise!vars
  BY <1>10, PromiseStutter DEF Lookup
<1>11. ASSUME NEW c \in Conns, PushFails(c)
      PROVE  UNCHANGED Promise!vars
  BY <1>11, PromiseStutter DEF PushFails
<1>12. ASSUME NEW c \in Conns, Announce(c)
      PROVE  UNCHANGED Promise!vars
  BY <1>12, PromiseStutter DEF Announce
<1>13. ASSUME NEW c \in Conns, ReportError(c)
      PROVE  UNCHANGED Promise!vars
  BY <1>13, PromiseStutter DEF ReportError
<1>14. ASSUME NEW c \in Conns, End(c)
      PROVE  UNCHANGED Promise!vars
  BY <1>14, PromiseStutter DEF End
<1>15. ASSUME NEW c \in Conns, Farewell(c)
      PROVE  UNCHANGED Promise!vars
  BY <1>15, PromiseStutter DEF Farewell
<1>16. CASE Crash
  BY <1>16, PromiseStutter DEF Crash
<1>17. CASE UNCHANGED vars
  BY <1>17, PromiseStutter DEF vars
<1> QED
  BY <1>1, <1>2, <1>3, <1>4, <1>5, <1>6, <1>7, <1>8, <1>9, <1>10, <1>11, <1>12, <1>13, <1>14, <1>15, <1>16, <1>17
  DEF Next, Request, Handler

(* The relay implements the abstract mailbox: in-order, at-least-once,       *)
(* only to the recipient, and settled only once shown (server.py:149-180,    *)
(* db.py:168-191).                                                           *)
THEOREM RelayKeepsPromise == Spec => KeepsPromise
<1>1. Init => Promise!Init
  BY DEF Init, Promise!Init, Ids
<1> QED
  BY <1>1, Invariance, PromiseStep, PTL DEF Spec, KeepsPromise, Promise!Spec

=============================================================================
