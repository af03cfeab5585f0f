------------------------------ MODULE Groups ------------------------------
(***************************************************************************)
(* One group conversation (client/session_manager.py, client/storage.py):  *)
(* every client keeps its own copy of the roster and changes it by control *)
(* envelopes that are sent to the members one after the other, each by the *)
(* pairwise session.  The relay keeps one mailbox per recipient, in the    *)
(* order in which it stored the envelopes, whoever sent them.              *)
(*                                                                         *)
(* The order in which a fan-out visits the roster is that of the names; as *)
(* names are abstract here, any order.  A user has one fan-out at a time:   *)
(* operations of one user that overlap are left out.  In the browser engine *)
(* a user may handle several envelopes at once.                            *)
(***************************************************************************)
EXTENDS Integers, Sequences, FiniteSets

CONSTANTS Users,
          Contacts,   (* pairs <<u, v>>: u has a chat with v besides       *)
          MaxOps,     (* bound: changes of the membership, new pictures,   *)
                      (* and envelopes that are taken out of turn          *)
          MaxTexts,   (* bound: texts sent to the group                    *)
          MaxInHand,  (* bound: envelopes a user handles at once           *)
          MaxFails    (* bound: fan-outs that break off                    *)

ASSUME GroupsAssumption ==
    /\ Contacts \subseteq Users \X Users
    /\ MaxOps \in Nat
    /\ MaxTexts \in Nat
    /\ MaxInHand \in Nat
    /\ MaxFails \in Nat

VARIABLES
    named,     (* user -> "none", the group's "name", or "unknown"           *)
    roster,    (* user -> its copy of the members                            *)
    job,       (* user -> rounds of envelopes its operation has yet to send  *)
    mailbox,   (* user -> envelopes the relay stored and it has not handled  *)
    missed,    (* user -> places of those for which it has found no group    *)
    shown,     (* user -> texts in its history that are not deleted          *)
    pictures,  (* user -> user -> number of the picture it has of the other, *)
               (* to whom the last ones began to be sent (history), how many *)
    author,    (* text -> who wrote it; its domain is the texts so far       *)
    retracted, (* texts their author deleted for everyone (history)          *)
    members,   (* who the operations so far make a member (history)          *)
    left,      (* users who were removed at some time (history)              *)
    calm,      (* each change was a member's, alone, and went through (history) *)
    rejoined,  (* a former member was added again (history)                  *)
    early,     (* a text was written before the founder's invitations were out *)
    overtaken, (* <<user, envelope>> that a later one overtook there (history) *)
    ops, overlaps, fails

vars == <<named, roster, job, mailbox, missed, shown, author, retracted, members, left,
          calm, rejoined, early, overtaken, pictures, ops, overlaps, fails>>

AtRest == \A u \in Users : job[u] = <<>> /\ mailbox[u] = <<>>

(* A round of a fan-out: none if there is nobody to go to.                   *)
Round(envelope, to) == IF to = {} THEN <<>> ELSE <<[envelope |-> envelope, to |-> to]>>

Invite(u, name, who) == [type |-> "invite", from |-> u, name |-> name, members |-> who]
Added(u, w)   == [type |-> "added", from |-> u, who |-> w]
Removed(u, w) == [type |-> "removed", from |-> u, who |-> w]
Text(u, i)    == [type |-> "text", from |-> u, id |-> i]
Delete(u, i)  == [type |-> "delete", from |-> u, id |-> i]
Picture(u, i) == [type |-> "picture", from |-> u, id |-> i]

(* Bound: a change, a new picture or an envelope out of turn is left.        *)
Spare == ops + pictures.set + overlaps < MaxOps

-----------------------------------------------------------------------------

Init ==
    /\ named = [u \in Users |-> "none"]
    /\ roster = [u \in Users |-> {}]
    /\ job = [u \in Users |-> <<>>]
    /\ mailbox = [u \in Users |-> <<>>]
    /\ missed = [u \in Users |-> {}]
    /\ shown = [u \in Users |-> {}]
    /\ author = <<>>
    /\ retracted = {}
    /\ members = {}
    /\ left = {}
    /\ calm = TRUE
    /\ rejoined = FALSE
    /\ early = FALSE
    /\ overtaken = {}
    /\ pictures = [has |-> [u \in Users |-> [w \in Users |-> 0]],
                   told |-> [u \in Users |-> {}], set |-> 0]
    /\ ops = 0 /\ overlaps = 0 /\ fails = 0

(* create_group, up to its first invitation.                                 *)
CreateGroup(u, others) ==
    LET all == others \cup {u}
    IN  /\ job[u] = <<>>
        /\ members = {} /\ left = {}
        /\ named' = [named EXCEPT ![u] = "name"]
        /\ roster' = [roster EXCEPT ![u] = all]
        /\ job' = [job EXCEPT ![u] = Round(Invite(u, "name", all), all \ {u})]
        /\ members' = all
        /\ UNCHANGED <<mailbox, missed, shown, author, retracted, left, calm,
                       rejoined, early, overtaken, pictures, ops, overlaps,
                       fails>>

(* Mutant of AddMember: the members hear of the newcomer before he does.     *)
AddMemberNoticeFirst(u, w) ==
    LET current == roster[u]
    IN  /\ named[u] # "none" /\ job[u] = <<>>
        /\ Spare
        /\ w \notin current
        /\ roster' = [roster EXCEPT ![u] = current \cup {w}]
        /\ job' = [job EXCEPT ![u] =
                     Round(Added(u, w), current \ {u})
                     \o Round(Invite(u, named[u], current \cup {w}), {w} \ {u})]
        /\ members' = members \cup {w}
        /\ calm' = (calm /\ AtRest /\ u \in members)
        /\ rejoined' = (rejoined \/ w \in left)
        /\ ops' = ops + 1
        /\ UNCHANGED <<named, mailbox, missed, shown, author, retracted,
                       left, early, overtaken, pictures, overlaps, fails>>

(* add_group_member: the newcomer's invitation first, with the new roster,   *)
(* then a notice to everybody who was on the old one.  (Who adds himself     *)
(* back invites himself, which changes nothing.)                             *)
AddMember(u, w) ==
    LET current == roster[u]
    IN  /\ named[u] # "none" /\ job[u] = <<>>
        /\ Spare
        /\ w \notin current
        /\ roster' = [roster EXCEPT ![u] = current \cup {w}]
        /\ job' = [job EXCEPT ![u] =
                     Round(Invite(u, named[u], current \cup {w}), {w} \ {u})
                     \o Round(Added(u, w), current \ {u})]
        /\ members' = members \cup {w}
        /\ calm' = (calm /\ AtRest /\ u \in members)
        /\ rejoined' = (rejoined \/ w \in left)
        /\ ops' = ops + 1
        /\ UNCHANGED <<named, mailbox, missed, shown, author, retracted,
                       left, early, overtaken, pictures, overlaps, fails>>

(* Mutant of RemoveMember: who leaves sends the notice to himself as well.   *)
RemoveMemberSelfToo(u, w) ==
    /\ named[u] # "none" /\ job[u] = <<>>
    /\ Spare
    /\ w \in roster[u]
    /\ roster' = [roster EXCEPT ![u] = @ \ {w}]
    /\ job' = [job EXCEPT ![u] = Round(Removed(u, w), roster[u])]
    /\ members' = members \ {w}
    /\ left' = left \cup {w}
    /\ calm' = (calm /\ AtRest /\ u \in members)
    /\ ops' = ops + 1
    /\ UNCHANGED <<named, mailbox, missed, shown, author, retracted,
                   rejoined, early, overtaken, pictures, overlaps, fails>>

(* remove_group_member, also by the one who leaves: a notice to everybody    *)
(* who was on the old roster, the removed one included.                      *)
RemoveMember(u, w) ==
    /\ named[u] # "none" /\ job[u] = <<>>
    /\ Spare
    /\ w \in roster[u]
    /\ roster' = [roster EXCEPT ![u] = @ \ {w}]
    /\ job' = [job EXCEPT ![u] = Round(Removed(u, w), roster[u] \ {u})]
    /\ members' = members \ {w}
    /\ left' = left \cup {w}
    /\ calm' = (calm /\ AtRest /\ u \in members)
    /\ ops' = ops + 1
    /\ UNCHANGED <<named, mailbox, missed, shown, author, retracted,
                   rejoined, early, overtaken, pictures, overlaps, fails>>

(* The founder is still inviting the first members.                          *)
Founding == ops = 0 /\ \E w \in Users : job[w] # <<>> /\ job[w][1].envelope.type = "invite"

(* send_text: refused to those who are not on their own roster.  The text    *)
(* enters the sender's own history after the last send.                      *)
SendText(u) ==
    LET i == Len(author) + 1
        others == roster[u] \ {u}
    IN  /\ job[u] = <<>>
        /\ u \in roster[u]
        /\ i <= MaxTexts
        /\ author' = Append(author, u)
        /\ job' = [job EXCEPT ![u] = Round(Text(u, i), others)]
        /\ shown' = IF others = {} THEN [shown EXCEPT ![u] = @ \cup {i}] ELSE shown
        /\ early' = (early \/ Founding)
        /\ UNCHANGED <<named, roster, mailbox, missed, retracted, members,
                       left, calm, rejoined, overtaken, pictures, ops,
                       overlaps, fails>>

(* delete_message: the author marks its own row, then tells its roster.      *)
DeleteText(u, i) ==
    /\ job[u] = <<>>
    /\ i \in DOMAIN author /\ author[i] = u
    /\ i \in shown[u]
    /\ shown' = [shown EXCEPT ![u] = @ \ {i}]
    /\ retracted' = retracted \cup {i}
    /\ job' = [job EXCEPT ![u] = Round(Delete(u, i), roster[u] \ {u})]
    /\ UNCHANGED <<named, roster, mailbox, missed, author, members, left,
                   calm, rejoined, early, overtaken, pictures, ops, overlaps,
                   fails>>

(* knownRecipients: everybody the user has a chat or the group with.         *)
KnownRecipients(u) == {w \in Users : <<u, w>> \in Contacts} \cup roster[u]

(* setProfilePicture: for the user itself, then for all it knows.            *)
SetProfilePicture(u) ==
    LET to == KnownRecipients(u) \ {u}
        i == pictures.has[u][u] + 1
    IN  /\ job[u] = <<>>
        /\ Spare
        /\ pictures' = [pictures EXCEPT !.has[u][u] = i, !.told[u] = to, !.set = @ + 1]
        /\ job' = [job EXCEPT ![u] = Round(Picture(u, i), to)]
        /\ UNCHANGED <<named, roster, mailbox, missed, shown, author,
                       retracted, members, left, calm, rejoined, early,
                       overtaken, ops, overlaps, fails>>

(* One send of a fan-out.                                                    *)
Send(u) ==
    /\ job[u] # <<>>
    /\ \E v \in job[u][1].to :
         LET envelope == job[u][1].envelope
             rest == Round(envelope, job[u][1].to \ {v}) \o Tail(job[u])
         IN  /\ mailbox' = [mailbox EXCEPT ![v] = Append(@, envelope)]
             /\ job' = [job EXCEPT ![u] = rest]
             /\ shown' = IF envelope.type = "text" /\ rest = <<>>
                           THEN [shown EXCEPT ![u] = @ \cup {envelope.id}]
                           ELSE shown
    /\ UNCHANGED <<named, roster, missed, author, retracted, members, left,
                   calm, rejoined, early, overtaken, pictures, ops, overlaps,
                   fails>>

(* A send throws: the rest of the fan-out never happens.                    *)
BreakOff(u) ==
    /\ job[u] # <<>>
    /\ fails < MaxFails
    /\ fails' = fails + 1
    /\ job' = [job EXCEPT ![u] = <<>>]
    /\ calm' = FALSE
    /\ UNCHANGED <<named, roster, mailbox, missed, shown, author, retracted,
                   members, left, rejoined, early, overtaken, pictures, ops,
                   overlaps>>

-----------------------------------------------------------------------------

(* The envelopes in hand.  The callback of the browser engine starts the     *)
(* handling of a pushed envelope and does not wait for the one before        *)
(* (webApi.ts:60-62).                                                        *)
InHand(v) == {k \in DOMAIN mailbox[v] : k <= MaxInHand}

(* The k-th envelope gets past those before it (noted where the order        *)
(* matters: a deletion or a notice does nothing for who comes later).        *)
Overtakes(v, k) ==
    overtaken' = overtaken \cup
        {<<v, mailbox[v][j]>> : j \in {i \in 1..k - 1 :
            mailbox[v][i].type \in {"invite", "text", "picture"}}}

(* Bound: to take an envelope that is not the next one counts as a change.   *)
InTurnOrSpare(k) ==
    /\ k > 1 => Spare
    /\ overlaps' = IF k > 1 THEN overlaps + 1 ELSE overlaps

NeedsGroup(e) == e.type \notin {"invite", "picture"}

(* handle_incoming finds no group for the envelope,                          *)
Miss(v, k) ==
    /\ k \in InHand(v) \ missed[v]
    /\ NeedsGroup(mailbox[v][k]) /\ named[v] = "none"
    /\ InTurnOrSpare(k)
    /\ missed' = [missed EXCEPT ![v] = @ \cup {k}]
    /\ UNCHANGED <<named, roster, job, mailbox, shown, author, retracted,
                   members, left, calm, rejoined, early, overtaken, pictures,
                   ops, fails>>

(* Mutant of Degrade: create_group replaces the roster of a group that is    *)
(* there by then.                                                            *)
DegradeNewRoster(v, k) ==
    /\ k \in missed[v]
    /\ missed' = [missed EXCEPT ![v] = @ \ {k}]
    /\ named' = [named EXCEPT ![v] = IF @ = "none" THEN "unknown" ELSE @]
    /\ roster' = [roster EXCEPT ![v] = {mailbox[v][k].from, v}]
    /\ Overtakes(v, k)
    /\ UNCHANGED <<job, mailbox, shown, author, retracted, members, left,
                   calm, rejoined, early, pictures, ops, overlaps, fails>>

(* and some time later makes one, or adds to the one that is there by then:  *)
(* create_group only ever adds, and leaves a name as it is.                  *)
Degrade(v, k) ==
    /\ k \in missed[v]
    /\ missed' = [missed EXCEPT ![v] = @ \ {k}]
    /\ named' = [named EXCEPT ![v] = IF @ = "none" THEN "unknown" ELSE @]
    /\ roster' = [roster EXCEPT ![v] = @ \cup {mailbox[v][k].from, v}]
    /\ Overtakes(v, k)
    /\ UNCHANGED <<job, mailbox, shown, author, retracted, members, left,
                   calm, rejoined, early, pictures, ops, overlaps, fails>>

(* create_group, add_group_member and remove_group_member of the storage.    *)
NewRoster(v, e) ==
    CASE e.type = "invite"  -> roster[v] \cup e.members
      [] e.type = "added"   -> roster[v] \cup {e.who}
      [] e.type = "removed" -> roster[v] \ {e.who}
      [] OTHER              -> roster[v]

(* Mutant of Handle: a picture that is there already is kept.                *)
HandleFirstPicture(v, e) ==
    /\ named' = [named EXCEPT ![v] = IF e.type = "invite" /\ @ = "none" THEN e.name ELSE @]
    /\ roster' = [roster EXCEPT ![v] = NewRoster(v, e)]
    /\ shown' = [shown EXCEPT ![v] = CASE e.type = "text"   -> @ \cup {e.id}
                                       [] e.type = "delete" -> @ \ {e.id}
                                       [] OTHER             -> @]
    /\ pictures' = IF e.type = "picture" /\ pictures.has[v][e.from] = 0
                     THEN [pictures EXCEPT !.has[v][e.from] = e.id] ELSE pictures

(* What the handler of the envelope's type writes.                           *)
Handle(v, e) ==
    /\ named' = [named EXCEPT ![v] = IF e.type = "invite" /\ @ = "none" THEN e.name ELSE @]
    /\ roster' = [roster EXCEPT ![v] = NewRoster(v, e)]
    /\ shown' = [shown EXCEPT ![v] = CASE e.type = "text"   -> @ \cup {e.id}
                                       [] e.type = "delete" -> @ \ {e.id}
                                       [] OTHER             -> @]
    /\ pictures' = IF e.type = "picture" THEN [pictures EXCEPT !.has[v][e.from] = e.id]
                                         ELSE pictures

(* q without its k-th element.                                               *)
Without(q, k) == [i \in 1..Len(q) - 1 |-> IF i < k THEN q[i] ELSE q[i + 1]]

(* Mutant of Receive: the envelope stored last is handled first.             *)
ReceiveLast(v, k) ==
    LET n == Len(mailbox[v])
    IN  /\ k = 1 /\ n \in DOMAIN mailbox[v] \ missed[v]
        /\ NeedsGroup(mailbox[v][n]) => named[v] # "none"
        /\ Handle(v, mailbox[v][n])
        /\ mailbox' = [mailbox EXCEPT ![v] = Without(@, n)]
        /\ UNCHANGED <<job, missed, author, retracted, members, left, calm,
                       rejoined, early, overtaken, ops, overlaps, fails>>

(* The handler of the k-th envelope in hand writes, and is done with it.     *)
Receive(v, k) ==
    /\ k \in InHand(v) \ missed[v]
    /\ NeedsGroup(mailbox[v][k]) => named[v] # "none"
    /\ InTurnOrSpare(k)
    /\ Handle(v, mailbox[v][k])
    /\ mailbox' = [mailbox EXCEPT ![v] = Without(@, k)]
    /\ missed' = [missed EXCEPT ![v] = {IF j < k THEN j ELSE j - 1 : j \in @}]
    /\ Overtakes(v, k)
    /\ UNCHANGED <<job, author, retracted, members, left, calm, rejoined,
                   early, ops, fails>>

Next ==
    \E u \in Users :
        \/ \E others \in SUBSET Users : CreateGroup(u, others)
        \/ \E w \in Users : AddMember(u, w) \/ RemoveMember(u, w)
        \/ SendText(u) \/ SetProfilePicture(u)
        \/ \E i \in 1..MaxTexts : DeleteText(u, i)
        \/ Send(u)
        \/ BreakOff(u)
        \/ \E k \in 1..MaxInHand : Miss(u, k) \/ Degrade(u, k) \/ Receive(u, k)

Spec == Init /\ [][Next]_vars

-----------------------------------------------------------------------------

Envelopes ==
    [type : {"invite"}, from : Users, name : {"name", "unknown"}, members : SUBSET Users]
    \cup [type : {"added", "removed"}, from : Users, who : Users]
    \cup [type : {"text", "delete"}, from : Users, id : 1..MaxTexts]
    \cup [type : {"picture"}, from : Users, id : 1..MaxOps]

(* Rosters belong to known groups, operations in hand have somebody left to  *)
(* send to, and no envelope is addressed to its own sender                   *)
(* (session_manager.py:151-213).                                             *)
TypeOK ==
    /\ named \in [Users -> {"none", "name", "unknown"}]
    /\ roster \in [Users -> SUBSET Users]
    /\ \A u \in Users : named[u] = "none" => roster[u] = {} /\ shown[u] = {}
    /\ \A u \in Users : \A k \in DOMAIN job[u] :
          /\ job[u][k].envelope \in Envelopes
          /\ job[u][k].to \in (SUBSET (Users \ {u})) \ {{}}
    /\ \A u \in Users : \A k \in DOMAIN mailbox[u] :
          mailbox[u][k] \in Envelopes /\ mailbox[u][k].from # u
    /\ \A u \in Users : \A k \in missed[u] :
          k \in DOMAIN mailbox[u] /\ NeedsGroup(mailbox[u][k])
    /\ author \in Seq(Users)
    /\ shown \in [Users -> SUBSET DOMAIN author]
    /\ retracted \subseteq DOMAIN author
    /\ pictures.has \in [Users -> [Users -> 0..MaxOps]]
    /\ pictures.told \in [Users -> SUBSET Users]
    /\ members \subseteq Users /\ left \subseteq Users
    /\ calm \in BOOLEAN /\ rejoined \in BOOLEAN /\ early \in BOOLEAN

(* Every client's copy is what the operations made of the group: a member's  *)
(* roster is the membership, and a former member knows it is out.            *)
InSync ==
    /\ \A u \in members : roster[u] = members
    /\ \A u \in Users \ members : u \notin roster[u]

(* README.md:65-67: "control envelopes keep everyone's roster in sync".      *)
(* They do, whatever texts and deletions cross them, if every change of the  *)
(* membership is made by a member, one at a time, none breaks off, and       *)
(* nobody who was removed is added again: an invitation only ever adds to    *)
(* the roster a former member still has (session_manager.py:151-213, 282-331,*)
(* storage.py:286-295).                                                      *)
RostersInSync == AtRest /\ calm /\ ~rejoined => InSync

(* The placeholder name is only used by a client that got a text of another  *)
(* member before the founder's invitation, or that made the group for a text *)
(* while it had the invitation in hand: the relay stores the invitation of   *)
(* an addition before anything else for the newcomer                         *)
(* (session_manager.py:183-194, 273-278; sessionManager.ts:329-349, 373).    *)
NameKnownAfterFounding ==
    calm /\ ~early /\ (\A x \in overtaken : x[2].type # "invite") =>
        \A u \in Users : named[u] # "unknown"

(* README.md:70-71: "both sides remove it locally".  A text its author       *)
(* deleted is gone from every member's history once all envelopes arrived,   *)
(* also if members came and went in between (session_manager.py:142-147),    *)
(* unless something was done with before the text in that member's hands, as *)
(* a deletion that comes first finds nothing to mark (storage.ts:393-405).   *)
DeletedForEveryMember ==
    AtRest /\ calm /\ ~rejoined =>
        \A i \in retracted : \A u \in members :
            <<u, Text(author[i], i)>> \in overtaken \/ i \notin shown[u]

(* README.md:75-78: a new picture is sent to everybody the user has a chat   *)
(* or a group with.  Who was among them when it was set ends up with the     *)
(* last one, whatever else was under way, unless a fan-out broke off, or     *)
(* something was done with before one of the pictures in that user's hands   *)
(* (sessionManager.ts:268-286, 377-382).                                     *)
LastPictureArrives ==
    AtRest /\ fails = 0 =>
        \A u \in Users : \A w \in pictures.told[u] :
            \/ \E i \in 1..MaxOps : <<w, Picture(u, i)>> \in overtaken
            \/ pictures.has[w][u] = pictures.has[u][u]
=============================================================================
