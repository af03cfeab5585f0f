--------------------------- MODULE GroupsProofs ---------------------------
(***************************************************************************)
(* Proofs about Groups, for any set of users, any contacts and any bounds.  *)
(*                                                                         *)
(* The safety properties follow from an invariant on what is due to a user: *)
(* the envelopes in its mailbox and those that fan-outs still owe it.  A    *)
(* send moves an envelope from the one to the other and leaves what is due  *)
(* as it is, so most of the invariant only notices the start of an          *)
(* operation and the arrival of an envelope.                                *)
(***************************************************************************)
EXTENDS Groups, SequenceTheorems, TLAPS

(* Envelopes that change a roster, and those that follow an invitation.      *)
Control == {"invite", "added", "removed"}
Message == {"text", "delete", "added", "removed"}

(* u's operation has yet to send e to v; e is in v's mailbox; it is on its   *)
(* way there, or will be.                                                    *)
Owes(u, e, v) ==
    \E k \in 1..Len(job[u]) : job[u][k].envelope = e /\ v \in job[u][k].to
InBox(v, e) == \E k \in 1..Len(mailbox[v]) : mailbox[v][k] = e
Due(v, e) == InBox(v, e) \/ \E u \in Users : Owes(u, e, v)

RoundSet == [envelope : Envelopes, to : SUBSET Users]

(* The values of the variables.                                              *)
Typed ==
    /\ named \in [Users -> {"none", "name", "unknown"}]
    /\ roster \in [Users -> SUBSET Users]
    /\ job \in [Users -> Seq(RoundSet)]
    /\ mailbox \in [Users -> Seq(Envelopes)]
    /\ author \in Seq(Users) /\ Len(author) <= MaxTexts
    /\ shown \in [Users -> SUBSET (1..Len(author))]
    /\ retracted \in SUBSET (1..Len(author))
    /\ pictures \in [has : [Users -> [Users -> Nat]], told : [Users -> SUBSET Users], set : Nat]
    /\ members \in SUBSET Users /\ left \in SUBSET Users
    /\ calm \in BOOLEAN /\ rejoined \in BOOLEAN /\ early \in BOOLEAN
    /\ ops \in Nat /\ overlaps \in Nat /\ fails \in Nat
    /\ ops + pictures.set <= MaxOps

(* An operation in hand has one round, or an invitation and then a notice,   *)
(* of its user's envelopes, to somebody else.                                *)
JobsOK == \A u \in Users :
    /\ \A k \in 1..Len(job[u]) :
          /\ job[u][k].to # {} /\ u \notin job[u][k].to /\ job[u][k].envelope.from = u
          /\ job[u][k].envelope.type # "picture" => named[u] # "none"
    /\ \/ Len(job[u]) <= 1
       \/ /\ Len(job[u]) = 2 /\ job[u][1].envelope.type = "invite"
          /\ job[u][2].envelope.type = "added"

(* An envelope is from somebody else, about a text of its sender or a        *)
(* picture he has set, or else about the group, which he knows.              *)
Sound(v, e) ==
    /\ e.from # v
    /\ e.type \in {"text", "delete"} => e.id <= Len(author) /\ author[e.id] = e.from
    /\ e.type = "picture" => e.id <= pictures.has[e.from][e.from]
    /\ e.type # "picture" => named[e.from] # "none"

EnvelopesOK == \A v \in Users, e \in Envelopes : Due(v, e) => Sound(v, e)

CopiesOK ==
    /\ \A u \in Users : named[u] = "none" => roster[u] = {} /\ shown[u] = {}
    /\ \A u, w \in Users : pictures.has[w][u] <= pictures.has[u][u]
    /\ \A u \in Users : pictures.has[u][u] <= pictures.set

(* Before the group is founded there are only pictures.                      *)
UnfoundedOK ==
    members = {} /\ left = {} =>
        /\ author = <<>> /\ ops = 0 /\ \A u \in Users : named[u] = "none"
        /\ \A v \in Users, e \in Envelopes : Due(v, e) => e.type = "picture"

(* Envelopes that found no group are still there, and need one.              *)
HandsOK ==
    /\ missed \in [Users -> SUBSET Nat]
    /\ \A v \in Users : \A k \in missed[v] :
          k \in 1..Len(mailbox[v]) /\ NeedsGroup(mailbox[v][k])

-----------------------------------------------------------------------------

(* Of the pictures of u on their way to w the last one, or else the one w    *)
(* has, is u's own, as long as none was overtaken.                           *)
PictureOf(e, u) == e.type = "picture" /\ e.from = u

Latest(u, w) ==
    \/ \E e \in Envelopes : e = Picture(u, pictures.has[u][u]) /\ Owes(u, e, w)
    \/ \E k \in 1..Len(mailbox[w]) :
          /\ mailbox[w][k] = Picture(u, pictures.has[u][u])
          /\ \A j \in 1..Len(mailbox[w]) : j > k => ~PictureOf(mailbox[w][j], u)
    \/ /\ \A k \in 1..Len(mailbox[w]) : ~PictureOf(mailbox[w][k], u)
       /\ pictures.has[w][u] = pictures.has[u][u]

(* A picture of u was overtaken there.                                       *)
Passed(u, w) == \E i \in 1..MaxOps : <<w, Picture(u, i)>> \in overtaken

PicturesOK == fails = 0 => \A u \in Users :
    /\ \A w \in Users, e \in Envelopes :
          Owes(u, e, w) /\ e.type = "picture" => e.id = pictures.has[u][u]
    /\ \A w \in pictures.told[u] : Passed(u, w) \/ Latest(u, w)

-----------------------------------------------------------------------------

(* At most one envelope that changes v's roster is due to v.                 *)
Single(v) ==
    /\ \A j, k \in 1..Len(mailbox[v]) :
          mailbox[v][j].type \in Control /\ mailbox[v][k].type \in Control => j = k
    /\ \A u \in Users, e \in Envelopes : Owes(u, e, v) /\ e.type \in Control =>
          /\ \A k \in 1..Len(mailbox[v]) : mailbox[v][k].type \notin Control
          /\ \A w \in Users, f \in Envelopes :
                Owes(w, f, v) /\ f.type \in Control => w = u /\ f = e

(* That envelope makes his roster the membership.                            *)
Right(v, e) ==
    /\ e.type = "invite" => v \in members /\ e.members = members /\ roster[v] \subseteq members
    /\ e.type = "added" =>
          /\ v \in members /\ named[v] # "none"
          /\ e.who \in members /\ roster[v] = members \ {e.who}
    /\ e.type = "removed" =>
          /\ named[v] # "none" /\ named[e.who] # "none" /\ e.who \notin members
          /\ v \in members => roster[v] = members \cup {e.who}
          /\ v \notin members => v = e.who

Settled(v) == \A e \in Envelopes : Due(v, e) => e.type \notin Control

(* Who gets a text or a deletion knows the group or is being invited.        *)
Reached(u, v) == named[v] # "none" \/ (v \in members /\ u \in members /\ ~Settled(v))

SingleOK == \A v \in Users : Single(v)
RightOK == \A v \in Users, e \in Envelopes : Due(v, e) /\ e.type \in Control => Right(v, e)
RostersOK == \A v \in Users : Settled(v) =>
    /\ v \in members => roster[v] = members
    /\ v \notin members => v \notin roster[v]
TextsOK == \A v \in Users, e \in Envelopes :
    Due(v, e) /\ e.type \in {"text", "delete"} => Reached(e.from, v)
LeaversOK == \A u \in Users \ members : \A v \in roster[u] : named[v] # "none"
StrangersOK == \A v \in Users \ (members \cup left) : named[v] = "none"

(* Who found no group for an envelope is being invited, as its sender is a   *)
(* member.                                                                   *)
Awaiting(v, e) ==
    /\ v \in members /\ e.from \in members
    /\ \A c \in Envelopes : Due(v, c) /\ c.type \in Control => c.type = "invite"
MissesOK == \A v \in Users : \A k \in missed[v] : Awaiting(v, mailbox[v][k])

Sync == /\ SingleOK /\ RightOK /\ RostersOK /\ TextsOK /\ LeaversOK /\ StrangersOK
        /\ MissesOK
Orderly == calm /\ ~rejoined
SyncOK == Orderly => Sync

-----------------------------------------------------------------------------

IsInvited(v) == \E k \in 1..Len(mailbox[v]) : mailbox[v][k].type = "invite"

Inviting(u, v) == \E e \in Envelopes : e.type = "invite" /\ Owes(u, e, v)

(* Who is on a roster has a name for the group, or an invitation comes       *)
(* before anything else can.                                                 *)
Covered(v) ==
    \/ named[v] # "none"
    \/ IsInvited(v)
    \/ ops = 0 /\ \E u \in Users : Inviting(u, v)

InvitesNamed == \A v \in Users, e \in Envelopes : Due(v, e) /\ e.type = "invite" => e.name = "name"
InviteFirst == \A v \in Users : named[v] = "none" => \A k \in 1..Len(mailbox[v]) :
    mailbox[v][k].type \in Message =>
        \E j \in 1..Len(mailbox[v]) : j < k /\ mailbox[v][j].type = "invite"
InviteAhead == \A u, v \in Users, e \in Envelopes : Owes(u, e, v) /\ e.type \in Message =>
    named[v] # "none" \/ IsInvited(v)
RosterCovered == \A u \in Users : \A v \in roster[u] : Covered(v) \/ Inviting(u, v)
SentCovered == \A v \in Users, e \in Envelopes : InBox(v, e) =>
    /\ e.type = "invite" => \A w \in e.members : Covered(w)
    /\ e.type = "added" => Covered(e.who)
OwedCovered == \A u, v \in Users, e \in Envelopes : Owes(u, e, v) =>
    /\ e.type = "invite" => \A w \in e.members : Covered(w) \/ Inviting(u, w)
    /\ e.type = "added" => Covered(e.who) \/ Inviting(u, e.who)
OneInvited == \A u, v, w \in Users : ops > 0 /\ Inviting(u, v) /\ Inviting(u, w) => v = w
FoundingQuiet == ops = 0 /\ (\E u, v \in Users : Inviting(u, v)) => author = <<>>

Names ==
    /\ \A u \in Users : named[u] # "unknown"
    /\ InvitesNamed /\ InviteFirst /\ InviteAhead /\ RosterCovered /\ SentCovered
    /\ OwedCovered /\ OneInvited /\ FoundingQuiet

(* Nobody handled anything before an invitation that lay in front of it.    *)
Unhurried == \A x \in overtaken : x[2].type # "invite"
NamesOK == calm /\ ~early /\ Unhurried => Names

-----------------------------------------------------------------------------

(* What is retracted is gone from its author's history, and not sent.        *)
RetractedOK ==
    /\ \A i \in retracted : i \notin shown[author[i]]
    /\ \A u, v \in Users, e \in Envelopes :
          Owes(u, e, v) /\ e.type = "text" => e.id \notin retracted

TextIn(v, i) == \E k \in 1..Len(mailbox[v]) : mailbox[v][k] = Text(author[i], i)

(* Who has a text, or will, is on its author's roster; when it is retracted, *)
(* the deletion comes after the text, unless that was overtaken.             *)
Reachable(v, i) ==
    \/ v \in roster[author[i]]
    \/ i \notin shown[v] /\ \A e \in Envelopes : Due(v, e) => e # Text(author[i], i)
Undone(v, i) ==
    \/ \E u \in Users, e \in Envelopes : u = author[i] /\ e = Delete(u, i) /\ Owes(u, e, v)
    \/ \E k \in 1..Len(mailbox[v]) :
          /\ mailbox[v][k] = Delete(author[i], i)
          /\ \A j \in 1..Len(mailbox[v]) : j > k => mailbox[v][j] # Text(author[i], i)
    \/ i \notin shown[v] /\ ~TextIn(v, i)

(* Something passed the text in the hands of v.                              *)
Lost(v, i) == <<v, Text(author[i], i)>> \in overtaken

Deletes ==
    /\ \A i \in (1..Len(author)) \ retracted : \A v \in members \ {author[i]} : Reachable(v, i)
    /\ \A i \in retracted : \A v \in members \ {author[i]} : Lost(v, i) \/ Undone(v, i)

DeletesOK == Orderly => Deletes

(* The part every other part rests on.  The invariant is Base /\ HandsOK /\   *)
(* PicturesOK /\ SyncOK /\ NamesOK /\ RetractedOK /\ DeletesOK; DeletesOK     *)
(* rests on SyncOK and RetractedOK too, the others on Base and HandsOK only.  *)
Base == Typed /\ JobsOK /\ EnvelopesOK /\ CopiesOK /\ UnfoundedOK

-----------------------------------------------------------------------------

(* The fields of an envelope, by its type.                                   *)
LEMMA EnvelopeFields ==
    ASSUME NEW e \in Envelopes
    PROVE  /\ e.type \in {"invite", "added", "removed", "text", "delete", "picture"}
           /\ e.from \in Users
           /\ e.type = "invite" => e.members \in SUBSET Users /\ e.name \in {"name", "unknown"}
           /\ e.type \in {"added", "removed"} => e.who \in Users
           /\ e.type \in {"text", "delete"} => e.id \in 1..MaxTexts
           /\ e.type = "picture" => e.id \in 1..MaxOps
           /\ e.type = "text" => e = Text(e.from, e.id)
           /\ e.type = "delete" => e = Delete(e.from, e.id)
           /\ e.type = "picture" => e = Picture(e.from, e.id)
<1>1. CASE e \in [type : {"invite"}, from : Users, name : {"name", "unknown"}, members : SUBSET Users]
  BY <1>1
<1>2. CASE e \in [type : {"added", "removed"}, from : Users, who : Users]
  BY <1>2
<1>3. CASE e \in [type : {"text", "delete"}, from : Users, id : 1..MaxTexts]
  BY <1>3 DEF Text, Delete
<1>4. CASE e \in [type : {"picture"}, from : Users, id : 1..MaxOps]
  BY <1>4 DEF Picture
<1> QED
  BY <1>1, <1>2, <1>3, <1>4 DEF Envelopes

(* The envelopes that operations make.                                       *)
LEMMA InviteMade ==
    ASSUME NEW u \in Users, NEW n \in {"name", "unknown"}, NEW who \in SUBSET Users
    PROVE  /\ Invite(u, n, who) \in Envelopes
           /\ Invite(u, n, who).type = "invite" /\ Invite(u, n, who).from = u
           /\ Invite(u, n, who).name = n /\ Invite(u, n, who).members = who
BY DEF Invite, Envelopes

LEMMA NoticeMade ==
    ASSUME NEW u \in Users, NEW w \in Users
    PROVE  /\ Added(u, w) \in Envelopes
           /\ Added(u, w).type = "added" /\ Added(u, w).from = u /\ Added(u, w).who = w
           /\ Removed(u, w) \in Envelopes
           /\ Removed(u, w).type = "removed" /\ Removed(u, w).from = u /\ Removed(u, w).who = w
BY DEF Added, Removed, Envelopes

LEMMA TextMade ==
    ASSUME NEW u \in Users, NEW i \in 1..MaxTexts
    PROVE  /\ Text(u, i) \in Envelopes
           /\ Text(u, i).type = "text" /\ Text(u, i).from = u /\ Text(u, i).id = i
           /\ Delete(u, i) \in Envelopes
           /\ Delete(u, i).type = "delete" /\ Delete(u, i).from = u /\ Delete(u, i).id = i
BY DEF Text, Delete, Envelopes

LEMMA PictureMade ==
    ASSUME NEW u \in Users, NEW i \in 1..MaxOps
    PROVE  /\ Picture(u, i) \in Envelopes
           /\ Picture(u, i).type = "picture" /\ Picture(u, i).from = u /\ Picture(u, i).id = i
BY DEF Picture, Envelopes

-----------------------------------------------------------------------------

(* A round, and what follows it.                                             *)
LEMMA RoundAhead ==
    ASSUME NEW e \in Envelopes, NEW to \in SUBSET Users, NEW s \in Seq(RoundSet)
    PROVE  /\ Round(e, to) \o s \in Seq(RoundSet)
           /\ to = {} => Round(e, to) \o s = s
           /\ to # {} =>
                 /\ Len(Round(e, to) \o s) = Len(s) + 1
                 /\ (Round(e, to) \o s)[1] = [envelope |-> e, to |-> to]
                 /\ \A k \in 1..Len(s) : (Round(e, to) \o s)[k + 1] = s[k]
<1>1. CASE to = {}
  BY <1>1, ConcatEmptySeq DEF Round
<1>2. CASE to # {}
  <2> DEFINE r == [envelope |-> e, to |-> to]
  <2>1. Round(e, to) = <<r>> /\ r \in RoundSet
    BY <1>2 DEF Round, RoundSet
  <2> HIDE DEF r
  <2>2. <<r>> \in Seq(RoundSet) /\ Len(<<r>>) = 1 /\ <<r>>[1] = r
    BY <2>1
  <2>3. /\ <<r>> \o s \in Seq(RoundSet) /\ Len(<<r>> \o s) = Len(s) + 1
        /\ (<<r>> \o s)[1] = r
        /\ \A k \in 1..Len(s) : (<<r>> \o s)[k + 1] = s[k]
    BY <2>2
  <2> QED
    BY <2>1, <2>3, <1>2 DEF r
<1> QED
  BY <1>1, <1>2

(* A round that nothing follows.                                            *)
LEMMA RoundAlone ==
    ASSUME NEW e \in Envelopes, NEW to \in SUBSET Users
    PROVE  /\ Round(e, to) \in Seq(RoundSet)
           /\ to = {} => Round(e, to) = <<>>
           /\ to # {} => Len(Round(e, to)) = 1 /\ Round(e, to)[1] = [envelope |-> e, to |-> to]
<1>1. CASE to = {}
  BY <1>1 DEF Round
<1>2. CASE to # {}
  <2>1. [envelope |-> e, to |-> to] \in RoundSet
    BY DEF RoundSet
  <2> QED
    BY <1>2, <2>1 DEF Round
<1> QED
  BY <1>1, <1>2

(* u begins to send: D are the envelopes, each with who is to get it.        *)
Begins(u, D) ==
    /\ mailbox' = mailbox
    /\ \A e \in Envelopes, v \in Users : ~Owes(u, e, v)
    /\ \A e \in Envelopes, v \in Users : Owes(u, e, v)' <=> <<e, v>> \in D
    /\ \A w \in Users \ {u} : \A e \in Envelopes, v \in Users : Owes(w, e, v)' <=> Owes(w, e, v)

(* Nobody forgets the group.                                                 *)
StillNamed == \A u \in Users : named[u] # "none" => named'[u] # "none"

(* An operation of one round.                                                *)
LEMMA BeginOne ==
    ASSUME Typed, JobsOK, StillNamed, NEW u \in Users, NEW e \in Envelopes,
           NEW to \in SUBSET Users, u \notin to, e.from = u,
           e.type # "picture" => named'[u] # "none",
           job[u] = <<>>, mailbox' = mailbox, job' = [job EXCEPT ![u] = Round(e, to)]
    PROVE  /\ job' \in [Users -> Seq(RoundSet)] /\ JobsOK'
           /\ Begins(u, {e} \X to)
<1>1. job \in [Users -> Seq(RoundSet)]
  BY DEF Typed
<1> DEFINE s == Round(e, to)
<1>2. /\ s \in Seq(RoundSet)
      /\ to = {} => s = <<>>
      /\ to # {} => Len(s) = 1 /\ s[1] = [envelope |-> e, to |-> to]
  BY RoundAlone
<1>3. job' = [job EXCEPT ![u] = s]
  OBVIOUS
<1> HIDE DEF s
<1>4. job' \in [Users -> Seq(RoundSet)] /\ job'[u] = s /\ \A w \in Users \ {u} : job'[w] = job[w]
  BY <1>1, <1>2, <1>3
<1>5. /\ Len(s) <= 1
      /\ \A k \in 1..Len(s) : to # {} /\ s[k].envelope = e /\ s[k].to = to
  <2>1. CASE to = {}
    BY <2>1, <1>2
  <2>2. CASE to # {}
    <3>1. Len(s) = 1 /\ s[1].envelope = e /\ s[1].to = to
      BY <2>2, <1>2
    <3>2. \A k \in 1..Len(s) : k = 1
      BY <3>1
    <3> QED
      BY <2>2, <3>1, <3>2
  <2> QED
    BY <2>1, <2>2
<1>6. JobsOK'
  <2>1. ASSUME NEW w \in Users
        PROVE  /\ \A k \in 1..Len(job'[w]) :
                     /\ job'[w][k].to # {} /\ w \notin job'[w][k].to
                     /\ job'[w][k].envelope.from = w
                     /\ job'[w][k].envelope.type # "picture" => named'[w] # "none"
               /\ \/ Len(job'[w]) <= 1
                  \/ /\ Len(job'[w]) = 2 /\ job'[w][1].envelope.type = "invite"
                     /\ job'[w][2].envelope.type = "added"
    <3>1. CASE w = u
      BY <3>1, <1>4, <1>5
    <3>2. CASE w # u
      BY <3>2, <1>4 DEF JobsOK, StillNamed
    <3> QED
      BY <3>1, <3>2
  <2> QED
    BY <2>1 DEF JobsOK
<1>7. ASSUME NEW f \in Envelopes, NEW v \in Users
      PROVE  /\ ~Owes(u, f, v)
             /\ Owes(u, f, v)' <=> <<f, v>> \in {e} \X to
             /\ \A w \in Users \ {u} : Owes(w, f, v)' <=> Owes(w, f, v)
  <2>1. ~Owes(u, f, v)
    BY DEF Owes
  <2>2. Owes(u, f, v)' <=> \E k \in 1..Len(s) : s[k].envelope = f /\ v \in s[k].to
    BY <1>4 DEF Owes
  <2>3. (\E k \in 1..Len(s) : s[k].envelope = f /\ v \in s[k].to) <=> f = e /\ v \in to
    <3>1. CASE to = {}
      BY <3>1, <1>2
    <3>2. CASE to # {}
      BY <3>2, <1>2
    <3> QED
      BY <3>1, <3>2
  <2>4. \A w \in Users \ {u} : Owes(w, f, v)' <=> Owes(w, f, v)
    BY <1>4 DEF Owes
  <2> QED
    BY <2>1, <2>2, <2>3, <2>4
<1> QED
  BY <1>4, <1>6, <1>7 DEF Begins

(* An operation that invites and then tells the others.                      *)
LEMMA BeginTwo ==
    ASSUME Typed, JobsOK, StillNamed, NEW u \in Users, NEW d \in Envelopes, NEW e \in Envelopes,
           NEW A \in SUBSET Users, NEW B \in SUBSET Users, u \notin A, u \notin B,
           d.from = u, e.from = u, d.type = "invite", e.type = "added", named'[u] # "none",
           job[u] = <<>>, mailbox' = mailbox,
           job' = [job EXCEPT ![u] = Round(d, A) \o Round(e, B)]
    PROVE  /\ job' \in [Users -> Seq(RoundSet)] /\ JobsOK'
           /\ Begins(u, ({d} \X A) \cup ({e} \X B))
<1>1. job \in [Users -> Seq(RoundSet)]
  BY DEF Typed
<1> DEFINE r == Round(e, B)
           s == Round(d, A) \o r
<1>2. /\ r \in Seq(RoundSet)
      /\ B = {} => r = <<>>
      /\ B # {} => Len(r) = 1 /\ r[1] = [envelope |-> e, to |-> B]
  BY RoundAlone
<1>3. job' = [job EXCEPT ![u] = s]
  OBVIOUS
<1> HIDE DEF r
<1>4. /\ s \in Seq(RoundSet)
      /\ A = {} => s = r
      /\ A # {} => Len(s) = Len(r) + 1 /\ s[1] = [envelope |-> d, to |-> A]
                   /\ \A k \in 1..Len(r) : s[k + 1] = r[k]
  BY <1>2, RoundAhead
<1> HIDE DEF s
<1>5. job' \in [Users -> Seq(RoundSet)] /\ job'[u] = s /\ \A w \in Users \ {u} : job'[w] = job[w]
  BY <1>1, <1>3, <1>4
<1>6. \/ /\ A = {} /\ B = {} /\ s = <<>>
      \/ /\ A = {} /\ B # {} /\ Len(s) = 1 /\ s[1].envelope = e /\ s[1].to = B
      \/ /\ A # {} /\ B = {} /\ Len(s) = 1 /\ s[1].envelope = d /\ s[1].to = A
      \/ /\ A # {} /\ B # {} /\ Len(s) = 2 /\ s[1].envelope = d /\ s[1].to = A
         /\ s[2].envelope = e /\ s[2].to = B
  <2>1. CASE A = {}
    BY <2>1, <1>2, <1>4
  <2>2. CASE A # {} /\ B = {}
    BY <2>2, <1>2, <1>4
  <2>3. CASE A # {} /\ B # {}
    <3>1. Len(r) = 1 /\ r[1] = [envelope |-> e, to |-> B]
      BY <2>3, <1>2
    <3>2. /\ Len(s) = Len(r) + 1 /\ s[1] = [envelope |-> d, to |-> A]
          /\ \A k \in 1..Len(r) : s[k + 1] = r[k]
      BY <2>3, <1>4
    <3>3. Len(s) = 2
      BY <3>1, <3>2
    <3>4. s[1 + 1] = r[1]
      BY <3>1, <3>2
    <3>5. s[2] = r[1]
      BY <3>4
    <3> QED
      BY <2>3, <3>1, <3>2, <3>3, <3>5
  <2> QED
    BY <2>1, <2>2, <2>3
<1>7. JobsOK'
  <2>1. ASSUME NEW w \in Users
        PROVE  /\ \A k \in 1..Len(job'[w]) :
                     /\ job'[w][k].to # {} /\ w \notin job'[w][k].to
                     /\ job'[w][k].envelope.from = w
                     /\ job'[w][k].envelope.type # "picture" => named'[w] # "none"
               /\ \/ Len(job'[w]) <= 1
                  \/ /\ Len(job'[w]) = 2 /\ job'[w][1].envelope.type = "invite"
                     /\ job'[w][2].envelope.type = "added"
    <3>1. CASE w = u
      <4>1. /\ \A k \in 1..Len(s) :
                  /\ s[k].to # {} /\ u \notin s[k].to /\ s[k].envelope.from = u
                  /\ named'[u] # "none"
            /\ Len(s) <= 1 \/ (Len(s) = 2 /\ s[1].envelope = d /\ s[2].envelope = e)
        <5>1. CASE Len(s) = 0
          BY <5>1
        <5>2. CASE Len(s) = 1
          <6>1. \A k \in 1..Len(s) : k = 1
            BY <5>2
          <6> QED
            BY <5>2, <6>1, <1>6
        <5>3. CASE Len(s) = 2
          <6>1. \A k \in 1..Len(s) : k = 1 \/ k = 2
            BY <5>3
          <6> QED
            BY <5>3, <6>1, <1>6
        <5> QED
          BY <5>1, <5>2, <5>3, <1>6
      <4> QED
        BY <3>1, <4>1, <1>5
    <3>2. CASE w # u
      BY <3>2, <1>5 DEF JobsOK, StillNamed
    <3> QED
      BY <3>1, <3>2
  <2> QED
    BY <2>1 DEF JobsOK
<1>8. ASSUME NEW f \in Envelopes, NEW v \in Users
      PROVE  /\ ~Owes(u, f, v)
             /\ Owes(u, f, v)' <=> <<f, v>> \in ({d} \X A) \cup ({e} \X B)
             /\ \A w \in Users \ {u} : Owes(w, f, v)' <=> Owes(w, f, v)
  <2>1. ~Owes(u, f, v)
    BY DEF Owes
  <2>2. Owes(u, f, v)' <=> \E k \in 1..Len(s) : s[k].envelope = f /\ v \in s[k].to
    BY <1>5 DEF Owes
  <2>3. (\E k \in 1..Len(s) : s[k].envelope = f /\ v \in s[k].to)
            <=> (f = d /\ v \in A) \/ (f = e /\ v \in B)
    BY <1>6
  <2>4. \A w \in Users \ {u} : Owes(w, f, v)' <=> Owes(w, f, v)
    BY <1>5 DEF Owes
  <2> QED
    BY <2>1, <2>2, <2>3, <2>4
<1> QED
  BY <1>5, <1>7, <1>8 DEF Begins

(* An envelope is stored in v's mailbox, or taken from it.                   *)
Stored(v, e) ==
    /\ Len(mailbox'[v]) = Len(mailbox[v]) + 1
    /\ \A k \in 1..Len(mailbox[v]) : mailbox'[v][k] = mailbox[v][k]
    /\ mailbox'[v][Len(mailbox[v]) + 1] = e
    /\ \A w \in Users \ {v} : mailbox'[w] = mailbox[w]

(* Places move up when the k-th envelope is taken: where the i-th was, and   *)
(* where the j-th will be.                                                   *)
OldPlace(k, i) == IF i < k THEN i ELSE i + 1
NewPlace(k, j) == IF j < k THEN j ELSE j - 1

Taken(v, k, e) ==
    /\ k \in 1..Len(mailbox[v]) /\ mailbox[v][k] = e
    /\ Len(mailbox'[v]) = Len(mailbox[v]) - 1
    /\ \A i \in 1..Len(mailbox'[v]) : mailbox'[v][i] = mailbox[v][OldPlace(k, i)]
    /\ \A w \in Users \ {v} : mailbox'[w] = mailbox[w]

(* The mailbox after a send, by its places.                                 *)
LEMMA StoreFacts ==
    ASSUME Typed, NEW v \in Users, NEW e \in Envelopes,
           mailbox' = [mailbox EXCEPT ![v] = Append(mailbox[v], e)]
    PROVE  mailbox' \in [Users -> Seq(Envelopes)] /\ Stored(v, e)
<1>1. mailbox \in [Users -> Seq(Envelopes)] /\ mailbox[v] \in Seq(Envelopes)
  BY DEF Typed
<1> DEFINE s == Append(mailbox[v], e)
<1>2. /\ s \in Seq(Envelopes) /\ Len(s) = Len(mailbox[v]) + 1
      /\ \A k \in 1..Len(mailbox[v]) : s[k] = mailbox[v][k]
      /\ s[Len(mailbox[v]) + 1] = e
  BY <1>1, AppendProperties
<1>3. mailbox' = [mailbox EXCEPT ![v] = s]
  OBVIOUS
<1> HIDE DEF s
<1>4. /\ mailbox' \in [Users -> Seq(Envelopes)] /\ mailbox'[v] = s
      /\ \A w \in Users \ {v} : mailbox'[w] = mailbox[w]
  BY <1>1, <1>2, <1>3
<1> QED
  BY <1>2, <1>4 DEF Stored

(* The two are inverse, and keep the order.                                 *)
LEMMA Places ==
    ASSUME NEW n \in Nat, NEW k \in 1..n
    PROVE  /\ \A i \in 1..n - 1 : /\ OldPlace(k, i) \in 1..n /\ OldPlace(k, i) # k
                                  /\ NewPlace(k, OldPlace(k, i)) = i
           /\ \A j \in 1..n : j # k => /\ NewPlace(k, j) \in 1..n - 1
                                       /\ OldPlace(k, NewPlace(k, j)) = j
           /\ \A i, j \in 1..n - 1 : i < j <=> OldPlace(k, i) < OldPlace(k, j)
BY DEF OldPlace, NewPlace

(* The mailbox after its k-th envelope is taken, by its places.             *)
LEMMA TakeFacts ==
    ASSUME Typed, NEW v \in Users, NEW k \in 1..Len(mailbox[v]),
           mailbox' = [mailbox EXCEPT ![v] = Without(mailbox[v], k)]
    PROVE  /\ mailbox' \in [Users -> Seq(Envelopes)]
           /\ mailbox[v][k] \in Envelopes /\ Taken(v, k, mailbox[v][k])
<1>1. mailbox \in [Users -> Seq(Envelopes)] /\ mailbox[v] \in Seq(Envelopes)
  BY DEF Typed
<1> DEFINE n == Len(mailbox[v])
           s == Without(mailbox[v], k)
<1>2. n \in Nat /\ k \in 1..n /\ \A i \in 1..n : mailbox[v][i] \in Envelopes
  BY <1>1
<1>3. \A i \in 1..n - 1 : OldPlace(k, i) \in 1..n
  BY <1>2, Places
<1>4. s = [i \in 1..n - 1 |-> mailbox[v][OldPlace(k, i)]]
  <2>1. \A i \in 1..n - 1 : (IF i < k THEN mailbox[v][i] ELSE mailbox[v][i + 1])
                                = mailbox[v][OldPlace(k, i)]
    BY DEF OldPlace
  <2> QED
    BY <2>1 DEF Without
<1>5. mailbox' = [mailbox EXCEPT ![v] = s]
  OBVIOUS
<1> HIDE DEF s, n
<1>6. n - 1 \in Nat
  BY <1>2
<1>7. \A i \in 1..n - 1 : mailbox[v][OldPlace(k, i)] \in Envelopes
  BY <1>2, <1>3
<1>8. s \in Seq(Envelopes) /\ Len(s) = n - 1
  BY <1>4, <1>6, <1>7
<1>9. \A i \in 1..n - 1 : s[i] = mailbox[v][OldPlace(k, i)]
  BY <1>4
<1>10. /\ mailbox' \in [Users -> Seq(Envelopes)] /\ mailbox'[v] = s
       /\ \A w \in Users \ {v} : mailbox'[w] = mailbox[w]
  BY <1>1, <1>5, <1>8
<1> QED
  BY <1>2, <1>8, <1>9, <1>10 DEF Taken, n

(* What is in the mailbox then was there before, and all but the k-th is     *)
(* there still.                                                              *)
LEMMA TakenPlaces ==
    ASSUME Typed, NEW v \in Users, NEW k, NEW e, Taken(v, k, e)
    PROVE  /\ Len(mailbox[v]) \in Nat /\ k \in 1..Len(mailbox[v]) /\ mailbox[v][k] = e
           /\ \A i \in 1..Len(mailbox'[v]) :
                 /\ OldPlace(k, i) \in 1..Len(mailbox[v]) /\ OldPlace(k, i) # k
                 /\ NewPlace(k, OldPlace(k, i)) = i
                 /\ mailbox'[v][i] = mailbox[v][OldPlace(k, i)]
           /\ \A j \in 1..Len(mailbox[v]) : j # k =>
                 /\ NewPlace(k, j) \in 1..Len(mailbox'[v])
                 /\ OldPlace(k, NewPlace(k, j)) = j
                 /\ mailbox'[v][NewPlace(k, j)] = mailbox[v][j]
           /\ \A i, j \in 1..Len(mailbox'[v]) : i < j <=> OldPlace(k, i) < OldPlace(k, j)
<1>1. PICK n \in Nat : Len(mailbox[v]) = n
  BY DEF Typed
<1>2. /\ k \in 1..n /\ mailbox[v][k] = e /\ Len(mailbox'[v]) = n - 1
      /\ \A i \in 1..n - 1 : mailbox'[v][i] = mailbox[v][OldPlace(k, i)]
  BY <1>1 DEF Taken
<1>3. /\ \A i \in 1..n - 1 : /\ OldPlace(k, i) \in 1..n /\ OldPlace(k, i) # k
                             /\ NewPlace(k, OldPlace(k, i)) = i
      /\ \A j \in 1..n : j # k => /\ NewPlace(k, j) \in 1..n - 1
                                  /\ OldPlace(k, NewPlace(k, j)) = j
      /\ \A i, j \in 1..n - 1 : i < j <=> OldPlace(k, i) < OldPlace(k, j)
  BY <1>2, Places
<1>4. \A j \in 1..n : j # k => mailbox'[v][NewPlace(k, j)] = mailbox[v][j]
  BY <1>2, <1>3
<1> QED
  BY <1>1, <1>2, <1>3, <1>4

(* u sends e to v: it is owed no longer.  A notice of an addition goes out   *)
(* when no invitation is left to send.                                       *)
Sends(u, v, e) ==
    /\ Owes(u, e, v) /\ e.from = u /\ v # u
    /\ \A f \in Envelopes, w \in Users : Owes(u, f, w)' <=> Owes(u, f, w) /\ ~(f = e /\ w = v)
    /\ \A x \in Users \ {u} : \A f \in Envelopes, w \in Users : Owes(x, f, w)' <=> Owes(x, f, w)
    /\ Stored(v, e)
    /\ e.type = "added" => \A f \in Envelopes, w \in Users : Owes(u, f, w) => f.type # "invite"
    /\ \/ shown' = shown
       \/ e.type = "text" /\ shown' = [shown EXCEPT ![u] = shown[u] \cup {e.id}]

(* What Send does to the job in hand and to the mailbox.                    *)
LEMMA SendFacts ==
    ASSUME Typed, JobsOK, NEW u \in Users, Send(u)
    PROVE  /\ job' \in [Users -> Seq(RoundSet)] /\ JobsOK'
           /\ mailbox' \in [Users -> Seq(Envelopes)]
           /\ \E v \in Users, e \in Envelopes : Sends(u, v, e)
<1>1. job \in [Users -> Seq(RoundSet)] /\ job[u] \in Seq(RoundSet) /\ job[u] # <<>>
  BY DEF Typed, Send
<1>2. Len(job[u]) \in Nat /\ 1 <= Len(job[u])
  BY <1>1, EmptySeq
<1> DEFINE e == job[u][1].envelope
           to == job[u][1].to
           d == job[u][2].envelope
           rest == Tail(job[u])
<1>3. /\ e \in Envelopes /\ to \in SUBSET Users
      /\ to # {} /\ u \notin to /\ e.from = u /\ (e.type # "picture" => named[u] # "none")
  <2>1. 1 \in 1..Len(job[u])
    BY <1>2
  <2>2. job[u][1] \in RoundSet
    BY <2>1, <1>1
  <2> QED
    BY <2>1, <2>2 DEF JobsOK, RoundSet
<1>4. \/ Len(job[u]) = 1
      \/ /\ Len(job[u]) = 2 /\ e.type = "invite" /\ d.type = "added"
         /\ job[u][2].to # {} /\ u \notin job[u][2].to /\ d.from = u /\ named[u] # "none"
  <2>1. CASE Len(job[u]) <= 1
    <3> DEFINE n == Len(job[u])
    <3>1. n \in Nat /\ 1 <= n /\ n <= 1
      BY <2>1, <1>2
    <3> HIDE DEF n
    <3>2. n = 1
      BY <3>1
    <3>3. Len(job[u]) = 1
      BY <3>2 DEF n
    <3> QED
      BY <3>3
  <2>2. CASE Len(job[u]) = 2 /\ e.type = "invite" /\ d.type = "added"
    <3>1. 2 \in 1..Len(job[u])
      BY <2>2
    <3> QED
      BY <2>2, <3>1 DEF JobsOK
  <2> QED
    BY <2>1, <2>2 DEF JobsOK
<1>5. /\ rest \in Seq(RoundSet) /\ Len(rest) = Len(job[u]) - 1
      /\ \A k \in 1..Len(rest) : rest[k] = job[u][k + 1]
  BY <1>1, HeadTailProperties
<1>6. PICK v \in to :
         /\ mailbox' = [mailbox EXCEPT ![v] = Append(mailbox[v], e)]
         /\ job' = [job EXCEPT ![u] = Round(e, to \ {v}) \o rest]
         /\ \/ shown' = shown
            \/ e.type = "text" /\ shown' = [shown EXCEPT ![u] = shown[u] \cup {e.id}]
         /\ named' = named
  BY DEF Send
<1> HIDE DEF e, to, rest
<1>7. v \in Users /\ v # u /\ mailbox' \in [Users -> Seq(Envelopes)] /\ Stored(v, e)
  BY <1>3, <1>6, StoreFacts
<1> DEFINE more == to \ {v}
           s == Round(e, more) \o rest
<1>8. /\ s \in Seq(RoundSet)
      /\ more = {} => s = rest
      /\ more # {} => /\ Len(s) = Len(rest) + 1 /\ s[1] = [envelope |-> e, to |-> more]
                          /\ \A k \in 1..Len(rest) : s[k + 1] = rest[k]
  <2>1. more \in SUBSET Users
    BY <1>3
  <2> HIDE DEF more
  <2> QED
    BY <2>1, <1>3, <1>5, RoundAhead
<1>9. job' = [job EXCEPT ![u] = s]
  BY <1>6
<1> HIDE DEF s, more
<1>10. job' \in [Users -> Seq(RoundSet)] /\ job'[u] = s /\ \A w \in Users \ {u} : job'[w] = job[w]
  BY <1>1, <1>8, <1>9
<1>11. \/ /\ Len(job[u]) = 1
          /\ \/ more = {} /\ Len(s) = 0
             \/ more # {} /\ Len(s) = 1 /\ s[1] = [envelope |-> e, to |-> more]
       \/ /\ Len(job[u]) = 2 /\ e.type = "invite" /\ d.type = "added"
          /\ \/ more = {} /\ Len(s) = 1 /\ s[1] = job[u][2]
             \/ /\ more # {} /\ Len(s) = 2 /\ s[1] = [envelope |-> e, to |-> more]
                /\ s[2] = job[u][2]
  <2>1. CASE Len(job[u]) = 1
    BY <2>1, <1>5, <1>8
  <2>2. CASE Len(job[u]) = 2 /\ e.type = "invite" /\ d.type = "added"
    <3>1. Len(rest) = 1
      BY <2>2, <1>5
    <3>2. rest[1] = job[u][1 + 1]
      BY <3>1, <1>5
    <3>3. rest[1] = job[u][2]
      BY <3>2
    <3>4. CASE more = {}
      BY <2>2, <3>1, <3>3, <3>4, <1>8
    <3>5. CASE more # {}
      <4>1. Len(s) = 2 /\ s[1] = [envelope |-> e, to |-> more] /\ s[1 + 1] = rest[1]
        BY <3>5, <3>1, <1>8
      <4>2. s[2] = job[u][2]
        BY <4>1, <3>3
      <4> QED
        BY <2>2, <3>5, <4>1, <4>2
    <3> QED
      BY <3>4, <3>5
  <2> QED
    BY <2>1, <2>2, <1>4
<1>12. JobsOK'
  <2>1. /\ \A k \in 1..Len(s) : /\ s[k].to # {} /\ u \notin s[k].to /\ s[k].envelope.from = u
                                /\ s[k].envelope.type # "picture" => named[u] # "none"
        /\ Len(s) <= 1 \/ (Len(s) = 2 /\ s[1].envelope.type = "invite"
                                     /\ s[2].envelope.type = "added")
    <3>1. CASE Len(s) = 0
      BY <3>1
    <3>2. CASE Len(s) = 1
      <4>1. \A k \in 1..Len(s) : k = 1
        BY <3>2
      <4>2. \/ s[1].envelope = e /\ s[1].to = more /\ more # {}
            \/ s[1] = job[u][2] /\ Len(job[u]) = 2
        BY <3>2, <1>11
      <4>3. /\ s[1].to # {} /\ u \notin s[1].to /\ s[1].envelope.from = u
            /\ s[1].envelope.type # "picture" => named[u] # "none"
        BY <4>2, <1>3, <1>4 DEF more
      <4> QED
        BY <3>2, <4>1, <4>3
    <3>3. CASE Len(s) = 2
      <4>1. \A k \in 1..Len(s) : k = 1 \/ k = 2
        BY <3>3
      <4>2. /\ s[1].envelope = e /\ s[1].to = more /\ more # {}
            /\ s[2] = job[u][2] /\ Len(job[u]) = 2
        BY <3>3, <1>11
      <4>3. /\ s[1].to # {} /\ u \notin s[1].to /\ s[1].envelope.from = u
            /\ s[2].to # {} /\ u \notin s[2].to /\ s[2].envelope.from = u
            /\ s[1].envelope.type = "invite" /\ s[2].envelope.type = "added" /\ named[u] # "none"
        BY <4>2, <1>3, <1>4 DEF more
      <4> QED
        BY <3>3, <4>1, <4>3
    <3> QED
      BY <3>1, <3>2, <3>3, <1>11
  <2>2. ASSUME NEW w \in Users
        PROVE  /\ \A k \in 1..Len(job'[w]) :
                     /\ job'[w][k].to # {} /\ w \notin job'[w][k].to
                     /\ job'[w][k].envelope.from = w
                     /\ job'[w][k].envelope.type # "picture" => named'[w] # "none"
               /\ \/ Len(job'[w]) <= 1
                  \/ /\ Len(job'[w]) = 2 /\ job'[w][1].envelope.type = "invite"
                     /\ job'[w][2].envelope.type = "added"
    <3>1. CASE w = u
      BY <3>1, <2>1, <1>6, <1>10
    <3>2. CASE w # u
      BY <3>2, <1>6, <1>10 DEF JobsOK
    <3> QED
      BY <3>1, <3>2
  <2> QED
    BY <2>2 DEF JobsOK
<1>13. ASSUME NEW f \in Envelopes, NEW w \in Users
       PROVE  /\ Owes(u, f, w) <=> \/ f = e /\ w \in to
                                   \/ Len(job[u]) = 2 /\ f = d /\ w \in job[u][2].to
              /\ Owes(u, f, w)' <=> \/ f = e /\ w \in more
                                    \/ Len(job[u]) = 2 /\ f = d /\ w \in job[u][2].to
  <2>1. CASE Len(job[u]) = 1
    <3>1. \A k \in 1..Len(job[u]) : k = 1
      BY <2>1
    <3>2. Owes(u, f, w) <=> f = e /\ w \in to
      BY <2>1, <3>1 DEF Owes, e, to
    <3>3. (\E k \in 1..Len(s) : s[k].envelope = f /\ w \in s[k].to) <=> f = e /\ w \in more
      BY <2>1, <1>11
    <3>4. Owes(u, f, w)' <=> f = e /\ w \in more
      BY <3>3, <1>10 DEF Owes
    <3> QED
      BY <2>1, <3>2, <3>4
  <2>2. CASE Len(job[u]) = 2
    <3>1. \A k \in 1..Len(job[u]) : k = 1 \/ k = 2
      BY <2>2
    <3>2. Owes(u, f, w) <=> (f = e /\ w \in to) \/ (f = d /\ w \in job[u][2].to)
      BY <2>2, <3>1 DEF Owes, e, to
    <3>3. (\E k \in 1..Len(s) : s[k].envelope = f /\ w \in s[k].to)
              <=> (f = e /\ w \in more) \/ (f = d /\ w \in job[u][2].to)
      BY <2>2, <1>11
    <3>4. Owes(u, f, w)' <=> (f = e /\ w \in more) \/ (f = d /\ w \in job[u][2].to)
      BY <3>3, <1>10 DEF Owes
    <3> QED
      BY <2>2, <3>2, <3>4
  <2> QED
    BY <2>1, <2>2, <1>4
<1>14. Owes(u, e, v)
  BY <1>3, <1>7, <1>13
<1>15. \A f \in Envelopes, w \in Users : Owes(u, f, w)' <=> Owes(u, f, w) /\ ~(f = e /\ w = v)
  BY <1>4, <1>13 DEF more
<1>16. e.type = "added" => \A f \in Envelopes, w \in Users : Owes(u, f, w) => f.type # "invite"
  BY <1>4, <1>13
<1>17. \A x \in Users \ {u} : \A f \in Envelopes, w \in Users : Owes(x, f, w)' <=> Owes(x, f, w)
  BY <1>10 DEF Owes
<1>18. Sends(u, v, e)
  BY <1>3, <1>6, <1>7, <1>14, <1>15, <1>16, <1>17 DEF Sends
<1> QED
  BY <1>3, <1>7, <1>10, <1>12, <1>18

(* What a step makes of what is due.                                         *)
LEMMA BeginDue ==
    ASSUME NEW u \in Users, NEW D, Begins(u, D)
    PROVE  /\ \A v \in Users, e \in Envelopes : Due(v, e)' <=> Due(v, e) \/ <<e, v>> \in D
           /\ \A v \in Users, e \in Envelopes : InBox(v, e)' <=> InBox(v, e)
<1>1. ASSUME NEW v \in Users, NEW e \in Envelopes
      PROVE  InBox(v, e)' <=> InBox(v, e)
  BY DEF Begins, InBox
<1>2. ASSUME NEW v \in Users, NEW e \in Envelopes
      PROVE  Due(v, e)' <=> Due(v, e) \/ <<e, v>> \in D
  BY <1>1 DEF Begins, Due
<1> QED
  BY <1>1, <1>2

(* A send leaves what is due as it is.                                      *)
LEMMA SendDue ==
    ASSUME Typed, NEW u \in Users, NEW v \in Users, NEW e \in Envelopes, Sends(u, v, e)
    PROVE  /\ \A w \in Users, f \in Envelopes : Due(w, f)' <=> Due(w, f)
           /\ \A w \in Users, f \in Envelopes : InBox(w, f)' <=> InBox(w, f) \/ (w = v /\ f = e)
<1>1. Len(mailbox[v]) \in Nat
  BY DEF Typed
<1>2. ASSUME NEW w \in Users, NEW f \in Envelopes
      PROVE  InBox(w, f)' <=> InBox(w, f) \/ (w = v /\ f = e)
  <2>1. CASE w # v
    BY <2>1 DEF Sends, Stored, InBox
  <2>2. CASE w = v
    <3> DEFINE n == Len(mailbox[v])
    <3>1. /\ Len(mailbox'[v]) = n + 1 /\ n \in Nat /\ mailbox'[v][n + 1] = e
          /\ \A k \in 1..n : mailbox'[v][k] = mailbox[v][k]
      BY <1>1 DEF Sends, Stored
    <3>2. InBox(v, f) <=> \E k \in 1..n : mailbox[v][k] = f
      BY DEF InBox
    <3>3. InBox(v, f)' <=> \E k \in 1..n + 1 : mailbox'[v][k] = f
      BY <3>1 DEF InBox
    <3> HIDE DEF n
    <3> QED
      BY <2>2, <3>1, <3>2, <3>3
  <2> QED
    BY <2>1, <2>2
<1>3. ASSUME NEW w \in Users, NEW f \in Envelopes
      PROVE  Due(w, f)' <=> Due(w, f)
  BY <1>2 DEF Sends, Due
<1> QED
  BY <1>2, <1>3

(* Taking e from a mailbox: only e may no longer be due.                    *)
LEMMA TakeDue ==
    ASSUME Typed, NEW v \in Users, NEW k, NEW e \in Envelopes, Taken(v, k, e), job' = job
    PROVE  /\ InBox(v, e) /\ Due(v, e)
           /\ \A u, w \in Users, f \in Envelopes : Owes(u, f, w)' <=> Owes(u, f, w)
           /\ \A w \in Users, f \in Envelopes : InBox(w, f)' => InBox(w, f)
           /\ \A w \in Users, f \in Envelopes : Due(w, f)' => Due(w, f)
           /\ \A w \in Users, f \in Envelopes : Due(w, f) => Due(w, f)' \/ (w = v /\ f = e)
<1>1. /\ k \in 1..Len(mailbox[v]) /\ mailbox[v][k] = e
      /\ \A i \in 1..Len(mailbox'[v]) :
            OldPlace(k, i) \in 1..Len(mailbox[v]) /\ mailbox'[v][i] = mailbox[v][OldPlace(k, i)]
      /\ \A j \in 1..Len(mailbox[v]) : j # k =>
            NewPlace(k, j) \in 1..Len(mailbox'[v]) /\ mailbox'[v][NewPlace(k, j)] = mailbox[v][j]
  BY TakenPlaces
<1>2. \A w \in Users \ {v} : mailbox'[w] = mailbox[w]
  BY DEF Taken
<1>4. InBox(v, e)
  BY <1>1 DEF InBox
<1>5. ASSUME NEW u \in Users, NEW w \in Users, NEW f \in Envelopes
      PROVE  Owes(u, f, w)' <=> Owes(u, f, w)
  BY DEF Owes
<1>6. ASSUME NEW w \in Users, NEW f \in Envelopes
      PROVE  /\ InBox(w, f)' => InBox(w, f)
             /\ InBox(w, f) => InBox(w, f)' \/ (w = v /\ f = e)
  <2>1. CASE w # v
    BY <2>1, <1>2 DEF InBox
  <2>2. CASE w = v
    <3>1. InBox(v, f)' => InBox(v, f)
      BY <1>1 DEF InBox
    <3>2. InBox(v, f) => InBox(v, f)' \/ f = e
      BY <1>1 DEF InBox
    <3> QED
      BY <2>2, <3>1, <3>2
  <2> QED
    BY <2>1, <2>2
<1>7. ASSUME NEW w \in Users, NEW f \in Envelopes
      PROVE  /\ Due(w, f)' => Due(w, f)
             /\ Due(w, f) => Due(w, f)' \/ (w = v /\ f = e)
  BY <1>5, <1>6 DEF Due
<1>8. Due(v, e)
  BY <1>4 DEF Due
<1> QED
  BY <1>4, <1>5, <1>6, <1>7, <1>8

(* What lies in a mailbox is due.                                            *)
LEMMA InBoxDue ==
    ASSUME Typed, NEW v \in Users, NEW k \in 1..Len(mailbox[v])
    PROVE  mailbox[v][k] \in Envelopes /\ InBox(v, mailbox[v][k]) /\ Due(v, mailbox[v][k])
<1>1. mailbox[v] \in Seq(Envelopes)
  BY DEF Typed
<1>2. mailbox[v][k] \in Envelopes
  BY <1>1
<1>3. InBox(v, mailbox[v][k])
  BY DEF InBox
<1> QED
  BY <1>2, <1>3 DEF Due

(* What is owed is due.                                                     *)
LEMMA OwedDue ==
    ASSUME NEW u \in Users, NEW v \in Users, NEW e, Owes(u, e, v)
    PROVE  Due(v, e)
BY DEF Due

(* Texts and pictures only become more, and nobody forgets the group.        *)
Onward ==
    /\ StillNamed
    /\ Len(author) <= Len(author')
    /\ \A i \in 1..Len(author) : author'[i] = author[i]
    /\ \A w \in Users : pictures.has[w][w] <= pictures'.has[w][w]

(* An envelope stays sound.                                                 *)
LEMMA SoundStays ==
    ASSUME Typed, Typed', Onward, NEW v \in Users, NEW e \in Envelopes, Sound(v, e)
    PROVE  Sound(v, e)'
<1>1. /\ e.from \in Users
      /\ e.type \in {"text", "delete"} => e.id \in 1..MaxTexts
      /\ e.type = "picture" => e.id \in 1..MaxOps
  BY EnvelopeFields
<1>2. Len(author) \in Nat /\ Len(author') \in Nat
  BY DEF Typed
<1>3. pictures.has[e.from][e.from] \in Nat /\ pictures'.has[e.from][e.from] \in Nat
  <2>1. pictures.has \in [Users -> [Users -> Nat]] /\ pictures'.has \in [Users -> [Users -> Nat]]
    BY DEF Typed
  <2> QED
    BY <2>1, <1>1
<1>4. ASSUME e.type \in {"text", "delete"}
      PROVE  e.id <= Len(author') /\ author'[e.id] = e.from
  <2>1. e.id \in 1..Len(author)
    BY <1>1, <1>2, <1>4 DEF Sound
  <2> QED
    BY <2>1, <1>2, <1>4 DEF Sound, Onward
<1>5. ASSUME e.type = "picture"
      PROVE  e.id <= pictures'.has[e.from][e.from]
  <2>1. e.id \in Nat
    BY <1>1, <1>5, GroupsAssumption
  <2> QED
    BY <2>1, <1>1, <1>3, <1>5 DEF Sound, Onward
<1>6. e.type # "picture" => named'[e.from] # "none"
  BY <1>1 DEF Sound, Onward, StillNamed
<1> QED
  BY <1>4, <1>5, <1>6 DEF Sound

(* So it is enough to look at what has become due.                          *)
LEMMA EnvelopesStay ==
    ASSUME Typed, Typed', Onward, EnvelopesOK,
           \A v \in Users, e \in Envelopes : Due(v, e)' => Due(v, e) \/ Sound(v, e)'
    PROVE  EnvelopesOK'
<1>1. ASSUME NEW v \in Users, NEW e \in Envelopes, Due(v, e)'
      PROVE  Sound(v, e)'
  <2>1. CASE Due(v, e)
    BY <2>1, SoundStays DEF EnvelopesOK
  <2>2. CASE ~Due(v, e)
    BY <2>2, <1>1
  <2> QED
    BY <2>1, <2>2
<1> QED
  BY <1>1 DEF EnvelopesOK

-----------------------------------------------------------------------------

(* Each action keeps Base.  The lemma also says what the action sends.      *)
LEMMA CreateGroupBase ==
    ASSUME Base, NEW u \in Users, NEW others \in SUBSET Users, CreateGroup(u, others)
    PROVE  /\ Base'
           /\ Begins(u, {Invite(u, "name", others \cup {u})} \X ((others \cup {u}) \ {u}))
<1> DEFINE all == others \cup {u}
           e == Invite(u, "name", all)
           to == all \ {u}
<1>1. Typed /\ JobsOK /\ EnvelopesOK /\ CopiesOK
  BY DEF Base
<1>2. /\ job[u] = <<>> /\ job' = [job EXCEPT ![u] = Round(e, to)]
      /\ named' = [named EXCEPT ![u] = "name"]
      /\ roster' = [roster EXCEPT ![u] = all]
      /\ members' = all
      /\ UNCHANGED <<mailbox, shown, author, retracted, left, calm, rejoined,
                     early, pictures, ops, overlaps, fails>>
  BY DEF CreateGroup
<1>3. e \in Envelopes /\ e.from = u /\ e.type = "invite"
  BY InviteMade
<1>4. all \in SUBSET Users /\ u \in all /\ to \in SUBSET Users /\ u \notin to
  OBVIOUS
<1> HIDE DEF e, all, to
<1>5. /\ named' \in [Users -> {"none", "name", "unknown"}] /\ named'[u] = "name"
      /\ \A w \in Users \ {u} : named'[w] = named[w] /\ roster'[w] = roster[w]
      /\ roster' \in [Users -> SUBSET Users] /\ StillNamed
  BY <1>1, <1>2, <1>4 DEF Typed, StillNamed
<1>6. job' \in [Users -> Seq(RoundSet)] /\ JobsOK' /\ Begins(u, {e} \X to)
  BY <1>1, <1>2, <1>3, <1>4, <1>5, BeginOne
<1>7. Typed'
  BY <1>1, <1>2, <1>4, <1>5, <1>6 DEF Typed
<1>8. EnvelopesOK'
  <2>1. Onward
    <3>1. pictures.has \in [Users -> [Users -> Nat]] /\ Len(author) \in Nat
      BY <1>1 DEF Typed
    <3> QED
      BY <3>1, <1>2, <1>5 DEF Onward
  <2>2. ASSUME NEW v \in Users, NEW f \in Envelopes, Due(v, f)'
        PROVE  Due(v, f) \/ Sound(v, f)'
    <3>1. CASE <<f, v>> \in {e} \X to
      BY <3>1, <1>3, <1>4, <1>5 DEF Sound
    <3>2. CASE <<f, v>> \notin {e} \X to
      BY <3>2, <2>2, <1>6, BeginDue
    <3> QED
      BY <3>1, <3>2
  <2> QED
    BY <2>1, <2>2, <1>1, <1>7, EnvelopesStay
<1>9. CopiesOK'
  BY <1>1, <1>2, <1>5 DEF CopiesOK
<1>10. UnfoundedOK'
  BY <1>2, <1>4 DEF UnfoundedOK
<1> QED
  BY <1>6, <1>7, <1>8, <1>9, <1>10 DEF Base, e, to, all

(* add_group_member keeps Base.                                             *)
LEMMA AddMemberBase ==
    ASSUME Base, NEW u \in Users, NEW w \in Users, AddMember(u, w)
    PROVE  /\ Base'
           /\ Begins(u, ({Invite(u, named[u], roster[u] \cup {w})} \X ({w} \ {u}))
                            \cup ({Added(u, w)} \X (roster[u] \ {u})))
<1> DEFINE d == Invite(u, named[u], roster[u] \cup {w})
           e == Added(u, w)
           A == {w} \ {u}
           B == roster[u] \ {u}
           D == ({d} \X A) \cup ({e} \X B)
<1>1. Typed /\ JobsOK /\ EnvelopesOK /\ CopiesOK /\ UnfoundedOK
  BY DEF Base
<1>2. /\ job[u] = <<>> /\ job' = [job EXCEPT ![u] = Round(d, A) \o Round(e, B)]
      /\ named[u] # "none" /\ Spare
      /\ roster' = [roster EXCEPT ![u] = roster[u] \cup {w}]
      /\ members' = members \cup {w} /\ ops' = ops + 1
      /\ calm' \in BOOLEAN /\ rejoined' \in BOOLEAN
      /\ UNCHANGED <<named, mailbox, shown, author, retracted, left, early, pictures,
                     overlaps, fails>>
  BY <1>1 DEF AddMember, Typed
<1>3. named[u] \in {"name", "unknown"} /\ roster[u] \in SUBSET Users
  BY <1>1, <1>2 DEF Typed
<1>4. /\ d \in Envelopes /\ d.from = u /\ d.type = "invite"
      /\ e \in Envelopes /\ e.from = u /\ e.type = "added"
  <2>1. roster[u] \cup {w} \in SUBSET Users
    BY <1>3
  <2> QED
    BY <2>1, <1>3, InviteMade, NoticeMade
<1>5. A \in SUBSET Users /\ u \notin A /\ B \in SUBSET Users /\ u \notin B
  BY <1>3
<1> HIDE DEF d, e, A, B
<1>6. StillNamed /\ named'[u] # "none"
  BY <1>2 DEF StillNamed
<1>7. job' \in [Users -> Seq(RoundSet)] /\ JobsOK' /\ Begins(u, D)
  BY <1>1, <1>2, <1>4, <1>5, <1>6, BeginTwo
<1>8. /\ roster' \in [Users -> SUBSET Users]
      /\ \A x \in Users \ {u} : roster'[x] = roster[x]
  BY <1>1, <1>2, <1>3 DEF Typed
<1>9. Typed'
  <2>1. ops' \in Nat /\ ops' + pictures.set <= MaxOps
    <3>1. ops \in Nat /\ overlaps \in Nat /\ pictures.set \in Nat
      BY <1>1 DEF Typed
    <3> QED
      BY <3>1, <1>2, GroupsAssumption DEF Spare
  <2> QED
    BY <2>1, <1>1, <1>2, <1>7, <1>8 DEF Typed
<1>10. EnvelopesOK'
  <2>1. Onward
    <3>1. pictures.has \in [Users -> [Users -> Nat]] /\ Len(author) \in Nat
      BY <1>1 DEF Typed
    <3> QED
      BY <3>1, <1>2 DEF Onward, StillNamed
  <2>2. ASSUME NEW v \in Users, NEW f \in Envelopes, Due(v, f)'
        PROVE  Due(v, f) \/ Sound(v, f)'
    <3>1. CASE <<f, v>> \in D
      BY <3>1, <1>4, <1>5, <1>6 DEF Sound
    <3>2. CASE <<f, v>> \notin D
      <4> HIDE DEF D
      <4> QED
        BY <3>2, <2>2, <1>7, BeginDue
    <3> QED
      BY <3>1, <3>2
  <2> QED
    BY <2>1, <2>2, <1>1, <1>9, EnvelopesStay
<1>11. CopiesOK'
  BY <1>1, <1>2, <1>8 DEF CopiesOK
<1>12. UnfoundedOK'
  BY <1>2 DEF UnfoundedOK
<1> QED
  BY <1>7, <1>9, <1>10, <1>11, <1>12 DEF Base, d, e, A, B

(* remove_group_member keeps Base.                                          *)
LEMMA RemoveMemberBase ==
    ASSUME Base, NEW u \in Users, NEW w \in Users, RemoveMember(u, w)
    PROVE  /\ Base'
           /\ Begins(u, {Removed(u, w)} \X (roster[u] \ {u}))
<1> DEFINE e == Removed(u, w)
           to == roster[u] \ {u}
<1>1. Typed /\ JobsOK /\ EnvelopesOK /\ CopiesOK /\ UnfoundedOK
  BY DEF Base
<1>2. /\ job[u] = <<>> /\ job' = [job EXCEPT ![u] = Round(e, to)]
      /\ named[u] # "none" /\ Spare
      /\ roster' = [roster EXCEPT ![u] = roster[u] \ {w}]
      /\ members' = members \ {w} /\ ops' = ops + 1 /\ left' = left \cup {w}
      /\ calm' \in BOOLEAN
      /\ UNCHANGED <<named, mailbox, shown, author, retracted, rejoined, early, pictures,
                     overlaps, fails>>
  BY <1>1 DEF RemoveMember, Typed
<1>3. e \in Envelopes /\ e.from = u /\ e.type = "removed"
  BY NoticeMade
<1>4. roster[u] \in SUBSET Users /\ to \in SUBSET Users /\ u \notin to
  BY <1>1 DEF Typed
<1> HIDE DEF e, to
<1>5. StillNamed /\ named'[u] # "none"
  BY <1>2 DEF StillNamed
<1>6. job' \in [Users -> Seq(RoundSet)] /\ JobsOK' /\ Begins(u, {e} \X to)
  BY <1>1, <1>2, <1>3, <1>4, <1>5, BeginOne
<1>7. /\ roster' \in [Users -> SUBSET Users]
      /\ \A x \in Users \ {u} : roster'[x] = roster[x]
  BY <1>1, <1>2, <1>4 DEF Typed
<1>8. Typed'
  <2>1. ops' \in Nat /\ ops' + pictures.set <= MaxOps
    <3>1. ops \in Nat /\ overlaps \in Nat /\ pictures.set \in Nat
      BY <1>1 DEF Typed
    <3> QED
      BY <3>1, <1>2, GroupsAssumption DEF Spare
  <2> QED
    BY <2>1, <1>1, <1>2, <1>6, <1>7 DEF Typed
<1>9. EnvelopesOK'
  <2>1. Onward
    <3>1. pictures.has \in [Users -> [Users -> Nat]] /\ Len(author) \in Nat
      BY <1>1 DEF Typed
    <3> QED
      BY <3>1, <1>2 DEF Onward, StillNamed
  <2>2. ASSUME NEW v \in Users, NEW f \in Envelopes, Due(v, f)'
        PROVE  Due(v, f) \/ Sound(v, f)'
    <3>1. CASE <<f, v>> \in {e} \X to
      BY <3>1, <1>3, <1>4, <1>5 DEF Sound
    <3>2. CASE <<f, v>> \notin {e} \X to
      BY <3>2, <2>2, <1>6, BeginDue
    <3> QED
      BY <3>1, <3>2
  <2> QED
    BY <2>1, <2>2, <1>1, <1>8, EnvelopesStay
<1>10. CopiesOK'
  BY <1>1, <1>2, <1>7 DEF CopiesOK
<1>11. UnfoundedOK'
  BY <1>2 DEF UnfoundedOK
<1> QED
  BY <1>6, <1>8, <1>9, <1>10, <1>11 DEF Base, e, to

(* send_text keeps Base, and adds its text to the end of author.            *)
LEMMA SendTextBase ==
    ASSUME Base, NEW u \in Users, SendText(u)
    PROVE  /\ Base'
           /\ Begins(u, {Text(u, Len(author) + 1)} \X (roster[u] \ {u}))
           /\ Len(author') = Len(author) + 1 /\ Len(author) + 1 \in 1..MaxTexts
           /\ author'[Len(author) + 1] = u
           /\ \A j \in 1..Len(author) : author'[j] = author[j]
           /\ \A x \in Users \ {u} : shown'[x] = shown[x]
           /\ shown'[u] \subseteq shown[u] \cup {Len(author) + 1}
<1> DEFINE i == Len(author) + 1
           e == Text(u, i)
           to == roster[u] \ {u}
<1>1. Typed /\ JobsOK /\ EnvelopesOK /\ CopiesOK /\ UnfoundedOK
  BY DEF Base
<1>2. /\ job[u] = <<>> /\ job' = [job EXCEPT ![u] = Round(e, to)]
      /\ u \in roster[u] /\ i <= MaxTexts
      /\ author' = Append(author, u)
      /\ \/ shown' = shown
         \/ shown' = [shown EXCEPT ![u] = shown[u] \cup {i}]
      /\ early' \in BOOLEAN
      /\ UNCHANGED <<named, roster, mailbox, retracted, members, left, calm,
                     rejoined, pictures, ops, overlaps, fails>>
  BY <1>1 DEF SendText, Typed
<1>3. author \in Seq(Users) /\ Len(author) \in Nat /\ i \in 1..MaxTexts
  BY <1>1, <1>2, GroupsAssumption DEF Typed
<1>4. /\ author' \in Seq(Users) /\ Len(author') = i /\ author'[i] = u
      /\ \A j \in 1..Len(author) : author'[j] = author[j]
  BY <1>2, <1>3, AppendProperties
<1>5. e \in Envelopes /\ e.from = u /\ e.type = "text" /\ e.id = i
  BY <1>3, TextMade
<1>6. to \in SUBSET Users /\ u \notin to
  BY <1>1 DEF Typed
<1> HIDE DEF e, to
<1>7. named[u] # "none" /\ StillNamed /\ named'[u] # "none"
  BY <1>1, <1>2 DEF CopiesOK, StillNamed
<1>8. job' \in [Users -> Seq(RoundSet)] /\ JobsOK' /\ Begins(u, {e} \X to)
  BY <1>1, <1>2, <1>5, <1>6, <1>7, BeginOne
<1>9. /\ shown' \in [Users -> SUBSET (1..Len(author'))]
      /\ \A x \in Users \ {u} : shown'[x] = shown[x]
      /\ shown'[u] \subseteq shown[u] \cup {i}
  <2>1. shown \in [Users -> SUBSET (1..Len(author))]
    BY <1>1 DEF Typed
  <2>2. 1..Len(author) \subseteq 1..i /\ i \in 1..i
    BY <1>3
  <2> HIDE DEF i
  <2>3. shown \in [Users -> SUBSET (1..i)]
    BY <2>1, <2>2
  <2> QED
    BY <2>2, <2>3, <1>2, <1>4
<1>10. Typed'
  <2>1. retracted \in SUBSET (1..Len(author'))
    BY <1>1, <1>3, <1>4 DEF Typed
  <2> QED
    BY <2>1, <1>1, <1>2, <1>4, <1>8, <1>9 DEF Typed
<1>11. EnvelopesOK'
  <2>1. Onward
    <3>1. pictures.has \in [Users -> [Users -> Nat]]
      BY <1>1 DEF Typed
    <3> QED
      BY <3>1, <1>2, <1>3, <1>4 DEF Onward, StillNamed
  <2>2. ASSUME NEW v \in Users, NEW f \in Envelopes, Due(v, f)'
        PROVE  Due(v, f) \/ Sound(v, f)'
    <3>1. CASE <<f, v>> \in {e} \X to
      <4>1. f = e /\ v # u
        BY <3>1, <1>6
      <4> QED
        BY <4>1, <1>3, <1>4, <1>5, <1>7 DEF Sound
    <3>2. CASE <<f, v>> \notin {e} \X to
      BY <3>2, <2>2, <1>8, BeginDue
    <3> QED
      BY <3>1, <3>2
  <2> QED
    BY <2>1, <2>2, <1>1, <1>10, EnvelopesStay
<1>12. CopiesOK'
  BY <1>1, <1>2, <1>7, <1>9 DEF CopiesOK
<1>13. UnfoundedOK'
  BY <1>1, <1>2, <1>7 DEF UnfoundedOK
<1> QED
  BY <1>3, <1>4, <1>8, <1>9, <1>10, <1>11, <1>12, <1>13 DEF Base, e, to

(* delete_message keeps Base.                                               *)
LEMMA DeleteTextBase ==
    ASSUME Base, NEW u \in Users, NEW i \in 1..MaxTexts, DeleteText(u, i)
    PROVE  /\ Base'
           /\ Begins(u, {Delete(u, i)} \X (roster[u] \ {u}))
<1> DEFINE e == Delete(u, i)
           to == roster[u] \ {u}
<1>1. Typed /\ JobsOK /\ EnvelopesOK /\ CopiesOK /\ UnfoundedOK
  BY DEF Base
<1>2. /\ job[u] = <<>> /\ job' = [job EXCEPT ![u] = Round(e, to)]
      /\ i \in shown[u] /\ author[i] = u
      /\ shown' = [shown EXCEPT ![u] = shown[u] \ {i}]
      /\ retracted' = retracted \cup {i}
      /\ UNCHANGED <<named, roster, mailbox, author, members, left, calm, rejoined,
                     early, pictures, ops, overlaps, fails>>
  BY DEF DeleteText
<1>3. Len(author) \in Nat /\ i \in 1..Len(author)
  BY <1>1, <1>2 DEF Typed
<1>4. e \in Envelopes /\ e.from = u /\ e.type = "delete" /\ e.id = i
  BY TextMade
<1>5. to \in SUBSET Users /\ u \notin to
  BY <1>1 DEF Typed
<1> HIDE DEF e, to
<1>6. named[u] # "none" /\ StillNamed /\ named'[u] # "none"
  BY <1>1, <1>2 DEF CopiesOK, StillNamed
<1>7. job' \in [Users -> Seq(RoundSet)] /\ JobsOK' /\ Begins(u, {e} \X to)
  BY <1>1, <1>2, <1>4, <1>5, <1>6, BeginOne
<1>8. /\ shown' \in [Users -> SUBSET (1..Len(author))]
      /\ \A x \in Users \ {u} : shown'[x] = shown[x]
  BY <1>1, <1>2 DEF Typed
<1>9. Typed'
  <2>1. retracted' \in SUBSET (1..Len(author))
    BY <1>1, <1>2, <1>3 DEF Typed
  <2> QED
    BY <2>1, <1>1, <1>2, <1>7, <1>8 DEF Typed
<1>10. EnvelopesOK'
  <2>1. Onward
    <3>1. pictures.has \in [Users -> [Users -> Nat]]
      BY <1>1 DEF Typed
    <3> QED
      BY <3>1, <1>2, <1>3 DEF Onward, StillNamed
  <2>2. ASSUME NEW v \in Users, NEW f \in Envelopes, Due(v, f)'
        PROVE  Due(v, f) \/ Sound(v, f)'
    <3>1. CASE <<f, v>> \in {e} \X to
      <4>1. f = e /\ v # u
        BY <3>1, <1>5
      <4>2. i <= Len(author)
        BY <1>3
      <4> QED
        BY <4>1, <4>2, <1>2, <1>4, <1>6 DEF Sound
    <3>2. CASE <<f, v>> \notin {e} \X to
      BY <3>2, <2>2, <1>7, BeginDue
    <3> QED
      BY <3>1, <3>2
  <2> QED
    BY <2>1, <2>2, <1>1, <1>9, EnvelopesStay
<1>11. CopiesOK'
  BY <1>1, <1>2, <1>6, <1>8 DEF CopiesOK
<1>12. UnfoundedOK'
  BY <1>1, <1>2, <1>6 DEF UnfoundedOK
<1> QED
  BY <1>7, <1>9, <1>10, <1>11, <1>12 DEF Base, e, to

(* setProfilePicture keeps Base, and changes only its own picture.          *)
LEMMA SetProfilePictureBase ==
    ASSUME Base, NEW u \in Users, SetProfilePicture(u)
    PROVE  /\ Base'
           /\ pictures'.has[u][u] \in 1..MaxOps /\ pictures'.told[u] \in SUBSET Users
           /\ Begins(u, {Picture(u, pictures'.has[u][u])} \X pictures'.told[u])
           /\ \A x, y \in Users : x # u \/ y # u => pictures'.has[x][y] = pictures.has[x][y]
           /\ \A x \in Users \ {u} : pictures'.told[x] = pictures.told[x]
<1> DEFINE to == KnownRecipients(u) \ {u}
           i == pictures.has[u][u] + 1
           e == Picture(u, i)
<1>1. Typed /\ JobsOK /\ EnvelopesOK /\ CopiesOK /\ UnfoundedOK
  BY DEF Base
<1>2. /\ job[u] = <<>> /\ job' = [job EXCEPT ![u] = Round(e, to)]
      /\ Spare
      /\ pictures' = [pictures EXCEPT !.has[u][u] = i, !.told[u] = to, !.set = pictures.set + 1]
      /\ UNCHANGED <<named, roster, mailbox, shown, author, retracted, members, left,
                     calm, rejoined, early, ops, overlaps, fails>>
  BY DEF SetProfilePicture
<1>3. to \in SUBSET Users /\ u \notin to
  BY <1>1 DEF Typed, KnownRecipients
<1>4. /\ pictures \in [has : [Users -> [Users -> Nat]], told : [Users -> SUBSET Users], set : Nat]
      /\ ops \in Nat /\ overlaps \in Nat /\ pictures.set \in Nat /\ pictures.has[u][u] \in Nat
      /\ pictures.has[u][u] <= pictures.set
  BY <1>1 DEF Typed, CopiesOK
<1>5. i \in Nat /\ i \in 1..MaxOps /\ pictures.has[u][u] <= i /\ i <= pictures.set + 1
  BY <1>2, <1>4, GroupsAssumption DEF Spare
<1>6. e \in Envelopes /\ e.from = u /\ e.type = "picture" /\ e.id = i
  BY <1>5, PictureMade
<1> HIDE DEF e, to, i
<1>7. /\ pictures'.has = [pictures.has EXCEPT ![u][u] = i]
      /\ pictures'.told = [pictures.told EXCEPT ![u] = to]
      /\ pictures'.set = pictures.set + 1
      /\ pictures' = [has |-> pictures'.has, told |-> pictures'.told, set |-> pictures'.set]
  BY <1>2, <1>4
<1>8. /\ pictures'.has \in [Users -> [Users -> Nat]]
      /\ pictures'.has[u][u] = i
      /\ \A x, y \in Users : x # u \/ y # u => pictures'.has[x][y] = pictures.has[x][y]
  <2>1. pictures.has \in [Users -> [Users -> Nat]]
    BY <1>4
  <2> QED
    BY <2>1, <1>5, <1>7
<1>9. /\ pictures'.told \in [Users -> SUBSET Users] /\ pictures'.told[u] = to
      /\ \A x \in Users \ {u} : pictures'.told[x] = pictures.told[x]
  <2>1. pictures.told \in [Users -> SUBSET Users]
    BY <1>4
  <2> QED
    BY <2>1, <1>3, <1>7
<1>10. StillNamed
  BY <1>2 DEF StillNamed
<1>11. job' \in [Users -> Seq(RoundSet)] /\ JobsOK' /\ Begins(u, {e} \X to)
  BY <1>1, <1>2, <1>3, <1>6, <1>10, BeginOne
<1>12. Typed'
  <2>1. pictures'.set \in Nat /\ ops + pictures'.set <= MaxOps
    BY <1>2, <1>4, <1>7, GroupsAssumption DEF Spare
  <2>2. pictures' \in [has : [Users -> [Users -> Nat]], told : [Users -> SUBSET Users], set : Nat]
    BY <2>1, <1>7, <1>8, <1>9
  <2> QED
    BY <2>1, <2>2, <1>1, <1>2, <1>11 DEF Typed
<1>13. EnvelopesOK'
  <2>1. Onward
    <3>1. pictures.has \in [Users -> [Users -> Nat]] /\ Len(author) \in Nat
      BY <1>1 DEF Typed
    <3>2. ASSUME NEW w \in Users
          PROVE  pictures.has[w][w] <= pictures'.has[w][w]
      <4>1. CASE w = u
        BY <4>1, <1>5, <1>8
      <4>2. CASE w # u
        <5>1. pictures.has[w][w] \in Nat /\ pictures'.has[w][w] = pictures.has[w][w]
          BY <4>2, <3>1, <1>8
        <5> QED
          BY <5>1
      <4> QED
        BY <4>1, <4>2
    <3> QED
      BY <3>1, <3>2, <1>2 DEF Onward, StillNamed
  <2>2. ASSUME NEW v \in Users, NEW f \in Envelopes, Due(v, f)'
        PROVE  Due(v, f) \/ Sound(v, f)'
    <3>1. CASE <<f, v>> \in {e} \X to
      <4>1. f = e /\ v # u
        BY <3>1, <1>3
      <4> QED
        BY <4>1, <1>5, <1>6, <1>8 DEF Sound
    <3>2. CASE <<f, v>> \notin {e} \X to
      BY <3>2, <2>2, <1>11, BeginDue
    <3> QED
      BY <3>1, <3>2
  <2> QED
    BY <2>1, <2>2, <1>1, <1>12, EnvelopesStay
<1>14. CopiesOK'
  <2>1. ASSUME NEW x \in Users, NEW y \in Users
        PROVE  pictures'.has[y][x] <= pictures'.has[x][x]
    <3>1. pictures.has \in [Users -> [Users -> Nat]] /\ pictures.has[y][x] <= pictures.has[x][x]
      BY <1>1, <1>4 DEF CopiesOK
    <3>2. pictures.has[y][x] \in Nat /\ pictures.has[x][x] \in Nat
      BY <3>1
    <3>3. CASE x = u /\ y = u
      BY <3>3, <1>5, <1>8
    <3>4. CASE x = u /\ y # u
      BY <3>1, <3>2, <3>4, <1>5, <1>8
    <3>5. CASE x # u
      BY <3>1, <3>5, <1>8
    <3> QED
      BY <3>3, <3>4, <3>5
  <2>2. ASSUME NEW x \in Users
        PROVE  pictures'.has[x][x] <= pictures'.set
    <3>1. CASE x = u
      BY <3>1, <1>5, <1>7, <1>8
    <3>2. CASE x # u
      <4>1. pictures.has[x][x] <= pictures.set /\ pictures.has[x][x] \in Nat
        BY <1>1, <1>4 DEF CopiesOK
      <4> QED
        BY <4>1, <3>2, <1>4, <1>7, <1>8
    <3> QED
      BY <3>1, <3>2
  <2> QED
    BY <2>1, <2>2, <1>1, <1>2 DEF CopiesOK
<1>15. UnfoundedOK'
  <2>1. ASSUME members = {}, left = {}, NEW v \in Users, NEW f \in Envelopes, Due(v, f)'
        PROVE  f.type = "picture"
    <3>1. CASE <<f, v>> \in {e} \X to
      BY <3>1, <1>6
    <3>2. CASE <<f, v>> \notin {e} \X to
      <4>1. Due(v, f)
        BY <3>2, <2>1, <1>11, BeginDue
      <4> QED
        BY <4>1, <2>1, <1>1 DEF UnfoundedOK
    <3> QED
      BY <3>1, <3>2
  <2> QED
    BY <2>1, <1>1, <1>2 DEF UnfoundedOK
<1>16. {Picture(u, pictures'.has[u][u])} \X pictures'.told[u] = {e} \X to
  BY <1>8, <1>9 DEF e
<1> QED
  BY <1>3, <1>5, <1>8, <1>9, <1>11, <1>12, <1>13, <1>14, <1>15, <1>16 DEF Base

(* One send of a fan-out keeps Base.                                        *)
LEMMA SendBase ==
    ASSUME Base, NEW u \in Users, Send(u)
    PROVE  /\ Base'
           /\ \E v \in Users, e \in Envelopes : Sends(u, v, e)
           /\ UNCHANGED <<named, roster, author, retracted, members, left, calm, rejoined,
                          early, pictures, ops, overlaps, fails>>
<1>1. Typed /\ JobsOK /\ EnvelopesOK /\ CopiesOK /\ UnfoundedOK
  BY DEF Base
<1>2. UNCHANGED <<named, roster, author, retracted, members, left, calm, rejoined,
                  early, pictures, ops, overlaps, fails>>
  BY DEF Send
<1>3. /\ job' \in [Users -> Seq(RoundSet)] /\ JobsOK'
      /\ mailbox' \in [Users -> Seq(Envelopes)]
      /\ \E v \in Users, e \in Envelopes : Sends(u, v, e)
  BY <1>1, SendFacts
<1>4. PICK v \in Users, e \in Envelopes : Sends(u, v, e)
  BY <1>3
<1>5. \A w \in Users, f \in Envelopes : Due(w, f)' <=> Due(w, f)
  BY <1>1, <1>4, SendDue
<1>6. /\ shown' \in [Users -> SUBSET (1..Len(author))]
      /\ \A x \in Users : shown'[x] # shown[x] => named[x] # "none"
  <2>1. CASE shown' = shown
    BY <2>1, <1>1 DEF Typed
  <2>2. CASE e.type = "text" /\ shown' = [shown EXCEPT ![u] = shown[u] \cup {e.id}]
    <3>1. Due(v, e) /\ Owes(u, e, v)
      BY <1>4, OwedDue DEF Sends
    <3>2. e.id \in 1..Len(author)
      <4>1. e.id \in 1..MaxTexts /\ e.id <= Len(author)
        BY <3>1, <2>2, <1>1, EnvelopeFields DEF EnvelopesOK, Sound
      <4> QED
        BY <4>1, <1>1 DEF Typed
    <3>3. named[u] # "none"
      BY <3>1, <2>2, <1>1 DEF Owes, JobsOK
    <3>4. shown \in [Users -> SUBSET (1..Len(author))]
      BY <1>1 DEF Typed
    <3> QED
      BY <3>2, <3>3, <3>4, <2>2
  <2> QED
    BY <2>1, <2>2, <1>4 DEF Sends
<1>7. Typed'
  BY <1>1, <1>2, <1>3, <1>6 DEF Typed
<1>8. EnvelopesOK'
  <2>1. Onward
    <3>1. pictures.has \in [Users -> [Users -> Nat]] /\ Len(author) \in Nat
      BY <1>1 DEF Typed
    <3> QED
      BY <3>1, <1>2 DEF Onward, StillNamed
  <2> QED
    BY <2>1, <1>1, <1>5, <1>7, EnvelopesStay
<1>9. CopiesOK'
  BY <1>1, <1>2, <1>6 DEF CopiesOK
<1>10. UnfoundedOK'
  BY <1>1, <1>2, <1>5 DEF UnfoundedOK
<1> QED
  BY <1>2, <1>3, <1>7, <1>8, <1>9, <1>10 DEF Base

(* Breaking off keeps Base, and takes away what was owed.                   *)
LEMMA BreakOffBase ==
    ASSUME Base, NEW u \in Users, BreakOff(u)
    PROVE  /\ Base'
           /\ \A x, w \in Users, f \in Envelopes : Owes(x, f, w)' => Owes(x, f, w)
<1>1. Typed /\ JobsOK /\ EnvelopesOK /\ CopiesOK /\ UnfoundedOK
  BY DEF Base
<1>2. /\ fails' = fails + 1 /\ job' = [job EXCEPT ![u] = <<>>] /\ calm' = FALSE
      /\ UNCHANGED <<named, roster, mailbox, shown, author, retracted, members, left,
                     rejoined, early, pictures, ops, overlaps>>
  BY DEF BreakOff
<1>3. /\ job' \in [Users -> Seq(RoundSet)] /\ job'[u] = <<>>
      /\ \A w \in Users \ {u} : job'[w] = job[w]
  <2>1. job \in [Users -> Seq(RoundSet)] /\ <<>> \in Seq(RoundSet)
    BY <1>1 DEF Typed
  <2> QED
    BY <2>1, <1>2
<1>4. JobsOK'
  <2>1. ASSUME NEW w \in Users
        PROVE  /\ \A k \in 1..Len(job'[w]) :
                     /\ job'[w][k].to # {} /\ w \notin job'[w][k].to
                     /\ job'[w][k].envelope.from = w
                     /\ job'[w][k].envelope.type # "picture" => named'[w] # "none"
               /\ \/ Len(job'[w]) <= 1
                  \/ /\ Len(job'[w]) = 2 /\ job'[w][1].envelope.type = "invite"
                     /\ job'[w][2].envelope.type = "added"
    <3>1. CASE w = u
      BY <3>1, <1>3
    <3>2. CASE w # u
      BY <3>2, <1>1, <1>2, <1>3 DEF JobsOK
    <3> QED
      BY <3>1, <3>2
  <2> QED
    BY <2>1 DEF JobsOK
<1>5. ASSUME NEW x \in Users, NEW w \in Users, NEW f \in Envelopes, Owes(x, f, w)'
      PROVE  Owes(x, f, w)
  <2>1. CASE x = u
    BY <2>1, <1>3, <1>5 DEF Owes
  <2>2. CASE x # u
    BY <2>2, <1>3, <1>5 DEF Owes
  <2> QED
    BY <2>1, <2>2
<1>6. ASSUME NEW w \in Users, NEW f \in Envelopes, Due(w, f)'
      PROVE  Due(w, f)
  BY <1>2, <1>5, <1>6 DEF Due, InBox
<1>7. Typed'
  <2>1. fails' \in Nat
    BY <1>1, <1>2 DEF Typed
  <2> QED
    BY <2>1, <1>1, <1>2, <1>3 DEF Typed
<1>8. EnvelopesOK'
  <2>1. Onward
    <3>1. pictures.has \in [Users -> [Users -> Nat]] /\ Len(author) \in Nat
      BY <1>1 DEF Typed
    <3> QED
      BY <3>1, <1>2 DEF Onward, StillNamed
  <2> QED
    BY <2>1, <1>1, <1>6, <1>7, EnvelopesStay
<1>9. CopiesOK'
  BY <1>1, <1>2 DEF CopiesOK
<1>10. UnfoundedOK'
  BY <1>1, <1>2, <1>6 DEF UnfoundedOK
<1> QED
  BY <1>4, <1>5, <1>7, <1>8, <1>9, <1>10 DEF Base

(* What v makes of e; but for an invitation or a picture he has the group.   *)
Handled(v, e) ==
    /\ \A x \in Users \ {v} :
          named'[x] = named[x] /\ roster'[x] = roster[x] /\ shown'[x] = shown[x]
    /\ e.type \notin {"invite", "picture"} => named[v] # "none"
    /\ named[v] # "none" => named'[v] = named[v]
    /\ e.type # "picture" => named'[v] # "none"
    /\ e.type = "picture" => named'[v] = named[v] /\ roster'[v] = roster[v]
    /\ e.type = "invite" /\ named[v] = "none" => named'[v] = e.name
    /\ e.type = "invite" => roster'[v] = roster[v] \cup e.members
    /\ e.type = "added" => roster'[v] = roster[v] \cup {e.who}
    /\ e.type = "removed" => roster'[v] = roster[v] \ {e.who}
    /\ e.type \in {"text", "delete"} => roster'[v] = roster[v]
    /\ e.type = "text" => shown'[v] = shown[v] \cup {e.id}
    /\ e.type = "delete" => shown'[v] = shown[v] \ {e.id}
    /\ e.type \notin {"text", "delete"} => shown'[v] = shown[v]
    /\ \A x, y \in Users :
          pictures'.has[x][y] = IF e.type = "picture" /\ x = v /\ y = e.from
                                  THEN e.id ELSE pictures.has[x][y]
    /\ pictures'.told = pictures.told /\ pictures'.set = pictures.set

(* The handlers, by the type of the envelope.                               *)
LEMMA HandleFacts ==
    ASSUME Typed, NEW v \in Users, NEW e \in Envelopes, Handle(v, e),
           NeedsGroup(e) => named[v] # "none",
           e.type \in {"text", "delete"} => e.id \in 1..Len(author)
    PROVE  /\ named' \in [Users -> {"none", "name", "unknown"}]
           /\ roster' \in [Users -> SUBSET Users]
           /\ shown' \in [Users -> SUBSET (1..Len(author))]
           /\ pictures' \in [has : [Users -> [Users -> Nat]], told : [Users -> SUBSET Users],
                             set : Nat]
           /\ Handled(v, e)
<1>1. /\ named \in [Users -> {"none", "name", "unknown"}]
      /\ roster \in [Users -> SUBSET Users]
      /\ shown \in [Users -> SUBSET (1..Len(author))]
      /\ pictures \in [has : [Users -> [Users -> Nat]], told : [Users -> SUBSET Users], set : Nat]
  BY DEF Typed
<1>2. /\ e.type \in {"invite", "added", "removed", "text", "delete", "picture"}
      /\ e.from \in Users
      /\ e.type = "invite" => e.members \in SUBSET Users /\ e.name \in {"name", "unknown"}
      /\ e.type \in {"added", "removed"} => e.who \in Users
      /\ e.type = "picture" => e.id \in 1..MaxOps
  BY EnvelopeFields
<1> DEFINE n == IF e.type = "invite" /\ named[v] = "none" THEN e.name ELSE named[v]
           r == NewRoster(v, e)
           s == CASE e.type = "text"   -> shown[v] \cup {e.id}
                  [] e.type = "delete" -> shown[v] \ {e.id}
                  [] OTHER             -> shown[v]
<1>3. /\ named' = [named EXCEPT ![v] = n]
      /\ roster' = [roster EXCEPT ![v] = r]
      /\ shown' = [shown EXCEPT ![v] = s]
      /\ pictures' = IF e.type = "picture" THEN [pictures EXCEPT !.has[v][e.from] = e.id]
                                           ELSE pictures
  BY DEF Handle
<1>4. /\ n \in {"none", "name", "unknown"}
      /\ named[v] # "none" => n = named[v]
      /\ e.type # "picture" => n # "none"
      /\ e.type = "picture" => n = named[v]
      /\ e.type = "invite" /\ named[v] = "none" => n = e.name
      /\ e.type \notin {"invite", "picture"} => named[v] # "none"
  BY <1>1, <1>2 DEF NeedsGroup
<1>5. /\ r \in SUBSET Users
      /\ e.type = "picture" => r = roster[v]
      /\ e.type = "invite" => r = roster[v] \cup e.members
      /\ e.type = "added" => r = roster[v] \cup {e.who}
      /\ e.type = "removed" => r = roster[v] \ {e.who}
      /\ e.type \in {"text", "delete"} => r = roster[v]
  <2>1. roster[v] \in SUBSET Users
    BY <1>1
  <2>2. CASE e.type = "invite"
    BY <2>1, <2>2, <1>2 DEF NewRoster
  <2>3. CASE e.type = "added"
    BY <2>1, <2>3, <1>2 DEF NewRoster
  <2>4. CASE e.type = "removed"
    BY <2>1, <2>4, <1>2 DEF NewRoster
  <2>5. CASE e.type \in {"text", "delete", "picture"}
    BY <2>1, <2>5, <1>2 DEF NewRoster
  <2> QED
    BY <2>2, <2>3, <2>4, <2>5, <1>2
<1>6. /\ s \in SUBSET (1..Len(author))
      /\ e.type = "text" => s = shown[v] \cup {e.id}
      /\ e.type = "delete" => s = shown[v] \ {e.id}
      /\ e.type \notin {"text", "delete"} => s = shown[v]
  BY <1>1
<1> HIDE DEF n, r, s
<1>7. /\ named' \in [Users -> {"none", "name", "unknown"}] /\ named'[v] = n
      /\ roster' \in [Users -> SUBSET Users] /\ roster'[v] = r
      /\ shown' \in [Users -> SUBSET (1..Len(author))] /\ shown'[v] = s
      /\ \A x \in Users \ {v} :
            named'[x] = named[x] /\ roster'[x] = roster[x] /\ shown'[x] = shown[x]
  BY <1>1, <1>3, <1>4, <1>5, <1>6
<1>8. /\ pictures' \in [has : [Users -> [Users -> Nat]], told : [Users -> SUBSET Users], set : Nat]
      /\ pictures'.told = pictures.told /\ pictures'.set = pictures.set
      /\ \A x, y \in Users :
            pictures'.has[x][y] = IF e.type = "picture" /\ x = v /\ y = e.from
                                    THEN e.id ELSE pictures.has[x][y]
  <2>1. CASE e.type # "picture"
    BY <2>1, <1>1, <1>3
  <2>2. CASE e.type = "picture"
    <3> DEFINE h == [pictures.has EXCEPT ![v][e.from] = e.id]
    <3>1. e.id \in Nat
      BY <2>2, <1>2, GroupsAssumption
    <3>2. pictures.has \in [Users -> [Users -> Nat]]
      BY <1>1
    <3>3. /\ h \in [Users -> [Users -> Nat]]
          /\ \A x, y \in Users : h[x][y] = IF x = v /\ y = e.from THEN e.id ELSE pictures.has[x][y]
      BY <3>1, <3>2, <1>2
    <3>4. pictures' = [pictures EXCEPT !.has = h]
      BY <2>2, <1>1, <1>3
    <3> HIDE DEF h
    <3>5. pictures'.has = h /\ pictures'.told = pictures.told /\ pictures'.set = pictures.set
      BY <3>4, <1>1
    <3>6. pictures' \in [has : [Users -> [Users -> Nat]], told : [Users -> SUBSET Users], set : Nat]
      BY <3>3, <3>4, <1>1
    <3> QED
      BY <2>2, <3>3, <3>5, <3>6
  <2> QED
    BY <2>1, <2>2
<1> QED
  BY <1>4, <1>5, <1>6, <1>7, <1>8 DEF Handled

(* An envelope in hand is handled: Base is kept.                            *)
LEMMA ReceiveBase ==
    ASSUME Base, NEW v \in Users, NEW k, Receive(v, k)
    PROVE  /\ Base'
           /\ \E e \in Envelopes : Taken(v, k, e) /\ Handled(v, e) /\ Sound(v, e)
           /\ UNCHANGED <<job, author, retracted, members, left, calm, rejoined, early,
                          ops, fails>>
<1> DEFINE e == mailbox[v][k]
<1>1. Typed /\ JobsOK /\ EnvelopesOK /\ CopiesOK /\ UnfoundedOK
  BY DEF Base
<1>2. /\ k \in DOMAIN mailbox[v]
      /\ mailbox' = [mailbox EXCEPT ![v] = Without(mailbox[v], k)]
      /\ Handle(v, e) /\ (NeedsGroup(e) => named[v] # "none")
      /\ UNCHANGED <<job, author, retracted, members, left, calm, rejoined, early,
                     ops, fails>>
  BY DEF Receive, InHand
<1>3. mailbox' \in [Users -> Seq(Envelopes)] /\ e \in Envelopes /\ Taken(v, k, e)
  <2>1. k \in 1..Len(mailbox[v])
    BY <1>1, <1>2 DEF Typed
  <2> QED
    BY <2>1, <1>1, <1>2, TakeFacts
<1> HIDE DEF e
<1>4. /\ InBox(v, e) /\ Due(v, e)
      /\ \A w \in Users, f \in Envelopes : Due(w, f)' => Due(w, f)
  BY <1>1, <1>2, <1>3, TakeDue
<1>5. Sound(v, e)
  BY <1>1, <1>3, <1>4 DEF EnvelopesOK
<1>6. /\ e.from \in Users
      /\ e.type \in {"text", "delete"} => e.id \in 1..Len(author)
      /\ e.type = "picture" => e.id \in 1..MaxOps
  <2>1. /\ e.type \in {"text", "delete"} => e.id \in 1..MaxTexts
        /\ e.from \in Users
        /\ e.type = "picture" => e.id \in 1..MaxOps
    BY <1>3, EnvelopeFields
  <2>2. Len(author) \in Nat
    BY <1>1 DEF Typed
  <2>3. e.type \in {"text", "delete"} => e.id <= Len(author)
    BY <1>5 DEF Sound
  <2> QED
    BY <2>1, <2>2, <2>3
<1>7. /\ named' \in [Users -> {"none", "name", "unknown"}]
      /\ roster' \in [Users -> SUBSET Users]
      /\ shown' \in [Users -> SUBSET (1..Len(author))]
      /\ pictures' \in [has : [Users -> [Users -> Nat]], told : [Users -> SUBSET Users], set : Nat]
      /\ Handled(v, e)
  BY <1>1, <1>2, <1>3, <1>6, HandleFacts
<1>8. Typed'
  <2>1. ops + pictures'.set <= MaxOps
    BY <1>1, <1>7 DEF Typed, Handled
  <2>2. overlaps' \in Nat
    BY <1>1 DEF Typed, Receive, InTurnOrSpare
  <2> QED
    BY <2>1, <2>2, <1>1, <1>2, <1>3, <1>7 DEF Typed
<1>9. \A x \in Users : pictures'.has[x][x] = pictures.has[x][x]
  BY <1>5, <1>7 DEF Handled, Sound
<1>10. StillNamed
  BY <1>7 DEF Handled, StillNamed
<1>11. EnvelopesOK'
  <2>1. Onward
    <3>1. pictures.has \in [Users -> [Users -> Nat]] /\ Len(author) \in Nat
      BY <1>1 DEF Typed
    <3> QED
      BY <3>1, <1>2, <1>9, <1>10 DEF Onward
  <2> QED
    BY <2>1, <1>1, <1>4, <1>8, EnvelopesStay
<1>12. JobsOK'
  BY <1>1, <1>2, <1>10 DEF JobsOK, StillNamed
<1>13. CopiesOK'
  <2>1. ASSUME NEW x \in Users, named'[x] = "none"
        PROVE  roster'[x] = {} /\ shown'[x] = {}
    <3>1. CASE x = v
      <4>1. named[v] = "none" /\ e.type = "picture"
        BY <2>1, <3>1, <1>7 DEF Handled
      <4>2. roster'[v] = roster[v] /\ shown'[v] = shown[v]
        BY <4>1, <1>7 DEF Handled
      <4> QED
        BY <3>1, <4>1, <4>2, <1>1 DEF CopiesOK
    <3>2. CASE x # v
      BY <2>1, <3>2, <1>1, <1>7 DEF CopiesOK, Handled
    <3> QED
      BY <3>1, <3>2
  <2>2. ASSUME NEW x \in Users, NEW y \in Users
        PROVE  pictures'.has[y][x] <= pictures'.has[x][x]
    <3>1. pictures.has[y][x] <= pictures.has[x][x] /\ pictures'.has[x][x] = pictures.has[x][x]
      BY <1>1, <1>9 DEF CopiesOK
    <3>2. CASE e.type = "picture" /\ y = v /\ x = e.from
      BY <3>1, <3>2, <1>5, <1>7 DEF Handled, Sound
    <3>3. CASE ~(e.type = "picture" /\ y = v /\ x = e.from)
      BY <3>1, <3>3, <1>7 DEF Handled
    <3> QED
      BY <3>2, <3>3
  <2>3. \A x \in Users : pictures'.has[x][x] <= pictures'.set
    BY <1>1, <1>7, <1>9 DEF CopiesOK, Handled
  <2> QED
    BY <2>1, <2>2, <2>3 DEF CopiesOK
<1>14. UnfoundedOK'
  <2>1. ASSUME members = {}, left = {}
        PROVE  /\ \A x \in Users : named'[x] = "none"
               /\ \A w \in Users, f \in Envelopes : Due(w, f)' => f.type = "picture"
    <3>1. e.type = "picture" /\ \A x \in Users : named[x] = "none"
      BY <2>1, <1>1, <1>3, <1>4 DEF UnfoundedOK
    <3>2. named'[v] = named[v] /\ \A x \in Users \ {v} : named'[x] = named[x]
      BY <3>1, <1>7 DEF Handled
    <3> QED
      BY <2>1, <3>1, <3>2, <1>1, <1>4 DEF UnfoundedOK
  <2> QED
    BY <2>1, <1>1, <1>2 DEF UnfoundedOK
<1> QED
  BY <1>2, <1>3, <1>5, <1>7, <1>8, <1>11, <1>12, <1>13, <1>14 DEF Base

(* Nothing moves.                                                            *)
LEMMA SameDue ==
    ASSUME mailbox' = mailbox, job' = job
    PROVE  /\ \A v \in Users, e \in Envelopes : Due(v, e)' <=> Due(v, e)
           /\ \A v \in Users, e \in Envelopes : InBox(v, e)' <=> InBox(v, e)
           /\ \A u, v \in Users, e \in Envelopes : Owes(u, e, v)' <=> Owes(u, e, v)
BY DEF Due, InBox, Owes

(* That no group is found for an envelope keeps Base.                       *)
LEMMA MissBase ==
    ASSUME Base, NEW v \in Users, NEW k, Miss(v, k)
    PROVE  Base'
<1>1. UNCHANGED <<named, roster, job, mailbox, shown, author, retracted, members, left,
                  calm, rejoined, early, pictures, ops, fails>>
  BY DEF Miss
<1>2. /\ \A w \in Users, e \in Envelopes : Due(w, e)' <=> Due(w, e)
      /\ \A w \in Users, e \in Envelopes : Sound(w, e)' <=> Sound(w, e)
  BY <1>1, SameDue DEF Sound
<1>3. Typed'
  <2>1. overlaps' \in Nat
    BY DEF Base, Typed, Miss, InTurnOrSpare
  <2> QED
    BY <2>1, <1>1 DEF Base, Typed
<1>4. JobsOK'
  BY <1>1 DEF Base, JobsOK
<1>5. EnvelopesOK'
  BY <1>2 DEF Base, EnvelopesOK
<1>6. CopiesOK'
  BY <1>1 DEF Base, CopiesOK
<1>7. UnfoundedOK'
  BY <1>1, <1>2 DEF Base, UnfoundedOK
<1> QED
  BY <1>3, <1>4, <1>5, <1>6, <1>7 DEF Base

(* v has the group, with itself and the sender of e at least.                *)
Degraded(v, e) ==
    /\ \A x \in Users \ {v} : named'[x] = named[x] /\ roster'[x] = roster[x]
    /\ named'[v] = IF named[v] = "none" THEN "unknown" ELSE named[v]
    /\ roster'[v] = roster[v] \cup {e.from, v}

(* Making the group for an envelope keeps Base.                             *)
LEMMA DegradeBase ==
    ASSUME Base, HandsOK, NEW v \in Users, NEW k, Degrade(v, k)
    PROVE  /\ Base'
           /\ k \in 1..Len(mailbox[v]) /\ mailbox[v][k] \in Envelopes
           /\ NeedsGroup(mailbox[v][k]) /\ Due(v, mailbox[v][k])
           /\ Sound(v, mailbox[v][k]) /\ Degraded(v, mailbox[v][k])
           /\ UNCHANGED <<job, mailbox, shown, author, retracted, members, left, calm, rejoined,
                          early, pictures, ops, overlaps, fails>>
<1>1. Typed /\ JobsOK /\ EnvelopesOK /\ CopiesOK /\ UnfoundedOK
  BY DEF Base
<1> DEFINE e == mailbox[v][k]
<1>2. /\ k \in missed[v]
      /\ named' = [named EXCEPT ![v] = IF named[v] = "none" THEN "unknown" ELSE named[v]]
      /\ roster' = [roster EXCEPT ![v] = roster[v] \cup {e.from, v}]
      /\ UNCHANGED <<job, mailbox, shown, author, retracted, members, left, calm, rejoined,
                     early, pictures, ops, overlaps, fails>>
  BY DEF Degrade
<1>3. k \in 1..Len(mailbox[v]) /\ NeedsGroup(e)
  BY <1>2 DEF HandsOK
<1>4. e \in Envelopes /\ Due(v, e)
  BY <1>1, <1>3, InBoxDue
<1> HIDE DEF e
<1>5. Sound(v, e) /\ e.from \in Users /\ e.type # "picture"
  BY <1>1, <1>3, <1>4, EnvelopeFields DEF EnvelopesOK, NeedsGroup
<1>6. /\ named' \in [Users -> {"none", "name", "unknown"}]
      /\ roster' \in [Users -> SUBSET Users] /\ Degraded(v, e)
  BY <1>1, <1>2, <1>5 DEF Typed, Degraded
<1>7. Typed'
  BY <1>1, <1>2, <1>6 DEF Typed
<1>8. StillNamed
  BY <1>6 DEF Degraded, StillNamed
<1>9. JobsOK'
  BY <1>1, <1>2, <1>8 DEF JobsOK, StillNamed
<1>10. \A w \in Users, f \in Envelopes : Due(w, f)' <=> Due(w, f)
  BY <1>2, SameDue
<1>11. EnvelopesOK'
  <2>1. Onward
    <3>1. pictures.has \in [Users -> [Users -> Nat]] /\ Len(author) \in Nat
      BY <1>1 DEF Typed
    <3> QED
      BY <3>1, <1>2, <1>8 DEF Onward
  <2> QED
    BY <2>1, <1>1, <1>7, <1>10, EnvelopesStay
<1>12. CopiesOK'
  BY <1>1, <1>2, <1>6 DEF CopiesOK, Degraded
<1>13. UnfoundedOK'
  BY <1>1, <1>2, <1>4, <1>5 DEF UnfoundedOK
<1> QED
  BY <1>2, <1>3, <1>4, <1>5, <1>6, <1>7, <1>9, <1>11, <1>12, <1>13 DEF Base, e

(* What v has handled is noted, and so is what it overtook.                  *)
LEMMA OvertookFacts ==
    ASSUME NEW v, NEW k, Overtakes(v, k)
    PROVE  /\ overtaken \subseteq overtaken'
           /\ \A j \in 1..k - 1 : mailbox[v][j].type \in {"invite", "text", "picture"} =>
                 <<v, mailbox[v][j]>> \in overtaken'
BY DEF Overtakes

(* What was overtaken remains so.                                           *)
LEMMA OvertakenStays ==
    ASSUME [Next]_vars
    PROVE  overtaken \subseteq overtaken'
<1>1. ASSUME NEW u \in Users, NEW k, Degrade(u, k) \/ Receive(u, k)
      PROVE  overtaken \subseteq overtaken'
  BY <1>1, OvertookFacts DEF Degrade, Receive
<1>2. ASSUME NEW u \in Users, NEW k, Miss(u, k)
      PROVE  overtaken' = overtaken
  BY <1>2 DEF Miss
<1>3. ASSUME NEW u \in Users, \E others \in SUBSET Users : CreateGroup(u, others)
      PROVE  overtaken' = overtaken
  BY <1>3 DEF CreateGroup
<1>4. ASSUME NEW u \in Users, \E w \in Users : AddMember(u, w) \/ RemoveMember(u, w)
      PROVE  overtaken' = overtaken
  BY <1>4 DEF AddMember, RemoveMember
<1>5. ASSUME NEW u \in Users,
             SendText(u) \/ SetProfilePicture(u) \/ BreakOff(u) \/ Send(u)
      PROVE  overtaken' = overtaken
  BY <1>5 DEF SendText, SetProfilePicture, BreakOff, Send
<1>6. ASSUME NEW u \in Users, \E i \in 1..MaxTexts : DeleteText(u, i)
      PROVE  overtaken' = overtaken
  BY <1>6 DEF DeleteText
<1>7. CASE UNCHANGED vars
  BY <1>7 DEF vars
<1> QED
  BY <1>1, <1>2, <1>3, <1>4, <1>5, <1>6, <1>7 DEF Next

(* Every step leaves those that found no group in their mailbox.            *)
LEMMA NextHands ==
    ASSUME Base, HandsOK, [Next]_vars
    PROVE  HandsOK'
<1>1. Typed /\ JobsOK
  BY DEF Base
<1>2. ASSUME missed' = missed, mailbox' = mailbox
      PROVE  HandsOK'
  BY <1>2 DEF HandsOK
<1>3. ASSUME NEW u \in Users, Send(u)
      PROVE  HandsOK'
  <2>1. PICK v \in Users, e \in Envelopes : Stored(v, e)
    BY <1>1, <1>3, SendFacts DEF Sends
  <2>2. missed' = missed
    BY <1>3 DEF Send
  <2>3. ASSUME NEW w \in Users, NEW k \in missed[w]
        PROVE  k \in 1..Len(mailbox'[w]) /\ mailbox'[w][k] = mailbox[w][k]
    <3>1. k \in 1..Len(mailbox[w]) /\ Len(mailbox[w]) \in Nat
      BY <1>1 DEF HandsOK, Typed
    <3>2. CASE w = v
      BY <3>1, <3>2, <2>1 DEF Stored
    <3>3. CASE w # v
      BY <3>1, <3>3, <2>1 DEF Stored
    <3> QED
      BY <3>2, <3>3
  <2> QED
    BY <2>2, <2>3 DEF HandsOK
<1>4. ASSUME NEW v \in Users, NEW k, Miss(v, k)
      PROVE  HandsOK'
  <2>1. /\ missed' = [missed EXCEPT ![v] = missed[v] \cup {k}] /\ mailbox' = mailbox
        /\ k \in 1..Len(mailbox[v]) /\ NeedsGroup(mailbox[v][k])
    BY <1>1, <1>4 DEF Miss, InHand, Typed
  <2>2. k \in Nat
    BY <2>1
  <2> QED
    BY <2>1, <2>2 DEF HandsOK
<1>5. ASSUME NEW v \in Users, NEW k, Degrade(v, k)
      PROVE  HandsOK'
  <2>1. missed' = [missed EXCEPT ![v] = missed[v] \ {k}] /\ mailbox' = mailbox
    BY <1>5 DEF Degrade
  <2> QED
    BY <2>1 DEF HandsOK
<1>6. ASSUME NEW v \in Users, NEW k, Receive(v, k)
      PROVE  HandsOK'
  <2>1. PICK e \in Envelopes : Taken(v, k, e)
    BY <1>6, ReceiveBase
  <2>2. /\ k \notin missed[v]
        /\ missed' = [missed EXCEPT ![v] = {NewPlace(k, j) : j \in missed[v]}]
    BY <1>6 DEF Receive, NewPlace
  <2>3. ASSUME NEW j \in missed[v]
        PROVE  /\ NewPlace(k, j) \in 1..Len(mailbox'[v])
               /\ NeedsGroup(mailbox'[v][NewPlace(k, j)])
    <3>1. j \in 1..Len(mailbox[v]) /\ j # k /\ NeedsGroup(mailbox[v][j])
      BY <2>2 DEF HandsOK
    <3> QED
      BY <3>1, <2>1, <1>1, TakenPlaces
  <2>4. \A i \in 1..Len(mailbox'[v]) : i \in Nat
    OBVIOUS
  <2>5. missed' \in [Users -> SUBSET Nat]
    BY <2>2, <2>3, <2>4 DEF HandsOK
  <2>6. missed'[v] = {NewPlace(k, j) : j \in missed[v]}
    BY <2>2 DEF HandsOK
  <2>7. \A w \in Users \ {v} : missed'[w] = missed[w] /\ mailbox'[w] = mailbox[w]
    BY <2>1, <2>2 DEF HandsOK, Taken
  <2>8. ASSUME NEW w \in Users, NEW i \in missed'[w]
        PROVE  i \in 1..Len(mailbox'[w]) /\ NeedsGroup(mailbox'[w][i])
    <3>1. CASE w = v
      BY <3>1, <2>3, <2>6
    <3>2. CASE w # v
      BY <3>2, <2>7 DEF HandsOK
    <3> QED
      BY <3>1, <3>2
  <2> QED
    BY <2>5, <2>8 DEF HandsOK
<1>7. ASSUME NEW u \in Users, \E others \in SUBSET Users : CreateGroup(u, others)
      PROVE  HandsOK'
  BY <1>2, <1>7 DEF CreateGroup
<1>8. ASSUME NEW u \in Users, \E w \in Users : AddMember(u, w) \/ RemoveMember(u, w)
      PROVE  HandsOK'
  BY <1>2, <1>8 DEF AddMember, RemoveMember
<1>9. ASSUME NEW u \in Users, SendText(u) \/ SetProfilePicture(u) \/ BreakOff(u)
      PROVE  HandsOK'
  BY <1>2, <1>9 DEF SendText, SetProfilePicture, BreakOff
<1>10. ASSUME NEW u \in Users, \E i \in 1..MaxTexts : DeleteText(u, i)
       PROVE  HandsOK'
  BY <1>2, <1>10 DEF DeleteText
<1>11. CASE UNCHANGED vars
  BY <1>2, <1>11 DEF vars
<1> QED
  BY <1>3, <1>4, <1>5, <1>6, <1>7, <1>8, <1>9, <1>10, <1>11 DEF Next

(* Nothing is due at first.                                                 *)
LEMMA InitBase ==
    ASSUME Init
    PROVE  /\ Base /\ HandsOK
           /\ \A v \in Users, e \in Envelopes : ~Due(v, e)
           /\ \A u, v \in Users, e \in Envelopes : ~Owes(u, e, v)
           /\ \A u \in Users : named[u] = "none" /\ roster[u] = {} /\ Len(mailbox[u]) = 0
<1>1. \A u \in Users : /\ job[u] = <<>> /\ mailbox[u] = <<>> /\ named[u] = "none"
                       /\ roster[u] = {} /\ shown[u] = {}
  BY DEF Init
<1>2. \A u \in Users : Len(job[u]) = 0 /\ Len(mailbox[u]) = 0
  BY <1>1
<1>3. \A u, v \in Users, e \in Envelopes : ~Owes(u, e, v)
  BY <1>2 DEF Owes
<1>4. \A v \in Users, e \in Envelopes : ~Due(v, e)
  BY <1>2, <1>3 DEF Due, InBox
<1>5. Typed
  <2>1. /\ job \in [Users -> Seq(RoundSet)] /\ mailbox \in [Users -> Seq(Envelopes)]
        /\ author \in Seq(Users) /\ Len(author) = 0
    BY DEF Init
  <2>2. /\ named \in [Users -> {"none", "name", "unknown"}]
        /\ roster \in [Users -> SUBSET Users]
        /\ shown \in [Users -> SUBSET (1..Len(author))]
    BY DEF Init
  <2>3. /\ pictures \in [has : [Users -> [Users -> Nat]], told : [Users -> SUBSET Users], set : Nat]
        /\ pictures.set = 0
    BY DEF Init
  <2>4. /\ retracted \in SUBSET (1..Len(author)) /\ members \in SUBSET Users
        /\ left \in SUBSET Users /\ calm \in BOOLEAN /\ rejoined \in BOOLEAN
        /\ early \in BOOLEAN /\ ops = 0 /\ overlaps = 0 /\ fails = 0
    BY DEF Init
  <2>5. /\ Len(author) <= MaxTexts /\ ops + pictures.set <= MaxOps
        /\ ops \in Nat /\ overlaps \in Nat /\ fails \in Nat
    BY <2>1, <2>3, <2>4, GroupsAssumption
  <2> QED
    BY <2>1, <2>2, <2>3, <2>4, <2>5 DEF Typed
<1>6. JobsOK
  BY <1>2 DEF JobsOK
<1>7. CopiesOK
  <2>1. \A u, w \in Users : pictures.has[w][u] = 0
    BY DEF Init
  <2>2. pictures.set = 0
    BY DEF Init
  <2> QED
    BY <2>1, <2>2, <1>1 DEF CopiesOK
<1>8. UnfoundedOK
  BY <1>1, <1>4 DEF UnfoundedOK, Init
<1>9. EnvelopesOK
  BY <1>4 DEF EnvelopesOK
<1>10. HandsOK
  BY DEF Init, HandsOK
<1> QED
  BY <1>1, <1>2, <1>3, <1>4, <1>5, <1>6, <1>7, <1>8, <1>9, <1>10 DEF Base

(* Every step keeps Base.                                                   *)
LEMMA NextBase ==
    ASSUME Base, HandsOK, [Next]_vars
    PROVE  Base'
<1>1. ASSUME NEW u \in Users, NEW others \in SUBSET Users, CreateGroup(u, others)
      PROVE  Base'
  BY <1>1, CreateGroupBase
<1>2. ASSUME NEW u \in Users, NEW w \in Users, AddMember(u, w)
      PROVE  Base'
  BY <1>2, AddMemberBase
<1>3. ASSUME NEW u \in Users, NEW w \in Users, RemoveMember(u, w)
      PROVE  Base'
  BY <1>3, RemoveMemberBase
<1>4. ASSUME NEW u \in Users, SendText(u)
      PROVE  Base'
  BY <1>4, SendTextBase
<1>5. ASSUME NEW u \in Users, SetProfilePicture(u)
      PROVE  Base'
  BY <1>5, SetProfilePictureBase
<1>6. ASSUME NEW u \in Users, NEW i \in 1..MaxTexts, DeleteText(u, i)
      PROVE  Base'
  BY <1>6, DeleteTextBase
<1>7. ASSUME NEW u \in Users, Send(u)
      PROVE  Base'
  BY <1>7, SendBase
<1>8. ASSUME NEW u \in Users, BreakOff(u)
      PROVE  Base'
  BY <1>8, BreakOffBase
<1>9. ASSUME NEW u \in Users, NEW k, Miss(u, k) \/ Degrade(u, k) \/ Receive(u, k)
      PROVE  Base'
  BY <1>9, MissBase, DegradeBase, ReceiveBase
<1>10. CASE UNCHANGED vars
  <2>1. /\ \A v \in Users, e \in Envelopes : Due(v, e)' <=> Due(v, e)
        /\ \A v \in Users, e \in Envelopes : Sound(v, e)' <=> Sound(v, e)
    BY <1>10 DEF vars, Due, InBox, Owes, Sound
  <2>2. Typed'
    BY <1>10 DEF vars, Base, Typed
  <2>3. JobsOK'
    BY <1>10 DEF vars, Base, JobsOK
  <2>4. EnvelopesOK'
    BY <2>1 DEF Base, EnvelopesOK
  <2>5. CopiesOK'
    BY <1>10 DEF vars, Base, CopiesOK
  <2>6. UnfoundedOK'
    BY <2>1, <1>10 DEF vars, Base, UnfoundedOK
  <2> QED
    BY <2>2, <2>3, <2>4, <2>5, <2>6 DEF Base
<1> QED
  BY <1>1, <1>2, <1>3, <1>4, <1>5, <1>6, <1>7, <1>8, <1>9, <1>10 DEF Next

(* Base holds always: the values of the variables, and what they owe each   *)
(* other.                                                                    *)
THEOREM BaseInvariant == Spec => [](Base /\ HandsOK)
<1>1. Init => Base /\ HandsOK
  BY InitBase
<1>2. Base /\ HandsOK /\ [Next]_vars => Base' /\ HandsOK'
  BY NextBase, NextHands
<1> QED
  BY <1>1, <1>2, PTL DEF Spec

(* What a client holds of the group fits together: who does not know it has  *)
(* neither roster nor history, an operation in hand has somebody left to     *)
(* send to and never itself, a mailbox holds only what others sent, and no   *)
(* picture is from later than the last one set (session_manager.py:151-213,  *)
(* sessionManager.ts:213-286).                                               *)
THEOREM GroupsTypeCorrect == Spec => []TypeOK
<1>1. Base /\ HandsOK => TypeOK
  <2> SUFFICES ASSUME Base, HandsOK
               PROVE  TypeOK
    OBVIOUS
  <2>1. Typed /\ JobsOK /\ EnvelopesOK /\ CopiesOK
    BY DEF Base
  <2>2. ASSUME NEW u \in Users, NEW k \in DOMAIN job[u]
        PROVE  /\ job[u][k].envelope \in Envelopes
               /\ job[u][k].to \in (SUBSET (Users \ {u})) \ {{}}
    <3>1. job[u] \in Seq(RoundSet) /\ k \in 1..Len(job[u])
      BY <2>1 DEF Typed
    <3>2. job[u][k] \in RoundSet
      BY <3>1
    <3>3. job[u][k].envelope \in Envelopes /\ job[u][k].to \in SUBSET Users
      BY <3>2 DEF RoundSet
    <3>4. job[u][k].to # {} /\ u \notin job[u][k].to
      BY <3>1, <2>1 DEF JobsOK
    <3>5. job[u][k].to \in SUBSET (Users \ {u})
      BY <3>3, <3>4
    <3>6. job[u][k].to \in (SUBSET (Users \ {u})) \ {{}}
      BY <3>4, <3>5
    <3> QED
      BY <3>3, <3>6
  <2>3. ASSUME NEW u \in Users, NEW k \in DOMAIN mailbox[u]
        PROVE  mailbox[u][k] \in Envelopes /\ mailbox[u][k].from # u
    <3>1. mailbox[u] \in Seq(Envelopes) /\ k \in 1..Len(mailbox[u])
      BY <2>1 DEF Typed
    <3>2. mailbox[u][k] \in Envelopes /\ Due(u, mailbox[u][k])
      BY <3>1, <2>1, InBoxDue
    <3> QED
      BY <3>2, <2>1 DEF EnvelopesOK, Sound
  <2>4. pictures.has \in [Users -> [Users -> 0..MaxOps]]
    <3>1. pictures.has \in [Users -> [Users -> Nat]]
      BY <2>1 DEF Typed
    <3>2. ASSUME NEW w \in Users, NEW u \in Users
          PROVE  pictures.has[w][u] \in 0..MaxOps
      <4>1. /\ pictures.has[w][u] <= pictures.has[u][u] /\ pictures.has[u][u] <= pictures.set
            /\ pictures.set \in Nat /\ ops \in Nat /\ ops + pictures.set <= MaxOps
        BY <2>1 DEF CopiesOK, Typed
      <4>2. pictures.has[w][u] \in Nat /\ pictures.has[u][u] \in Nat
        BY <3>1
      <4> QED
        BY <4>1, <4>2, GroupsAssumption
    <3>3. \A w \in Users : pictures.has[w] \in [Users -> 0..MaxOps]
      BY <3>1, <3>2
    <3> QED
      BY <3>1, <3>3
  <2>5. DOMAIN author = 1..Len(author)
    BY <2>1 DEF Typed
  <2>6. /\ named \in [Users -> {"none", "name", "unknown"}]
        /\ roster \in [Users -> SUBSET Users]
        /\ shown \in [Users -> SUBSET DOMAIN author]
        /\ author \in Seq(Users) /\ retracted \subseteq DOMAIN author
        /\ pictures.told \in [Users -> SUBSET Users]
        /\ members \subseteq Users /\ left \subseteq Users
        /\ calm \in BOOLEAN /\ rejoined \in BOOLEAN /\ early \in BOOLEAN
    BY <2>1, <2>5 DEF Typed
  <2>7. \A u \in Users : named[u] = "none" => roster[u] = {} /\ shown[u] = {}
    BY <2>1 DEF CopiesOK
  <2>8. \A u \in Users : \A k \in missed[u] :
           k \in DOMAIN mailbox[u] /\ NeedsGroup(mailbox[u][k])
    BY <2>1 DEF HandsOK, Typed
  <2> QED
    BY <2>2, <2>3, <2>4, <2>6, <2>7, <2>8 DEF TypeOK
<1> QED
  BY <1>1, BaseInvariant, PTL

-----------------------------------------------------------------------------

(* Operations that have nothing to do with pictures.                         *)
LEMMA PicturesBegin ==
    ASSUME Typed, PicturesOK, NEW u \in Users, NEW D, Begins(u, D),
           \A e \in Envelopes, v \in Users : <<e, v>> \in D => e.type # "picture",
           pictures' = pictures, fails' = fails, overtaken' = overtaken
    PROVE  PicturesOK'
<1> SUFFICES ASSUME fails = 0, NEW x \in Users
             PROVE  /\ \A w \in Users, e \in Envelopes :
                          Owes(x, e, w)' /\ e.type = "picture" => e.id = pictures'.has[x][x]
                    /\ \A w \in pictures'.told[x] : Passed(x, w)' \/ Latest(x, w)'
  BY DEF PicturesOK
<1>1. /\ \A w \in Users, e \in Envelopes :
            Owes(x, e, w) /\ e.type = "picture" => e.id = pictures.has[x][x]
      /\ \A w \in pictures.told[x] : Passed(x, w) \/ Latest(x, w)
  BY DEF PicturesOK
<1>2. ASSUME NEW w \in Users, NEW e \in Envelopes, Owes(x, e, w)', e.type = "picture"
      PROVE  e.id = pictures'.has[x][x]
  BY <1>1, <1>2 DEF Begins
<1>3. ASSUME NEW w \in pictures.told[x], ~Passed(x, w)
      PROVE  Latest(x, w)'
  <2>1. w \in Users
    BY DEF Typed
  <2>2. ASSUME NEW p \in Envelopes, p = Picture(x, pictures.has[x][x]), Owes(x, p, w)
        PROVE  Latest(x, w)'
    <3>1. x # u
      BY <2>1, <2>2 DEF Begins
    <3>2. Owes(x, p, w)'
      BY <2>1, <2>2, <3>1 DEF Begins
    <3> QED
      BY <2>2, <3>2 DEF Latest
  <2> QED
    BY <2>2, <1>1, <1>3 DEF Latest, Begins
<1> QED
  BY <1>2, <1>3 DEF Passed

(* A new picture is owed to all it is announced to.                         *)
LEMMA PicturesSet ==
    ASSUME Base, PicturesOK, NEW u \in Users, SetProfilePicture(u)
    PROVE  PicturesOK'
<1>1. /\ Base' /\ Typed
      /\ pictures'.has[u][u] \in 1..MaxOps /\ pictures'.told[u] \in SUBSET Users
      /\ Begins(u, {Picture(u, pictures'.has[u][u])} \X pictures'.told[u])
      /\ \A x, y \in Users : x # u \/ y # u => pictures'.has[x][y] = pictures.has[x][y]
      /\ \A x \in Users \ {u} : pictures'.told[x] = pictures.told[x]
      /\ fails' = fails /\ overtaken' = overtaken
  BY SetProfilePictureBase DEF Base, SetProfilePicture
<1> SUFFICES ASSUME fails = 0, NEW x \in Users
             PROVE  /\ \A w \in Users, e \in Envelopes :
                          Owes(x, e, w)' /\ e.type = "picture" => e.id = pictures'.has[x][x]
                    /\ \A w \in pictures'.told[x] : Passed(x, w)' \/ Latest(x, w)'
  BY <1>1 DEF PicturesOK
<1>2. PICK q \in Envelopes : q = Picture(u, pictures'.has[u][u]) /\ q.id = pictures'.has[u][u]
  BY <1>1, PictureMade
<1>3. CASE x = u
  <2>1. ASSUME NEW w \in Users, NEW e \in Envelopes, Owes(u, e, w)'
        PROVE  e = q
    <3>1. <<e, w>> \in {Picture(u, pictures'.has[u][u])} \X pictures'.told[u]
      BY <2>1, <1>1 DEF Begins
    <3> QED
      BY <3>1, <1>2
  <2>2. ASSUME NEW w \in Users, w \in pictures'.told[u]
        PROVE  Owes(u, q, w)'
    BY <2>2, <1>1, <1>2 DEF Begins
  <2>3. ASSUME NEW w \in Users, w \in pictures'.told[u]
        PROVE  Latest(u, w)'
    BY <2>2, <2>3, <1>2 DEF Latest
  <2> QED
    BY <2>1, <2>3, <1>1, <1>2, <1>3
<1>4. CASE x # u
  <2>1. /\ \A w \in Users, e \in Envelopes :
              Owes(x, e, w) /\ e.type = "picture" => e.id = pictures.has[x][x]
        /\ \A w \in pictures.told[x] : Passed(x, w) \/ Latest(x, w)
    BY DEF PicturesOK
  <2>2. /\ \A e \in Envelopes, w \in Users : Owes(x, e, w)' <=> Owes(x, e, w)
        /\ \A w \in Users : pictures'.has[w][x] = pictures.has[w][x]
        /\ pictures'.told[x] = pictures.told[x] /\ mailbox' = mailbox
    BY <1>1, <1>4 DEF Begins
  <2>3. ASSUME NEW w \in pictures.told[x], ~Passed(x, w)
        PROVE  Latest(x, w)'
    <3>1. w \in Users
      BY <1>1 DEF Typed
    <3>2. pictures'.has[x][x] = pictures.has[x][x] /\ pictures'.has[w][x] = pictures.has[w][x]
      BY <3>1, <2>2
    <3>3. ASSUME NEW p \in Envelopes, p = Picture(x, pictures.has[x][x]), Owes(x, p, w)
          PROVE  Latest(x, w)'
      <4>1. Owes(x, p, w)'
        BY <3>1, <3>3, <2>2
      <4> QED
        BY <4>1, <3>2, <3>3 DEF Latest
    <3> QED
      BY <3>2, <3>3, <2>1, <2>2, <2>3 DEF Latest
  <2> QED
    BY <2>1, <2>2, <2>3, <1>1 DEF Passed
<1> QED
  BY <1>3, <1>4

(* A picture that is sent is the last of its kind in the mailbox.           *)
LEMMA PicturesSend ==
    ASSUME Base, PicturesOK, NEW u \in Users, NEW v \in Users, NEW e \in Envelopes,
           Sends(u, v, e), pictures' = pictures, fails' = fails, overtaken' = overtaken
    PROVE  PicturesOK'
<1>1. Typed /\ Len(mailbox[v]) \in Nat
  <2>1. Typed
    BY DEF Base
  <2>2. Len(mailbox[v]) \in Nat
    BY <2>1 DEF Typed
  <2> QED
    BY <2>1, <2>2
<1> SUFFICES ASSUME fails = 0, NEW x \in Users
             PROVE  /\ \A w \in Users, f \in Envelopes :
                          Owes(x, f, w)' /\ f.type = "picture" => f.id = pictures'.has[x][x]
                    /\ \A w \in pictures'.told[x] : Passed(x, w)' \/ Latest(x, w)'
  BY DEF PicturesOK
<1>2. /\ \A w \in Users, f \in Envelopes :
            Owes(x, f, w) /\ f.type = "picture" => f.id = pictures.has[x][x]
      /\ \A w \in pictures.told[x] : Passed(x, w) \/ Latest(x, w)
  BY DEF PicturesOK
<1>3. ASSUME NEW w \in Users, NEW f \in Envelopes, Owes(x, f, w)', f.type = "picture"
      PROVE  f.id = pictures'.has[x][x]
  BY <1>2, <1>3 DEF Sends
<1>4. ASSUME NEW w \in pictures.told[x], ~Passed(x, w)
      PROVE  Latest(x, w)'
  <2> DEFINE n == Len(mailbox[v])
  <2>0. PICK p : p = Picture(x, pictures.has[x][x])
    OBVIOUS
  <2>1. w \in Users
    BY <1>1 DEF Typed
  <2>2. CASE w = v /\ e = p
    <3>1. n + 1 \in 1..Len(mailbox'[v]) /\ mailbox'[v][n + 1] = p
      BY <1>1, <2>2 DEF Sends, Stored
    <3>2. \A j \in 1..Len(mailbox'[v]) : ~(j > n + 1)
      BY <1>1 DEF Sends, Stored
    <3> HIDE DEF n
    <3> QED
      BY <2>0, <2>2, <3>1, <3>2 DEF Latest
  <2>3. CASE w = v /\ e # p
    <3>1. ~PictureOf(e, x)
      <4>1. SUFFICES ASSUME PictureOf(e, x)
                     PROVE  FALSE
        OBVIOUS
      <4>2. Owes(x, e, v) /\ e = Picture(e.from, e.id)
        BY <4>1, EnvelopeFields DEF Sends, PictureOf
      <4>3. e.id = pictures.has[x][x]
        BY <4>1, <4>2, <1>2 DEF PictureOf
      <4> QED
        BY <4>1, <4>2, <4>3, <2>0, <2>3 DEF PictureOf
    <3>2. ASSUME p \in Envelopes, Owes(x, p, v)
          PROVE  Latest(x, v)'
      <4>1. Owes(x, p, v)'
        BY <3>2, <2>3 DEF Sends
      <4> QED
        BY <4>1, <3>2, <2>0 DEF Latest
    <3>3. ASSUME NEW k \in 1..n, mailbox[v][k] = p,
                 \A j \in 1..n : j > k => ~PictureOf(mailbox[v][j], x)
          PROVE  Latest(x, v)'
      <4>1. k \in 1..Len(mailbox'[v]) /\ mailbox'[v][k] = p
        BY <1>1, <3>3 DEF Sends, Stored
      <4>2. ASSUME NEW j \in 1..Len(mailbox'[v]), j > k
            PROVE  ~PictureOf(mailbox'[v][j], x)
        <5>1. CASE j = n + 1
          BY <5>1, <3>1 DEF Sends, Stored
        <5>2. CASE j # n + 1
          <6>1. j \in 1..n /\ mailbox'[v][j] = mailbox[v][j]
            BY <5>2, <1>1 DEF Sends, Stored
          <6> QED
            BY <6>1, <4>2, <3>3
        <5> QED
          BY <5>1, <5>2
      <4> QED
        BY <4>1, <4>2, <2>0 DEF Latest
    <3>4. ASSUME \A k \in 1..n : ~PictureOf(mailbox[v][k], x),
                 pictures.has[v][x] = pictures.has[x][x]
          PROVE  Latest(x, v)'
      <4>1. ASSUME NEW j \in 1..Len(mailbox'[v])
            PROVE  ~PictureOf(mailbox'[v][j], x)
        <5>1. CASE j = n + 1
          BY <5>1, <3>1 DEF Sends, Stored
        <5>2. CASE j # n + 1
          <6>1. j \in 1..n /\ mailbox'[v][j] = mailbox[v][j]
            BY <5>2, <1>1 DEF Sends, Stored
          <6> QED
            BY <6>1, <3>4
        <5> QED
          BY <5>1, <5>2
      <4> QED
        BY <4>1, <3>4 DEF Latest
    <3> QED
      BY <2>0, <2>3, <1>2, <1>4, <3>2, <3>3, <3>4 DEF Latest
  <2>4. CASE w # v
    <3>1. mailbox'[w] = mailbox[w]
      BY <2>1, <2>4 DEF Sends, Stored
    <3>2. ASSUME p \in Envelopes, Owes(x, p, w)
          PROVE  Latest(x, w)'
      <4>1. Owes(x, p, w)'
        BY <3>2, <2>1, <2>4 DEF Sends
      <4> QED
        BY <4>1, <3>2, <2>0 DEF Latest
    <3> QED
      BY <3>1, <3>2, <2>0, <1>2, <1>4 DEF Latest
  <2> QED
    BY <2>2, <2>3, <2>4
<1> QED
  BY <1>3, <1>4 DEF Passed

(* Pictures are taken in the order in which they lie, or one is overtaken.  *)
LEMMA PicturesTake ==
    ASSUME Base, PicturesOK, NEW v \in Users, NEW k, NEW e \in Envelopes, Overtakes(v, k),
           Taken(v, k, e), Handled(v, e), Sound(v, e), job' = job, fails' = fails
    PROVE  PicturesOK'
<1>1. Typed /\ Len(mailbox[v]) \in Nat
  <2>1. Typed
    BY DEF Base
  <2>2. Len(mailbox[v]) \in Nat
    BY <2>1 DEF Typed
  <2> QED
    BY <2>1, <2>2
<1>2. \A x, w \in Users, f \in Envelopes : Owes(x, f, w)' <=> Owes(x, f, w)
  BY DEF Owes
<1>3. \A x \in Users : pictures'.has[x][x] = pictures.has[x][x]
  BY DEF Handled, Sound
<1> SUFFICES ASSUME fails = 0, NEW x \in Users
             PROVE  /\ \A w \in Users, f \in Envelopes :
                          Owes(x, f, w)' /\ f.type = "picture" => f.id = pictures'.has[x][x]
                    /\ \A w \in pictures'.told[x] : Passed(x, w)' \/ Latest(x, w)'
  BY DEF PicturesOK
<1>4. /\ \A w \in Users, f \in Envelopes :
            Owes(x, f, w) /\ f.type = "picture" => f.id = pictures.has[x][x]
      /\ \A w \in pictures.told[x] : Passed(x, w) \/ Latest(x, w)
  BY DEF PicturesOK
<1>5. \A w \in Users, f \in Envelopes :
          Owes(x, f, w)' /\ f.type = "picture" => f.id = pictures'.has[x][x]
  BY <1>2, <1>3, <1>4
<1>6. ASSUME NEW w \in pictures.told[x], ~Passed(x, w)'
      PROVE  Latest(x, w)'
  <2>0. PICK p : p = Picture(x, pictures.has[x][x])
    OBVIOUS
  <2>1. w \in Users /\ Latest(x, w)
    BY <1>1, <1>4, <1>6, OvertookFacts DEF Typed, Passed
  <2>2. CASE p \in Envelopes /\ Owes(x, p, w)
    <3>1. Owes(x, p, w)'
      BY <2>1, <2>2, <1>2
    <3> QED
      BY <3>1, <2>0, <2>2, <1>3 DEF Latest
  <2>3. CASE w = v /\ ~(p \in Envelopes /\ Owes(x, p, w))
    <3>1. /\ k \in 1..Len(mailbox[v]) /\ mailbox[v][k] = e
          /\ \A i \in 1..Len(mailbox'[v]) :
                /\ OldPlace(k, i) \in 1..Len(mailbox[v]) /\ OldPlace(k, i) # k
                /\ mailbox'[v][i] = mailbox[v][OldPlace(k, i)]
          /\ \A j \in 1..Len(mailbox[v]) : j # k =>
                /\ NewPlace(k, j) \in 1..Len(mailbox'[v])
                /\ OldPlace(k, NewPlace(k, j)) = j
                /\ mailbox'[v][NewPlace(k, j)] = mailbox[v][j]
          /\ \A i, j \in 1..Len(mailbox'[v]) : i < j <=> OldPlace(k, i) < OldPlace(k, j)
      BY <1>1, TakenPlaces
    <3>2. ASSUME NEW m \in 1..Len(mailbox[v]), mailbox[v][m] = p,
                 \A j \in 1..Len(mailbox[v]) : j > m => ~PictureOf(mailbox[v][j], x)
          PROVE  Latest(x, v)'
      <4>1. CASE m = k
        <5>1. e = p /\ pictures'.has[v][x] = pictures.has[x][x]
          <6>1. e = p
            BY <4>1, <3>1, <3>2
          <6>2. e.type = "picture" /\ e.from = x /\ e.id = pictures.has[x][x]
            BY <6>1, <2>0 DEF Picture
          <6> QED
            BY <6>1, <6>2 DEF Handled
        <5>2. ASSUME NEW j \in 1..Len(mailbox[v]), j < k
              PROVE  ~PictureOf(mailbox[v][j], x)
          <6> SUFFICES ASSUME PictureOf(mailbox[v][j], x)
                       PROVE  Passed(x, v)'
            BY <1>6, <2>3
          <6>1. mailbox[v][j] \in Envelopes
            BY <1>1, InBoxDue
          <6>2. PICK i \in 1..MaxOps : mailbox[v][j] = Picture(x, i)
            BY <6>1, EnvelopeFields DEF PictureOf
          <6>3. j \in 1..k - 1
            BY <5>2, <3>1
          <6>4. <<v, mailbox[v][j]>> \in overtaken'
            BY <6>3, OvertookFacts DEF PictureOf
          <6> QED
            BY <6>2, <6>4 DEF Passed
        <5>3. ASSUME NEW i \in 1..Len(mailbox'[v])
              PROVE  ~PictureOf(mailbox'[v][i], x)
          <6>1. PICK j \in 1..Len(mailbox[v]) : j # k /\ mailbox'[v][i] = mailbox[v][j]
            BY <3>1
          <6>2. j < k \/ j > m
            BY <4>1, <3>1, <6>1
          <6> QED
            BY <6>1, <6>2, <5>2, <3>2
        <5> QED
          BY <5>1, <5>3, <1>3 DEF Latest
      <4>2. CASE m # k
        <5>1. /\ NewPlace(k, m) \in 1..Len(mailbox'[v]) /\ mailbox'[v][NewPlace(k, m)] = p
              /\ OldPlace(k, NewPlace(k, m)) = m
          BY <4>2, <3>1, <3>2
        <5>2. ASSUME NEW j \in 1..Len(mailbox'[v]), j > NewPlace(k, m)
              PROVE  ~PictureOf(mailbox'[v][j], x)
          <6>1. NewPlace(k, m) < j
            BY <5>1, <5>2
          <6>2. m < OldPlace(k, j)
            BY <6>1, <5>1, <3>1
          <6>3. OldPlace(k, j) > m
            BY <6>2, <3>1
          <6> QED
            BY <6>3, <3>1, <3>2
        <5> QED
          BY <5>1, <5>2, <2>0, <1>3 DEF Latest
      <4> QED
        BY <4>1, <4>2
    <3>3. ASSUME \A j \in 1..Len(mailbox[v]) : ~PictureOf(mailbox[v][j], x),
                 pictures.has[v][x] = pictures.has[x][x]
          PROVE  Latest(x, v)'
      <4>1. ~PictureOf(e, x)
        BY <3>1, <3>3
      <4>2. pictures'.has[v][x] = pictures.has[x][x]
        BY <4>1, <3>3 DEF Handled, PictureOf
      <4>3. \A i \in 1..Len(mailbox'[v]) : ~PictureOf(mailbox'[v][i], x)
        BY <3>1, <3>3
      <4> QED
        BY <4>2, <4>3, <1>3 DEF Latest
    <3> QED
      BY <2>0, <2>1, <2>3, <3>2, <3>3 DEF Latest
  <2>4. CASE w # v /\ ~(p \in Envelopes /\ Owes(x, p, w))
    <3>1. mailbox'[w] = mailbox[w] /\ pictures'.has[w][x] = pictures.has[w][x]
      BY <2>1, <2>4 DEF Taken, Handled
    <3> QED
      BY <2>0, <2>1, <2>4, <3>1, <1>3 DEF Latest
  <2> QED
    BY <2>2, <2>3, <2>4
<1>7. pictures'.told = pictures.told
  BY DEF Handled
<1> QED
  BY <1>5, <1>6, <1>7

(* Every step keeps PicturesOK.                                             *)
LEMMA NextPictures ==
    ASSUME Base, HandsOK, PicturesOK, [Next]_vars
    PROVE  PicturesOK'
<1>1. Typed
  BY DEF Base
<1>2. ASSUME NEW u \in Users, NEW others \in SUBSET Users, CreateGroup(u, others)
      PROVE  PicturesOK'
  <2>1. PICK D : D = {Invite(u, "name", others \cup {u})} \X ((others \cup {u}) \ {u})
    OBVIOUS
  <2>2. Begins(u, D) /\ UNCHANGED <<pictures, fails, overtaken>>
    BY <1>2, <2>1, CreateGroupBase DEF CreateGroup
  <2>3. \A e \in Envelopes, v \in Users : <<e, v>> \in D => e.type # "picture"
    BY <2>1 DEF Invite
  <2> QED
    BY <2>2, <2>3, <1>1, PicturesBegin
<1>3. ASSUME NEW u \in Users, NEW w \in Users, AddMember(u, w)
      PROVE  PicturesOK'
  <2>1. PICK D : D = ({Invite(u, named[u], roster[u] \cup {w})} \X ({w} \ {u}))
                      \cup ({Added(u, w)} \X (roster[u] \ {u}))
    OBVIOUS
  <2>2. Begins(u, D) /\ UNCHANGED <<pictures, fails, overtaken>>
    BY <1>3, <2>1, AddMemberBase DEF AddMember
  <2>3. \A e \in Envelopes, v \in Users : <<e, v>> \in D => e.type # "picture"
    BY <2>1 DEF Invite, Added
  <2> QED
    BY <2>2, <2>3, <1>1, PicturesBegin
<1>4. ASSUME NEW u \in Users, NEW w \in Users, RemoveMember(u, w)
      PROVE  PicturesOK'
  <2>1. PICK D : D = {Removed(u, w)} \X (roster[u] \ {u})
    OBVIOUS
  <2>2. Begins(u, D) /\ UNCHANGED <<pictures, fails, overtaken>>
    BY <1>4, <2>1, RemoveMemberBase DEF RemoveMember
  <2>3. \A e \in Envelopes, v \in Users : <<e, v>> \in D => e.type # "picture"
    BY <2>1 DEF Removed
  <2> QED
    BY <2>2, <2>3, <1>1, PicturesBegin
<1>5. ASSUME NEW u \in Users, SendText(u)
      PROVE  PicturesOK'
  <2>1. PICK D : D = {Text(u, Len(author) + 1)} \X (roster[u] \ {u})
    OBVIOUS
  <2>2. Begins(u, D) /\ UNCHANGED <<pictures, fails, overtaken>>
    BY <1>5, <2>1, SendTextBase DEF SendText
  <2>3. \A e \in Envelopes, v \in Users : <<e, v>> \in D => e.type # "picture"
    BY <2>1 DEF Text
  <2> QED
    BY <2>2, <2>3, <1>1, PicturesBegin
<1>6. ASSUME NEW u \in Users, NEW i \in 1..MaxTexts, DeleteText(u, i)
      PROVE  PicturesOK'
  <2>1. PICK D : D = {Delete(u, i)} \X (roster[u] \ {u})
    OBVIOUS
  <2>2. Begins(u, D) /\ UNCHANGED <<pictures, fails, overtaken>>
    BY <1>6, <2>1, DeleteTextBase DEF DeleteText
  <2>3. \A e \in Envelopes, v \in Users : <<e, v>> \in D => e.type # "picture"
    BY <2>1 DEF Delete
  <2> QED
    BY <2>2, <2>3, <1>1, PicturesBegin
<1>7. ASSUME NEW u \in Users, SetProfilePicture(u)
      PROVE  PicturesOK'
  BY <1>7, PicturesSet
<1>8. ASSUME NEW u \in Users, Send(u)
      PROVE  PicturesOK'
  <2>1. /\ \E v \in Users, e \in Envelopes : Sends(u, v, e)
        /\ pictures' = pictures /\ fails' = fails /\ overtaken' = overtaken
    BY <1>8, SendBase DEF Send
  <2> QED
    BY <2>1, PicturesSend
<1>9. ASSUME NEW u \in Users, BreakOff(u)
      PROVE  PicturesOK'
  <2>1. fails \in Nat /\ fails' = fails + 1
    BY <1>1, <1>9 DEF Typed, BreakOff
  <2>2. fails' # 0
    BY <2>1
  <2> QED
    BY <2>2 DEF PicturesOK
<1>10. ASSUME NEW v \in Users, NEW k, Receive(v, k)
       PROVE  PicturesOK'
  <2>1. /\ \E e \in Envelopes : Taken(v, k, e) /\ Handled(v, e) /\ Sound(v, e)
        /\ job' = job /\ fails' = fails
    BY <1>10, ReceiveBase
  <2>2. Overtakes(v, k)
    BY <1>10 DEF Receive
  <2> QED
    BY <2>1, <2>2, PicturesTake
<1>11. ASSUME NEW v \in Users, NEW k, Miss(v, k) \/ Degrade(v, k)
       PROVE  PicturesOK'
  <2>1. /\ UNCHANGED <<job, mailbox, pictures, fails>>
        /\ overtaken \subseteq overtaken'
    BY <1>11, OvertookFacts DEF Miss, Degrade
  <2>2. /\ \A x, w \in Users : Latest(x, w)' <=> Latest(x, w)
        /\ \A x, w \in Users : Passed(x, w) => Passed(x, w)'
    BY <2>1, SameDue DEF Latest, Passed
  <2>3. \A x \in Users : pictures.told[x] \subseteq Users
    BY <1>1 DEF Typed
  <2> QED
    BY <2>1, <2>2, <2>3, SameDue DEF PicturesOK
<1>12. CASE UNCHANGED vars
  <2>1. /\ \A x, w \in Users : Latest(x, w)' <=> Latest(x, w)
        /\ \A x, w \in Users : Passed(x, w)' <=> Passed(x, w)
    BY <1>12 DEF vars, Latest, Owes, Passed
  <2>2. \A x, w \in Users, f \in Envelopes : Owes(x, f, w)' <=> Owes(x, f, w)
    BY <1>12 DEF vars, Owes
  <2>3. \A x \in Users : pictures.told[x] \subseteq Users
    BY <1>1 DEF Typed
  <2> QED
    BY <2>1, <2>2, <2>3, <1>12 DEF vars, PicturesOK
<1> QED
  BY <1>2, <1>3, <1>4, <1>5, <1>6, <1>7, <1>8, <1>9, <1>10, <1>11, <1>12 DEF Next

(* Everybody a picture was announced to ends up with the last one, unless a  *)
(* fan-out broke off or one was overtaken by a later envelope there: the     *)
(* pictures of one user are stored for another in the order in which they    *)
(* were set, and each is sent to the end (sessionManager.ts:268-286,         *)
(* 377-382).                                                                 *)
THEOREM GroupsLastPictureArrives == Spec => []LastPictureArrives
<1>1. Init => PicturesOK
  <2> SUFFICES ASSUME Init
               PROVE  PicturesOK
    OBVIOUS
  <2>1. \A u, v \in Users, e \in Envelopes : ~Owes(u, e, v)
    BY InitBase
  <2>2. \A u \in Users : pictures.told[u] = {}
    BY DEF Init
  <2> QED
    BY <2>1, <2>2 DEF PicturesOK
<1>2. Base /\ HandsOK /\ PicturesOK /\ [Next]_vars => PicturesOK'
  BY NextPictures
<1>3. Base /\ PicturesOK => LastPictureArrives
  <2> SUFFICES ASSUME Base, PicturesOK, AtRest, fails = 0,
                      NEW u \in Users, NEW w \in pictures.told[u]
               PROVE  Passed(u, w) \/ pictures.has[w][u] = pictures.has[u][u]
    BY DEF LastPictureArrives, Passed
  <2>1. w \in Users
    BY DEF Base, Typed
  <2>2. Len(job[u]) = 0 /\ Len(mailbox[w]) = 0
    BY <2>1 DEF AtRest
  <2>3. \A e \in Envelopes : ~Owes(u, e, w)
    BY <2>2 DEF Owes
  <2> QED
    BY <2>2, <2>3 DEF PicturesOK, Latest
<1> QED
  BY <1>1, <1>2, <1>3, BaseInvariant, PTL DEF Spec

-----------------------------------------------------------------------------

(* Operations that write no text and retract none.                          *)
LEMMA RetractedBegin ==
    ASSUME RetractedOK, NEW u \in Users, NEW D, Begins(u, D),
           \A e \in Envelopes, v \in Users : <<e, v>> \in D => e.type # "text",
           UNCHANGED <<shown, author, retracted>>
    PROVE  RetractedOK'
<1>1. ASSUME NEW x \in Users, NEW v \in Users, NEW e \in Envelopes, Owes(x, e, v)', e.type = "text"
      PROVE  Owes(x, e, v)
  BY <1>1 DEF Begins
<1> QED
  BY <1>1 DEF RetractedOK

(* Every step keeps RetractedOK.                                            *)
LEMMA NextRetracted ==
    ASSUME Base, HandsOK, RetractedOK, [Next]_vars
    PROVE  RetractedOK'
<1>1. Typed /\ JobsOK /\ EnvelopesOK
  BY DEF Base
<1>2. author \in Seq(Users) /\ Len(author) \in Nat /\ retracted \in SUBSET (1..Len(author))
  BY <1>1 DEF Typed
<1>3. ASSUME NEW u \in Users, NEW others \in SUBSET Users, CreateGroup(u, others)
      PROVE  RetractedOK'
  <2>1. PICK D : D = {Invite(u, "name", others \cup {u})} \X ((others \cup {u}) \ {u})
    OBVIOUS
  <2>2. Begins(u, D) /\ UNCHANGED <<shown, author, retracted>>
    BY <1>3, <2>1, CreateGroupBase DEF CreateGroup
  <2>3. \A e \in Envelopes, v \in Users : <<e, v>> \in D => e.type # "text"
    BY <2>1 DEF Invite
  <2> QED
    BY <2>2, <2>3, RetractedBegin
<1>4. ASSUME NEW u \in Users, NEW w \in Users, AddMember(u, w)
      PROVE  RetractedOK'
  <2>1. PICK D : D = ({Invite(u, named[u], roster[u] \cup {w})} \X ({w} \ {u}))
                      \cup ({Added(u, w)} \X (roster[u] \ {u}))
    OBVIOUS
  <2>2. Begins(u, D) /\ UNCHANGED <<shown, author, retracted>>
    BY <1>4, <2>1, AddMemberBase DEF AddMember
  <2>3. \A e \in Envelopes, v \in Users : <<e, v>> \in D => e.type # "text"
    BY <2>1 DEF Invite, Added
  <2> QED
    BY <2>2, <2>3, RetractedBegin
<1>5. ASSUME NEW u \in Users, NEW w \in Users, RemoveMember(u, w)
      PROVE  RetractedOK'
  <2>1. PICK D : D = {Removed(u, w)} \X (roster[u] \ {u})
    OBVIOUS
  <2>2. Begins(u, D) /\ UNCHANGED <<shown, author, retracted>>
    BY <1>5, <2>1, RemoveMemberBase DEF RemoveMember
  <2>3. \A e \in Envelopes, v \in Users : <<e, v>> \in D => e.type # "text"
    BY <2>1 DEF Removed
  <2> QED
    BY <2>2, <2>3, RetractedBegin
<1>6. ASSUME NEW u \in Users, SetProfilePicture(u)
      PROVE  RetractedOK'
  <2>1. PICK D : D = {Picture(u, pictures'.has[u][u])} \X pictures'.told[u]
    OBVIOUS
  <2>2. Begins(u, D) /\ UNCHANGED <<shown, author, retracted>>
    BY <1>6, <2>1, SetProfilePictureBase DEF SetProfilePicture
  <2>3. \A e \in Envelopes, v \in Users : <<e, v>> \in D => e.type # "text"
    BY <2>1 DEF Picture
  <2> QED
    BY <2>2, <2>3, RetractedBegin
<1>7. ASSUME NEW u \in Users, SendText(u)
      PROVE  RetractedOK'
  <2> DEFINE i == Len(author) + 1
  <2>1. /\ Begins(u, {Text(u, i)} \X (roster[u] \ {u}))
        /\ \A j \in 1..Len(author) : author'[j] = author[j]
        /\ \A x \in Users \ {u} : shown'[x] = shown[x]
        /\ shown'[u] \subseteq shown[u] \cup {i}
        /\ retracted' = retracted
    BY <1>7, SendTextBase DEF SendText
  <2>2. i \notin retracted
    BY <1>2
  <2>3. ASSUME NEW j \in retracted
        PROVE  j \notin shown'[author'[j]]
    <3>1. /\ j \in 1..Len(author) /\ author'[j] = author[j] /\ j # i /\ author[j] \in Users
          /\ j \notin shown[author[j]]
      BY <1>2, <2>1, <2>2 DEF RetractedOK
    <3> QED
      BY <3>1, <2>1
  <2>4. ASSUME NEW x \in Users, NEW v \in Users, NEW e \in Envelopes, Owes(x, e, v)', e.type = "text"
        PROVE  e.id \notin retracted
    <3>1. CASE Owes(x, e, v)
      BY <3>1, <2>4 DEF RetractedOK
    <3>2. CASE ~Owes(x, e, v)
      <4>1. x = u
        BY <3>2, <2>1, <2>4 DEF Begins
      <4>2. <<e, v>> \in {Text(u, i)} \X (roster[u] \ {u})
        BY <4>1, <2>1, <2>4 DEF Begins
      <4>3. e = Text(u, i)
        BY <4>2
      <4> QED
        BY <4>3, <2>2 DEF Text
    <3> QED
      BY <3>1, <3>2
  <2> QED
    BY <2>1, <2>3, <2>4 DEF RetractedOK
<1>8. ASSUME NEW u \in Users, NEW i \in 1..MaxTexts, DeleteText(u, i)
      PROVE  RetractedOK'
  <2>1. /\ Begins(u, {Delete(u, i)} \X (roster[u] \ {u}))
        /\ shown' = [shown EXCEPT ![u] = shown[u] \ {i}]
        /\ author[i] = u /\ retracted' = retracted \cup {i} /\ author' = author
    BY <1>8, DeleteTextBase DEF DeleteText
  <2>2. ASSUME NEW j \in retracted'
        PROVE  j \notin shown'[author'[j]]
    <3>1. shown \in [Users -> SUBSET (1..Len(author))]
      BY <1>1 DEF Typed
    <3>2. CASE j = i
      BY <3>1, <3>2, <2>1
    <3>3. CASE j # i
      <4>1. j \in retracted /\ j \notin shown[author[j]] /\ author[j] \in Users
        BY <3>3, <2>1, <1>2 DEF RetractedOK
      <4> QED
        BY <3>1, <4>1, <2>1
    <3> QED
      BY <3>2, <3>3
  <2>3. ASSUME NEW x \in Users, NEW v \in Users, NEW e \in Envelopes, Owes(x, e, v)', e.type = "text"
        PROVE  e.id \notin retracted'
    <3>1. Owes(x, e, v) /\ x # u
      <4>1. CASE x = u
        <5>1. <<e, v>> \in {Delete(u, i)} \X (roster[u] \ {u})
          BY <4>1, <2>1, <2>3 DEF Begins
        <5> QED
          BY <5>1, <2>3 DEF Delete
      <4>2. CASE x # u
        BY <4>2, <2>1, <2>3 DEF Begins
      <4> QED
        BY <4>1, <4>2
    <3>2. e.id \notin retracted /\ e.from = x /\ author[e.id] = e.from
      BY <3>1, <2>3, <1>1, OwedDue DEF RetractedOK, Owes, JobsOK, EnvelopesOK, Sound
    <3> QED
      BY <3>1, <3>2, <2>1
  <2> QED
    BY <2>2, <2>3 DEF RetractedOK
<1>9. ASSUME NEW u \in Users, Send(u)
      PROVE  RetractedOK'
  <2>1. /\ \E v \in Users, e \in Envelopes : Sends(u, v, e)
        /\ UNCHANGED <<author, retracted>>
    BY <1>9, SendBase
  <2>2. PICK v \in Users, e \in Envelopes : Sends(u, v, e)
    BY <2>1
  <2>3. ASSUME NEW j \in retracted
        PROVE  j \notin shown'[author'[j]]
    <3>0. shown \in [Users -> SUBSET (1..Len(author))]
      BY <1>1 DEF Typed
    <3>1. author[j] \in Users
      BY <1>2
    <3>2. j \notin shown[author[j]]
      BY DEF RetractedOK
    <3>3. e.type = "text" => e.id # j
      BY <2>2 DEF Sends, RetractedOK
    <3> QED
      BY <3>0, <3>1, <3>2, <3>3, <2>1, <2>2 DEF Sends
  <2>4. ASSUME NEW x \in Users, NEW w \in Users, NEW f \in Envelopes, Owes(x, f, w)'
        PROVE  Owes(x, f, w)
    BY <2>2, <2>4 DEF Sends
  <2> QED
    BY <2>1, <2>3, <2>4 DEF RetractedOK
<1>10. ASSUME NEW u \in Users, BreakOff(u)
       PROVE  RetractedOK'
  <2>1. \A x, w \in Users, f \in Envelopes : Owes(x, f, w)' => Owes(x, f, w)
    BY <1>10, BreakOffBase
  <2> QED
    BY <2>1, <1>10 DEF BreakOff, RetractedOK
<1>11. ASSUME NEW v \in Users, NEW k, Receive(v, k)
       PROVE  RetractedOK'
  <2>1. /\ \E e \in Envelopes : Taken(v, k, e) /\ Handled(v, e) /\ Sound(v, e)
        /\ UNCHANGED <<job, author, retracted>>
    BY <1>11, ReceiveBase
  <2>2. PICK e \in Envelopes : Taken(v, k, e) /\ Handled(v, e) /\ Sound(v, e)
    BY <2>1
  <2>3. ASSUME NEW j \in retracted
        PROVE  j \notin shown'[author'[j]]
    <3>1. j \notin shown[author[j]] /\ author[j] \in Users
      BY <1>2 DEF RetractedOK
    <3>2. CASE author[j] = v
      <4>1. e.type = "text" => e.id # j
        BY <3>2, <2>2 DEF Sound
      <4>2. shown'[v] \subseteq shown[v] \/ (e.type = "text" /\ shown'[v] = shown[v] \cup {e.id})
        BY <2>2, EnvelopeFields DEF Handled
      <4> QED
        BY <3>1, <3>2, <4>1, <4>2, <2>1
    <3>3. CASE author[j] # v
      BY <3>1, <3>3, <2>1, <2>2 DEF Handled
    <3> QED
      BY <3>2, <3>3
  <2>4. \A x, w \in Users, f \in Envelopes : Owes(x, f, w)' <=> Owes(x, f, w)
    BY <2>1 DEF Owes
  <2> QED
    BY <2>1, <2>3, <2>4 DEF RetractedOK
<1>12. ASSUME NEW v \in Users, NEW k, Miss(v, k) \/ Degrade(v, k)
       PROVE  RetractedOK'
  <2>1. UNCHANGED <<job, mailbox, shown, author, retracted>>
    BY <1>12 DEF Miss, Degrade
  <2> QED
    BY <2>1, SameDue DEF RetractedOK
<1>13. CASE UNCHANGED vars
  <2>1. \A x, w \in Users, f \in Envelopes : Owes(x, f, w)' <=> Owes(x, f, w)
    BY <1>13 DEF vars, Owes
  <2> QED
    BY <2>1, <1>13 DEF vars, RetractedOK
<1> QED
  BY <1>3, <1>4, <1>5, <1>6, <1>7, <1>8, <1>9, <1>10, <1>11, <1>12, <1>13 DEF Next

-----------------------------------------------------------------------------

(* The roster of a member who waits for nothing names only such as know the  *)
(* group or will.                                                            *)
LEMMA RosterReached ==
    ASSUME Base, Sync, NEW u \in Users, NEW v \in roster[u]
    PROVE  Reached(u, v)
<1>1. /\ roster[u] \in SUBSET Users /\ v \in Users
      /\ \A x \in Users : named[x] = "none" => roster[x] = {}
  BY DEF Base, Typed, CopiesOK
<1>2. CASE u \notin members
  BY <1>1, <1>2 DEF Sync, LeaversOK, Reached
<1>3. CASE u \in members
  <2>1. v \in members \/ named[v] # "none"
    <3>1. CASE Settled(u)
      BY <3>1, <1>3 DEF Sync, RostersOK
    <3>2. CASE ~Settled(u)
      <4>1. PICK c \in Envelopes : Due(u, c) /\ c.type \in Control
        BY <3>2 DEF Settled
      <4>2. Right(u, c)
        BY <4>1 DEF Sync, RightOK
      <4> QED
        BY <4>1, <4>2, <1>3 DEF Right, Control
    <3> QED
      BY <3>1, <3>2
  <2>2. ASSUME v \in members, Settled(v)
        PROVE  named[v] # "none"
    <3>1. roster[v] = members
      BY <2>2, <1>1 DEF Sync, RostersOK
    <3> QED
      BY <3>1, <2>2, <1>1
  <2> QED
    BY <2>1, <2>2, <1>3 DEF Reached
<1> QED
  BY <1>2, <1>3

(* Operations that leave the membership alone.                               *)
LEMMA SyncBegin ==
    ASSUME Base, Sync, NEW u \in Users, NEW D, Begins(u, D),
           \A e \in Envelopes, v \in Users : <<e, v>> \in D =>
              /\ e.type \notin Control
              /\ e.type \in {"text", "delete"} => Reached(e.from, v),
           UNCHANGED <<named, roster, members, left, missed>>
    PROVE  Sync'
<1>1. \A v \in Users, e \in Envelopes : Due(v, e)' <=> Due(v, e) \/ <<e, v>> \in D
  BY BeginDue
<1>2. \A v \in Users : Settled(v)' <=> Settled(v)
  BY <1>1 DEF Settled
<1>3. \A x, v \in Users, e \in Envelopes :
        Owes(x, e, v)' /\ e.type \in Control => Owes(x, e, v)
  BY DEF Begins
<1>4. SingleOK'
  <2>1. ASSUME NEW v \in Users
        PROVE  Single(v)'
    <3>1. Single(v) /\ mailbox' = mailbox
      BY DEF Sync, SingleOK, Begins
    <3> QED
      BY <3>1, <1>3 DEF Single
  <2> QED
    BY <2>1 DEF SingleOK
<1>5. RightOK'
  <2>1. ASSUME NEW v \in Users, NEW e \in Envelopes, Due(v, e)', e.type \in Control
        PROVE  Right(v, e)'
    <3>1. Right(v, e)
      BY <1>1, <2>1 DEF Sync, RightOK
    <3> QED
      BY <3>1 DEF Right
  <2> QED
    BY <2>1 DEF RightOK
<1>6. RostersOK'
  BY <1>2 DEF Sync, RostersOK
<1>7. TextsOK'
  <2>1. ASSUME NEW v \in Users, NEW e \in Envelopes, Due(v, e)', e.type \in {"text", "delete"}
        PROVE  Reached(e.from, v)'
    <3>1. Reached(e.from, v)
      BY <1>1, <2>1 DEF Sync, TextsOK
    <3> QED
      BY <3>1, <1>2 DEF Reached
  <2> QED
    BY <2>1 DEF TextsOK
<1>8. LeaversOK' /\ StrangersOK'
  BY DEF Sync, LeaversOK, StrangersOK
<1>9. MissesOK'
  BY <1>1 DEF Sync, MissesOK, Awaiting, Begins
<1> QED
  BY <1>4, <1>5, <1>6, <1>7, <1>8, <1>9 DEF Sync

(* When everything is at rest, every member has the membership.              *)
LEMMA RestFacts ==
    ASSUME Base, HandsOK, Sync, AtRest
    PROVE  /\ \A v \in Users, e \in Envelopes : ~Due(v, e)
           /\ \A x, v \in Users, e \in Envelopes : ~Owes(x, e, v)
           /\ \A v \in Users : Len(mailbox[v]) = 0 /\ missed[v] = {}
           /\ \A v \in members : v \in Users /\ roster[v] = members /\ named[v] # "none"
           /\ \A v \in Users \ members : v \notin roster[v]
<1>1. \A v \in Users : Len(job[v]) = 0 /\ Len(mailbox[v]) = 0
  BY DEF AtRest
<1>2. \A x, v \in Users, e \in Envelopes : ~Owes(x, e, v)
  BY <1>1 DEF Owes
<1>3. \A v \in Users, e \in Envelopes : ~Due(v, e)
  BY <1>1, <1>2 DEF Due, InBox
<1>4. \A v \in Users : /\ v \in members => roster[v] = members
                       /\ v \notin members => v \notin roster[v]
  BY <1>3 DEF Settled, Sync, RostersOK
<1>5. members \in SUBSET Users /\ \A v \in Users : named[v] = "none" => roster[v] = {}
  BY DEF Base, Typed, CopiesOK
<1>6. \A v \in Users : missed[v] = {}
  BY <1>1 DEF HandsOK
<1> QED
  BY <1>1, <1>2, <1>3, <1>4, <1>5, <1>6

(* A change of the membership that starts when everything is at rest: each   *)
(* member but u, and the newcomer, is sent one envelope.                     *)
LEMMA SyncChange ==
    ASSUME NEW u \in Users, NEW D, Begins(u, D), \A v \in Users : Len(mailbox[v]) = 0,
           \A x, v \in Users, e \in Envelopes : ~Owes(x, e, v),
           \A v \in Users, e, f \in Envelopes : <<e, v>> \in D /\ <<f, v>> \in D => e = f
    PROVE  SingleOK'
<1>1. \A x, v \in Users, e \in Envelopes : Owes(x, e, v)' => x = u /\ <<e, v>> \in D
  BY DEF Begins
<1>2. ASSUME NEW v \in Users
      PROVE  Single(v)'
  <2>1. mailbox' = mailbox
    BY DEF Begins
  <2>2. \A k : k \notin 1..Len(mailbox'[v])
    <3>1. Len(mailbox'[v]) = 0
      BY <2>1
    <3> QED
      BY <3>1
  <2>3. \A x, y \in Users, e, f \in Envelopes :
          Owes(x, e, v)' /\ Owes(y, f, v)' => x = y /\ e = f
    BY <1>1
  <2> QED
    BY <2>2, <2>3 DEF Single
<1> QED
  BY <1>2 DEF SingleOK

(* The founding: all but the founder are owed their invitation.             *)
LEMMA SyncCreate ==
    ASSUME Base, HandsOK, NEW u \in Users, NEW others \in SUBSET Users, CreateGroup(u, others)
    PROVE  Sync'
<1> DEFINE all == others \cup {u}
<1>0. PICK q : q = Invite(u, "name", all)
  OBVIOUS
<1>1. /\ q \in Envelopes /\ q.type = "invite" /\ q.members = all
  BY <1>0, InviteMade
<1>b. PICK D : D = {q} \X (all \ {u})
  OBVIOUS
<1>2. /\ Base' /\ Begins(u, D)
      /\ members = {} /\ left = {} /\ members' = all /\ left' = left
      /\ \A x \in Users \ {u} : roster'[x] = roster[x] /\ named'[x] = named[x]
      /\ roster'[u] = all /\ all \in SUBSET Users
  <2>1. Base' /\ Begins(u, D)
    BY <1>0, <1>b, CreateGroupBase
  <2>2. /\ members = {} /\ left = {} /\ members' = all /\ left' = left
        /\ roster' = [roster EXCEPT ![u] = all] /\ named' = [named EXCEPT ![u] = "name"]
    BY DEF CreateGroup
  <2>3. /\ roster \in [Users -> SUBSET Users]
        /\ named \in [Users -> {"none", "name", "unknown"}]
    BY DEF Base, Typed
  <2> QED
    BY <2>1, <2>2, <2>3
<1>3. /\ \A x \in Users : named[x] = "none" /\ roster[x] = {}
      /\ \A v \in Users, e \in Envelopes : Due(v, e) => e.type = "picture"
  BY <1>2 DEF Base, UnfoundedOK, CopiesOK
<1>4. \A v \in Users, e \in Envelopes : Due(v, e)' <=> Due(v, e) \/ (e = q /\ v \in all \ {u})
  <2>1. \A v, e : <<e, v>> \in D <=> e = q /\ v \in all \ {u}
    BY <1>b
  <2> QED
    BY <2>1, <1>2, BeginDue
<1>5. \A v \in Users, e \in Envelopes :
        Due(v, e)' /\ e.type # "picture" => e = q /\ v \in all \ {u}
  BY <1>3, <1>4
<1>6. SingleOK'
  <2>1. ASSUME NEW v \in Users
        PROVE  Single(v)'
    <3>1. ASSUME NEW k \in 1..Len(mailbox'[v])
          PROVE  mailbox'[v][k].type \notin Control
      <4>1. mailbox' = mailbox
        BY <1>2 DEF Begins
      <4>2. mailbox[v][k] \in Envelopes /\ Due(v, mailbox[v][k])
        BY <4>1, InBoxDue DEF Base
      <4> QED
        BY <4>1, <4>2, <1>3 DEF Control
    <3>2. ASSUME NEW x \in Users, NEW e \in Envelopes, Owes(x, e, v)', e.type \in Control
          PROVE  x = u /\ e = q
      <4>1. Due(v, e)'
        BY <3>2 DEF Due
      <4>2. e = q
        BY <4>1, <3>2, <1>5 DEF Control
      <4>3. CASE x # u
        <5>1. Owes(x, e, v)
          BY <4>3, <3>2, <1>2 DEF Begins
        <5>2. Due(v, e)
          BY <5>1, OwedDue
        <5> QED
          BY <5>2, <3>2, <1>3 DEF Control
      <4> QED
        BY <4>2, <4>3
    <3> QED
      BY <3>1, <3>2 DEF Single
  <2> QED
    BY <2>1 DEF SingleOK
<1>7. RightOK'
  <2>1. ASSUME NEW v \in Users, NEW e \in Envelopes, Due(v, e)', e.type \in Control
        PROVE  Right(v, e)'
    <3>1. e = q /\ v \in all /\ v # u
      BY <2>1, <1>5 DEF Control
    <3>2. roster'[v] = {}
      BY <3>1, <1>2, <1>3
    <3> QED
      BY <3>1, <3>2, <1>1, <1>2 DEF Right
  <2> QED
    BY <2>1 DEF RightOK
<1>8. RostersOK'
  <2>1. ASSUME NEW v \in Users, Settled(v)'
        PROVE  /\ v \in members' => roster'[v] = members'
               /\ v \notin members' => v \notin roster'[v]
    <3>1. v \notin all \ {u}
      BY <2>1, <1>1, <1>4 DEF Settled, Control
    <3> QED
      BY <3>1, <1>2, <1>3
  <2> QED
    BY <2>1 DEF RostersOK
<1>9. TextsOK'
  BY <1>1, <1>5 DEF TextsOK
<1>10. LeaversOK' /\ StrangersOK'
  BY <1>2, <1>3 DEF LeaversOK, StrangersOK
<1>11. MissesOK'
  <2>1. \A v \in Users : missed'[v] = {}
    <3> SUFFICES ASSUME NEW v \in Users, NEW k \in missed[v]
                 PROVE  FALSE
      BY DEF CreateGroup
    <3>1. k \in 1..Len(mailbox[v]) /\ NeedsGroup(mailbox[v][k])
      BY DEF HandsOK
    <3>2. mailbox[v][k] \in Envelopes /\ Due(v, mailbox[v][k])
      BY <3>1, InBoxDue DEF Base
    <3> QED
      BY <3>1, <3>2, <1>3 DEF NeedsGroup
  <2> QED
    BY <2>1 DEF MissesOK
<1> QED
  BY <1>6, <1>7, <1>8, <1>9, <1>10, <1>11 DEF Sync

(* An addition that starts when all is at rest.                             *)
LEMMA SyncAdd ==
    ASSUME Base, HandsOK, SyncOK, NEW u \in Users, NEW w \in Users, AddMember(u, w), Orderly'
    PROVE  Sync'
<1>1. /\ u \in members /\ AtRest /\ Orderly /\ w \notin left /\ w \notin roster[u]
      /\ members' = members \cup {w} /\ left' = left /\ named' = named /\ missed' = missed
      /\ roster' = [roster EXCEPT ![u] = roster[u] \cup {w}]
  BY DEF AddMember, Orderly
<1>2. Sync
  BY <1>1 DEF SyncOK
<1>3. /\ \A v \in Users, e \in Envelopes : ~Due(v, e)
      /\ \A x, v \in Users, e \in Envelopes : ~Owes(x, e, v)
      /\ \A v \in Users : Len(mailbox[v]) = 0 /\ missed[v] = {}
      /\ \A v \in members : v \in Users /\ roster[v] = members /\ named[v] # "none"
      /\ \A v \in Users \ members : v \notin roster[v]
  BY <1>1, <1>2, RestFacts
<1>4. roster[u] = members /\ w \notin members /\ w # u
  BY <1>1, <1>3
<1>5. named[w] = "none" /\ roster[w] = {}
  BY <1>1, <1>2, <1>4 DEF Sync, StrangersOK, Base, CopiesOK
<1>6. /\ roster'[u] = members'
      /\ \A x \in Users \ {u} : roster'[x] = roster[x]
  BY <1>1, <1>4 DEF Base, Typed
<1>7. PICK d, e : d = Invite(u, named[u], roster[u] \cup {w}) /\ e = Added(u, w)
  OBVIOUS
<1>8. /\ d \in Envelopes /\ d.type = "invite" /\ d.members = members'
      /\ e \in Envelopes /\ e.type = "added" /\ e.who = w
  <2>1. named[u] \in {"name", "unknown"} /\ roster[u] \cup {w} \in SUBSET Users
    BY <1>1, <1>3 DEF Base, Typed
  <2> QED
    BY <2>1, <1>1, <1>4, <1>7, InviteMade, NoticeMade
<1>9. PICK D : D = ({d} \X ({w} \ {u})) \cup ({e} \X (members \ {u}))
  OBVIOUS
<1>10. Base' /\ Begins(u, D)
  BY <1>4, <1>7, <1>9, AddMemberBase
<1>11. \A v, f : <<f, v>> \in D <=> (f = d /\ v = w) \/ (f = e /\ v \in members /\ v # u)
  BY <1>4, <1>9
<1>12. \A v \in Users, f \in Envelopes :
         Due(v, f)' <=> (f = d /\ v = w) \/ (f = e /\ v \in members /\ v # u)
  BY <1>3, <1>10, <1>11, BeginDue
<1>13. SingleOK'
  BY <1>3, <1>4, <1>10, <1>11, SyncChange
<1>14. RightOK'
  <2>1. ASSUME NEW v \in Users, NEW f \in Envelopes, Due(v, f)'
        PROVE  Right(v, f)'
    <3>1. CASE f = d /\ v = w
      BY <3>1, <1>1, <1>4, <1>5, <1>6, <1>8 DEF Right
    <3>2. CASE f = e /\ v \in members /\ v # u
      BY <3>2, <1>1, <1>3, <1>4, <1>6, <1>8 DEF Right
    <3> QED
      BY <3>1, <3>2, <2>1, <1>12
  <2> QED
    BY <2>1 DEF RightOK
<1>15. RostersOK'
  <2>1. ASSUME NEW v \in Users, Settled(v)'
        PROVE  /\ v \in members' => roster'[v] = members'
               /\ v \notin members' => v \notin roster'[v]
    <3>1. v # w /\ (v \in members => v = u)
      BY <2>1, <1>8, <1>12 DEF Settled, Control
    <3> QED
      BY <3>1, <1>1, <1>3, <1>6
  <2> QED
    BY <2>1 DEF RostersOK
<1>16. TextsOK'
  BY <1>8, <1>12 DEF TextsOK
<1>17. LeaversOK'
  <2>1. ASSUME NEW x \in Users \ members', NEW v \in roster'[x]
        PROVE  named'[v] # "none"
    <3>1. x \notin members /\ x # u /\ v \in roster[x]
      BY <2>1, <1>1, <1>6
    <3> QED
      BY <3>1, <1>1, <1>2 DEF Sync, LeaversOK
  <2> QED
    BY <2>1 DEF LeaversOK
<1>18. StrangersOK'
  BY <1>1, <1>2 DEF Sync, StrangersOK
<1>19. MissesOK'
  BY <1>1, <1>3 DEF MissesOK
<1> QED
  BY <1>13, <1>14, <1>15, <1>16, <1>17, <1>18, <1>19 DEF Sync

(* A removal that starts when all is at rest.                               *)
LEMMA SyncRemove ==
    ASSUME Base, HandsOK, SyncOK, NEW u \in Users, NEW w \in Users, RemoveMember(u, w), Orderly'
    PROVE  Sync'
<1>1. /\ u \in members /\ AtRest /\ Orderly /\ w \in roster[u]
      /\ members' = members \ {w} /\ left' = left \cup {w} /\ named' = named
      /\ missed' = missed
      /\ roster' = [roster EXCEPT ![u] = roster[u] \ {w}]
  BY DEF RemoveMember, Orderly
<1>2. Sync
  BY <1>1 DEF SyncOK
<1>3. /\ \A v \in Users, e \in Envelopes : ~Due(v, e)
      /\ \A x, v \in Users, e \in Envelopes : ~Owes(x, e, v)
      /\ \A v \in Users : Len(mailbox[v]) = 0 /\ missed[v] = {}
      /\ \A v \in members : v \in Users /\ roster[v] = members /\ named[v] # "none"
      /\ \A v \in Users \ members : v \notin roster[v]
  BY <1>1, <1>2, RestFacts
<1>4. roster[u] = members /\ w \in members
  BY <1>1, <1>3
<1>5. /\ roster'[u] = members'
      /\ \A x \in Users \ {u} : roster'[x] = roster[x]
  BY <1>1, <1>4 DEF Base, Typed
<1>6. PICK e : e = Removed(u, w)
  OBVIOUS
<1>7. e \in Envelopes /\ e.type = "removed" /\ e.who = w
  BY <1>6, NoticeMade
<1>8. PICK D : D = {e} \X (members \ {u})
  OBVIOUS
<1>9. Base' /\ Begins(u, D)
  BY <1>4, <1>6, <1>8, RemoveMemberBase
<1>10. \A v, f : <<f, v>> \in D <=> f = e /\ v \in members /\ v # u
  BY <1>8
<1>11. \A v \in Users, f \in Envelopes : Due(v, f)' <=> f = e /\ v \in members /\ v # u
  BY <1>3, <1>9, <1>10, BeginDue
<1>12. SingleOK'
  BY <1>3, <1>9, <1>10, SyncChange
<1>13. RightOK'
  <2>1. ASSUME NEW v \in Users, NEW f \in Envelopes, Due(v, f)'
        PROVE  Right(v, f)'
    <3>1. f = e /\ v \in members /\ v # u
      BY <2>1, <1>11
    <3>2. roster'[v] = members /\ named'[v] # "none" /\ named'[w] # "none"
      BY <3>1, <1>1, <1>3, <1>4, <1>5
    <3>3. members = members' \cup {w} /\ w \notin members' /\ (v \notin members' => v = w)
      BY <3>1, <1>1, <1>4
    <3> QED
      BY <3>1, <3>2, <3>3, <1>7 DEF Right
  <2> QED
    BY <2>1 DEF RightOK
<1>14. RostersOK'
  <2>1. ASSUME NEW v \in Users, Settled(v)'
        PROVE  /\ v \in members' => roster'[v] = members'
               /\ v \notin members' => v \notin roster'[v]
    <3>1. v \in members => v = u
      BY <2>1, <1>7, <1>11 DEF Settled, Control
    <3> QED
      BY <3>1, <1>1, <1>3, <1>5
  <2> QED
    BY <2>1 DEF RostersOK
<1>15. TextsOK'
  BY <1>7, <1>11 DEF TextsOK
<1>16. LeaversOK'
  <2>1. ASSUME NEW x \in Users \ members', NEW v \in roster'[x]
        PROVE  named'[v] # "none"
    <3>1. CASE x \in members
      <4>1. v \in members
        BY <3>1, <2>1, <1>1, <1>3, <1>5
      <4> QED
        BY <4>1, <1>1, <1>3
    <3>2. CASE x \notin members
      <4>1. x # u /\ v \in roster[x]
        BY <3>2, <2>1, <1>1, <1>5
      <4> QED
        BY <3>2, <4>1, <1>1, <1>2 DEF Sync, LeaversOK
    <3> QED
      BY <3>1, <3>2
  <2> QED
    BY <2>1 DEF LeaversOK
<1>17. StrangersOK'
  BY <1>1, <1>2 DEF Sync, StrangersOK
<1>18. MissesOK'
  BY <1>1, <1>3 DEF MissesOK
<1> QED
  BY <1>12, <1>13, <1>14, <1>15, <1>16, <1>17, <1>18 DEF Sync

(* A send moves what is due.                                                *)
LEMMA SyncSend ==
    ASSUME Base, HandsOK, Sync, NEW u \in Users, NEW v \in Users, NEW e \in Envelopes,
           Sends(u, v, e), UNCHANGED <<named, roster, members, left, missed>>
    PROVE  Sync'
<1>1. Typed
  BY DEF Base
<1>2. \A w \in Users, f \in Envelopes : Due(w, f)' <=> Due(w, f)
  BY <1>1, SendDue
<1>3. \A w \in Users : Settled(w)' <=> Settled(w)
  BY <1>2 DEF Settled
<1> DEFINE n == Len(mailbox[v])
<1>4. /\ n \in Nat /\ Len(mailbox'[v]) = n + 1 /\ mailbox'[v][n + 1] = e
      /\ \A k \in 1..n : mailbox'[v][k] = mailbox[v][k]
      /\ \A w \in Users \ {v} : mailbox'[w] = mailbox[w]
  <2>1. n \in Nat
    BY <1>1 DEF Typed
  <2> QED
    BY <2>1 DEF Sends, Stored
<1>5. /\ Owes(u, e, v)
      /\ \A x, w \in Users, f \in Envelopes :
            Owes(x, f, w)' => Owes(x, f, w) /\ ~(x = u /\ f = e /\ w = v)
  BY DEF Sends
<1>6. SingleOK'
  <2>1. ASSUME NEW w \in Users
        PROVE  Single(w)'
    <3>0. Single(w)
      BY DEF Sync, SingleOK
    <3>1. CASE w # v
      <4>1. mailbox'[w] = mailbox[w]
        BY <3>1, <1>4
      <4> QED
        BY <3>0, <4>1, <1>5 DEF Single
    <3>2. CASE w = v /\ e.type \notin Control
      <4>1. ASSUME NEW k \in 1..Len(mailbox'[v]), mailbox'[v][k].type \in Control
            PROVE  k \in 1..n /\ mailbox[v][k].type \in Control
        <5>1. k # n + 1
          BY <4>1, <3>2, <1>4
        <5>2. k \in 1..n
          BY <5>1, <1>4
        <5> QED
          BY <5>2, <4>1, <1>4
      <4> QED
        BY <3>0, <3>2, <4>1, <1>5 DEF Single
    <3>3. CASE w = v /\ e.type \in Control
      <4>1. ASSUME NEW k \in 1..Len(mailbox'[v]), mailbox'[v][k].type \in Control
            PROVE  k = n + 1
        <5>1. CASE k \in 1..n
          <6>1. mailbox[v][k].type \in Control
            BY <5>1, <4>1, <1>4
          <6> QED
            BY <6>1, <5>1, <3>0, <3>3, <1>5 DEF Single
        <5>2. CASE k \notin 1..n
          BY <5>2, <1>4
        <5> QED
          BY <5>1, <5>2
      <4>2. ASSUME NEW x \in Users, NEW f \in Envelopes, Owes(x, f, v)', f.type \in Control
            PROVE  FALSE
        <5>1. Owes(x, f, v) /\ ~(x = u /\ f = e)
          BY <4>2, <1>5
        <5> QED
          BY <5>1, <4>2, <3>0, <3>3, <1>5 DEF Single
      <4> QED
        BY <3>3, <4>1, <4>2 DEF Single
    <3> QED
      BY <3>1, <3>2, <3>3
  <2> QED
    BY <2>1 DEF SingleOK
<1>7. RightOK'
  <2>1. ASSUME NEW w \in Users, NEW f \in Envelopes, Due(w, f)', f.type \in Control
        PROVE  Right(w, f)'
    <3>1. Right(w, f)
      BY <1>2, <2>1 DEF Sync, RightOK
    <3> QED
      BY <3>1 DEF Right
  <2> QED
    BY <2>1 DEF RightOK
<1>8. RostersOK'
  BY <1>3 DEF Sync, RostersOK
<1>9. TextsOK'
  <2>1. ASSUME NEW w \in Users, NEW f \in Envelopes, Due(w, f)', f.type \in {"text", "delete"}
        PROVE  Reached(f.from, w)'
    <3>1. Reached(f.from, w)
      BY <1>2, <2>1 DEF Sync, TextsOK
    <3> QED
      BY <3>1, <1>3 DEF Reached
  <2> QED
    BY <2>1 DEF TextsOK
<1>10. LeaversOK' /\ StrangersOK'
  BY DEF Sync, LeaversOK, StrangersOK
<1>11. MissesOK'
  <2>1. ASSUME NEW w \in Users, NEW k \in missed[w]
        PROVE  mailbox'[w][k] = mailbox[w][k]
    <3>1. k \in 1..Len(mailbox[w])
      BY DEF HandsOK
    <3> QED
      BY <3>1, <1>4
  <2> QED
    BY <2>1, <1>2 DEF Sync, MissesOK, Awaiting
<1> QED
  BY <1>6, <1>7, <1>8, <1>9, <1>10, <1>11 DEF Sync

(* An envelope that changes the roster makes it the membership.             *)
LEMMA SyncTake ==
    ASSUME Base, HandsOK, Sync, NEW v \in Users, NEW k, NEW e \in Envelopes, Taken(v, k, e),
           Handled(v, e), UNCHANGED <<job, members, left>>, k \notin missed[v],
           missed' = [missed EXCEPT ![v] = {NewPlace(k, j) : j \in missed[v]}]
    PROVE  Sync'
<1>1. /\ Typed
      /\ \A x \in Users : named[x] = "none" => roster[x] = {}
  BY DEF Base, CopiesOK
<1>2. /\ e.type \in {"invite", "added", "removed", "text", "delete", "picture"}
      /\ e.from \in Users
  BY EnvelopeFields
<1>3. /\ Due(v, e)
      /\ \A x, w \in Users, f \in Envelopes : Owes(x, f, w)' <=> Owes(x, f, w)
      /\ \A w \in Users, f \in Envelopes : Due(w, f)' => Due(w, f)
      /\ \A w \in Users, f \in Envelopes : Due(w, f) => Due(w, f)' \/ (w = v /\ f = e)
  BY <1>1, TakeDue
<1>4. /\ k \in 1..Len(mailbox[v]) /\ mailbox[v][k] = e
      /\ \A i \in 1..Len(mailbox'[v]) :
            /\ OldPlace(k, i) \in 1..Len(mailbox[v]) /\ OldPlace(k, i) # k
            /\ NewPlace(k, OldPlace(k, i)) = i
            /\ mailbox'[v][i] = mailbox[v][OldPlace(k, i)]
      /\ \A j \in 1..Len(mailbox[v]) : j # k =>
            mailbox'[v][NewPlace(k, j)] = mailbox[v][j]
      /\ \A w \in Users \ {v} : mailbox'[w] = mailbox[w]
  <2>1. \A w \in Users \ {v} : mailbox'[w] = mailbox[w]
    BY DEF Taken
  <2> QED
    BY <2>1, <1>1, TakenPlaces
<1>5. \A w \in Users \ {v} : named'[w] = named[w] /\ roster'[w] = roster[w]
  BY DEF Handled
<1>6. \A w \in Users \ {v} : Settled(w)' <=> Settled(w)
  BY <1>3 DEF Settled
<1>7. ASSUME e.type \notin Control, ~Settled(v)
      PROVE  ~Settled(v)'
  <2>1. PICK c \in Envelopes : Due(v, c) /\ c.type \in Control
    BY <1>7 DEF Settled
  <2>2. Due(v, c)'
    BY <2>1, <1>3, <1>7
  <2> QED
    BY <2>1, <2>2 DEF Settled
<1>8. ASSUME e.type \in Control
      PROVE  Settled(v)'
  <2>1. Single(v)
    BY DEF Sync, SingleOK
  <2>2. ASSUME NEW f \in Envelopes, Due(v, f)', f.type \in Control
        PROVE  FALSE
    <3>1. CASE InBox(v, f)'
      <4>1. PICK i \in 1..Len(mailbox'[v]) : mailbox'[v][i] = f
        BY <3>1 DEF InBox
      <4>2. /\ OldPlace(k, i) \in 1..Len(mailbox[v]) /\ OldPlace(k, i) # k
            /\ mailbox[v][OldPlace(k, i)].type \in Control
        BY <4>1, <2>2, <1>4
      <4>3. mailbox[v][k].type \in Control
        BY <1>4, <1>8
      <4> QED
        BY <4>2, <4>3, <2>1, <1>4 DEF Single
    <3>2. CASE \E x \in Users : Owes(x, f, v)'
      <4>1. PICK x \in Users : Owes(x, f, v)
        BY <3>2, <1>3
      <4>2. mailbox[v][k].type \in Control
        BY <1>4, <1>8
      <4> QED
        BY <4>1, <4>2, <2>1, <2>2, <1>4 DEF Single
    <3> QED
      BY <3>1, <3>2, <2>2 DEF Due
  <2> QED
    BY <2>2 DEF Settled
<1>9. e.type \notin Control => roster'[v] = roster[v]
  BY <1>2 DEF Handled, Control
<1>10. SingleOK'
  <2>1. ASSUME NEW w \in Users
        PROVE  Single(w)'
    <3>0. Single(w)
      BY DEF Sync, SingleOK
    <3>1. CASE w # v
      <4>1. mailbox'[w] = mailbox[w]
        BY <3>1, <1>4
      <4> QED
        BY <3>0, <4>1, <1>3 DEF Single
    <3>2. CASE w = v
      <4>1. ASSUME NEW i \in 1..Len(mailbox'[v]), NEW j \in 1..Len(mailbox'[v]),
                   mailbox'[v][i].type \in Control, mailbox'[v][j].type \in Control
            PROVE  i = j
        <5>1. /\ OldPlace(k, i) \in 1..Len(mailbox[v])
              /\ mailbox[v][OldPlace(k, i)].type \in Control
              /\ OldPlace(k, j) \in 1..Len(mailbox[v])
              /\ mailbox[v][OldPlace(k, j)].type \in Control
          BY <4>1, <1>4
        <5>2. OldPlace(k, i) = OldPlace(k, j)
          BY <5>1, <3>0, <3>2 DEF Single
        <5> QED
          BY <5>2, <1>4
      <4>2. ASSUME NEW x \in Users, NEW f \in Envelopes, Owes(x, f, v)', f.type \in Control
            PROVE  /\ \A i \in 1..Len(mailbox'[v]) : mailbox'[v][i].type \notin Control
                   /\ \A y \in Users, g \in Envelopes :
                         Owes(y, g, v)' /\ g.type \in Control => y = x /\ g = f
        <5>1. Owes(x, f, v)
          BY <4>2, <1>3
        <5>2. \A i \in 1..Len(mailbox[v]) : mailbox[v][i].type \notin Control
          BY <5>1, <4>2, <3>0, <3>2 DEF Single
        <5>3. \A i \in 1..Len(mailbox'[v]) : mailbox'[v][i].type \notin Control
          BY <5>2, <1>4
        <5> QED
          BY <5>1, <5>3, <4>2, <3>0, <3>2, <1>3 DEF Single
      <4> QED
        BY <3>2, <4>1, <4>2 DEF Single
    <3> QED
      BY <3>1, <3>2
  <2> QED
    BY <2>1 DEF SingleOK
<1>11. \A x \in Users : named[x] # "none" => named'[x] # "none"
  BY DEF Handled
<1>12. RightOK'
  <2>1. ASSUME NEW w \in Users, NEW f \in Envelopes, Due(w, f)', f.type \in Control
        PROVE  Right(w, f)'
    <3>1. Right(w, f) /\ (f.type = "removed" => f.who \in Users)
      BY <2>1, <1>3, EnvelopeFields DEF Sync, RightOK
    <3>2. CASE roster'[w] = roster[w]
      BY <3>1, <3>2, <1>11 DEF Right
    <3>3. CASE roster'[w] # roster[w]
      BY <3>3, <2>1, <1>5, <1>8, <1>9 DEF Settled
    <3> QED
      BY <3>2, <3>3
  <2> QED
    BY <2>1 DEF RightOK
<1>13. RostersOK'
  <2>1. ASSUME NEW w \in Users, Settled(w)'
        PROVE  /\ w \in members => roster'[w] = members
               /\ w \notin members => w \notin roster'[w]
    <3>1. CASE w # v
      BY <3>1, <2>1, <1>5, <1>6 DEF Sync, RostersOK
    <3>2. CASE w = v /\ e.type \in Control
      <4>1. Right(v, e)
        BY <3>2, <1>3 DEF Sync, RightOK
      <4>2. CASE e.type = "invite"
        BY <3>2, <4>1, <4>2 DEF Right, Handled
      <4>3. CASE e.type = "added"
        BY <3>2, <4>1, <4>3 DEF Right, Handled
      <4>4. CASE e.type = "removed"
        BY <3>2, <4>1, <4>4 DEF Right, Handled
      <4> QED
        BY <3>2, <4>2, <4>3, <4>4 DEF Control
    <3>3. CASE w = v /\ e.type \notin Control
      <4>1. Settled(v)
        BY <3>3, <2>1, <1>7
      <4>2. roster'[v] = roster[v]
        BY <3>3, <1>9
      <4> QED
        BY <3>3, <4>1, <4>2 DEF Sync, RostersOK
    <3> QED
      BY <3>1, <3>2, <3>3
  <2> QED
    BY <2>1 DEF RostersOK
<1>14. TextsOK'
  <2>1. ASSUME NEW w \in Users, NEW f \in Envelopes, Due(w, f)', f.type \in {"text", "delete"}
        PROVE  Reached(f.from, w)'
    <3>1. Reached(f.from, w)
      BY <2>1, <1>3 DEF Sync, TextsOK
    <3>2. CASE w # v
      BY <3>1, <3>2, <1>5, <1>6 DEF Reached
    <3>3. CASE w = v /\ e.type # "picture"
      <4>1. named'[v] # "none"
        BY <3>3 DEF Handled
      <4> QED
        BY <3>3, <4>1 DEF Reached
    <3>4. CASE w = v /\ e.type = "picture"
      <4>1. ~Settled(v) => ~Settled(v)'
        BY <3>4, <1>7 DEF Control
      <4> QED
        BY <3>1, <3>4, <4>1, <1>11 DEF Reached
    <3> QED
      BY <3>2, <3>3, <3>4
  <2> QED
    BY <2>1 DEF TextsOK
<1>15. ASSUME v \notin members
       PROVE  roster'[v] \subseteq roster[v] /\ (named[v] = "none" => named'[v] = "none")
  <2>1. CASE e.type = "picture"
    BY <2>1 DEF Handled
  <2>2. CASE e.type \in {"text", "delete"}
    BY <2>2 DEF Handled
  <2>3. CASE e.type \in Control
    <3>1. Right(v, e)
      BY <2>3, <1>3 DEF Sync, RightOK
    <3>2. e.type = "removed" /\ named[v] # "none"
      BY <3>1, <2>3, <1>15 DEF Right, Control
    <3> QED
      BY <3>2 DEF Handled
  <2> QED
    BY <2>1, <2>2, <2>3, <1>2 DEF Control
<1>16. LeaversOK'
  <2>1. ASSUME NEW x \in Users \ members, NEW w \in roster'[x]
        PROVE  named'[w] # "none"
    <3>1. w \in roster[x] /\ roster[x] \in SUBSET Users
      BY <2>1, <1>1, <1>5, <1>15 DEF Typed
    <3> QED
      BY <3>1, <1>11 DEF Sync, LeaversOK
  <2> QED
    BY <2>1 DEF LeaversOK
<1>17. StrangersOK'
  BY <1>5, <1>15 DEF Sync, StrangersOK
<1>18. MissesOK'
  <2>1. ASSUME NEW w \in Users, NEW i \in missed'[w]
        PROVE  Awaiting(w, mailbox[w][i])'
    <3>1. CASE w # v
      <4>1. i \in missed[w] /\ mailbox'[w] = mailbox[w]
        BY <2>1, <3>1, <1>4 DEF HandsOK
      <4> QED
        BY <4>1, <1>3 DEF Sync, MissesOK, Awaiting
    <3>2. CASE w = v
      <4>1. PICK j \in missed[v] : i = NewPlace(k, j)
        BY <2>1, <3>2 DEF HandsOK
      <4>2. j \in 1..Len(mailbox[v]) /\ j # k
        BY <4>1 DEF HandsOK
      <4>3. mailbox'[v][i] = mailbox[v][j]
        BY <4>1, <4>2, <1>4
      <4> QED
        BY <3>2, <4>3, <1>3 DEF Sync, MissesOK, Awaiting
    <3> QED
      BY <3>1, <3>2
  <2> QED
    BY <2>1 DEF MissesOK
<1> QED
  BY <1>10, <1>12, <1>13, <1>14, <1>16, <1>17, <1>18 DEF Sync

(* What finds no group came before the invitation that is on its way.       *)
LEMMA SyncMiss ==
    ASSUME Base, HandsOK, Sync, NEW v \in Users, NEW k, Miss(v, k)
    PROVE  Sync'
<1>1. Typed
  BY DEF Base
<1> DEFINE e == mailbox[v][k]
<1>2. /\ k \in 1..Len(mailbox[v]) /\ NeedsGroup(e) /\ named[v] = "none"
      /\ missed' = [missed EXCEPT ![v] = missed[v] \cup {k}]
      /\ UNCHANGED <<named, roster, members, left, job, mailbox>>
  BY <1>1 DEF Miss, InHand, Typed
<1>3. e \in Envelopes /\ Due(v, e)
  BY <1>1, <1>2, InBoxDue
<1> HIDE DEF e
<1>4. e.type \in {"added", "removed", "text", "delete"}
  BY <1>2, <1>3, EnvelopeFields DEF NeedsGroup
<1>5. \A c \in Envelopes : Due(v, c) /\ c.type \in Control => c.type = "invite"
  BY <1>2 DEF Sync, RightOK, Right, Control
<1>6. v \in members /\ e.from \in members
  BY <1>2, <1>3, <1>4, <1>5 DEF Sync, TextsOK, Reached, Control
<1>7. /\ \A w \in Users, f \in Envelopes : Due(w, f)' <=> Due(w, f)
      /\ \A x, w \in Users, f \in Envelopes : Owes(x, f, w)' <=> Owes(x, f, w)
  BY <1>2, SameDue
<1>8. MissesOK'
  <2>1. ASSUME NEW w \in Users, NEW i \in missed'[w]
        PROVE  Awaiting(w, mailbox[w][i])
    <3>1. CASE w = v /\ i = k
      BY <3>1, <1>5, <1>6 DEF Awaiting, e
    <3>2. CASE ~(w = v /\ i = k)
      BY <3>2, <2>1, <1>2 DEF HandsOK, Sync, MissesOK
    <3> QED
      BY <3>1, <3>2
  <2> QED
    BY <2>1, <1>2, <1>7 DEF MissesOK, Awaiting
<1>9. /\ SingleOK' /\ LeaversOK' /\ StrangersOK'
  BY <1>2, <1>7 DEF Sync, SingleOK, Single, LeaversOK, StrangersOK
<1>10. \A w \in Users : Settled(w)' <=> Settled(w)
  BY <1>7 DEF Settled
<1>11. RostersOK' /\ TextsOK'
  BY <1>2, <1>7, <1>10 DEF Sync, RostersOK, TextsOK, Reached
<1>12. RightOK'
  BY <1>2, <1>7 DEF Sync, RightOK, Right
<1> QED
  BY <1>8, <1>9, <1>11, <1>12 DEF Sync

(* The group that is made then has two members, as it should, and the        *)
(* invitation adds the others; one that is there has both.                   *)
LEMMA SyncDegrade ==
    ASSUME Base, HandsOK, Sync, NEW v \in Users, NEW k, Degrade(v, k)
    PROVE  Sync'
<1> DEFINE e == mailbox[v][k]
<1>1. /\ k \in 1..Len(mailbox[v]) /\ Degraded(v, e)
      /\ UNCHANGED <<job, mailbox, members, left>>
  BY DegradeBase
<1>2. k \in missed[v] /\ missed' = [missed EXCEPT ![v] = missed[v] \ {k}]
  BY DEF Degrade
<1>3. Awaiting(v, e)
  BY <1>2 DEF Sync, MissesOK
<1> HIDE DEF e
<1>4. /\ \A w \in Users, f \in Envelopes : Due(w, f)' <=> Due(w, f)
      /\ \A x, w \in Users, f \in Envelopes : Owes(x, f, w)' <=> Owes(x, f, w)
  BY <1>1, SameDue
<1>5. \A w \in Users : Settled(w)' <=> Settled(w)
  BY <1>4 DEF Settled
<1>6. /\ \A x \in Users \ {v} : named'[x] = named[x] /\ roster'[x] = roster[x]
      /\ \A x \in Users : named[x] # "none" => named'[x] # "none"
      /\ roster'[v] = roster[v] \cup {e.from, v}
  BY <1>1 DEF Degraded
<1>7. SingleOK'
  BY <1>1, <1>4 DEF Sync, SingleOK, Single
<1>8. RightOK'
  <2>1. ASSUME NEW w \in Users, NEW f \in Envelopes, Due(w, f), f.type \in Control
        PROVE  Right(w, f)'
    <3>1. Right(w, f) /\ (f.type = "removed" => f.who \in Users)
      BY <2>1, EnvelopeFields DEF Sync, RightOK
    <3>2. CASE w = v
      BY <3>1, <3>2, <2>1, <1>1, <1>3, <1>6 DEF Right, Awaiting
    <3>3. CASE w # v
      BY <3>1, <3>3, <1>1, <1>6 DEF Right
    <3> QED
      BY <3>2, <3>3
  <2> QED
    BY <2>1, <1>4 DEF RightOK
<1>9. RostersOK'
  BY <1>1, <1>3, <1>5, <1>6 DEF Sync, RostersOK, Awaiting
<1>10. TextsOK'
  BY <1>1, <1>4, <1>5, <1>6 DEF Sync, TextsOK, Reached
<1>11. LeaversOK'
  <2>1. ASSUME NEW x \in Users \ members, NEW w \in roster'[x]
        PROVE  named'[w] # "none"
    <3>1. w \in roster[x] /\ roster[x] \in SUBSET Users
      BY <2>1, <1>3, <1>6 DEF Awaiting, Base, Typed
    <3> QED
      BY <3>1, <1>6 DEF Sync, LeaversOK
  <2> QED
    BY <2>1, <1>1 DEF LeaversOK
<1>12. StrangersOK'
  BY <1>1, <1>3, <1>6 DEF Sync, StrangersOK, Awaiting
<1>13. MissesOK'
  BY <1>1, <1>2, <1>4 DEF HandsOK, Sync, MissesOK, Awaiting
<1> QED
  BY <1>7, <1>8, <1>9, <1>10, <1>11, <1>12, <1>13 DEF Sync


(* Every step keeps SyncOK.                                                 *)
LEMMA NextSync ==
    ASSUME Base, HandsOK, SyncOK, [Next]_vars
    PROVE  SyncOK'
<1> SUFFICES ASSUME Orderly'
             PROVE  Sync'
  BY DEF SyncOK
<1>1. Typed
  BY DEF Base
<1>2. ASSUME NEW u \in Users, NEW others \in SUBSET Users, CreateGroup(u, others)
      PROVE  Sync'
  BY <1>2, SyncCreate
<1>3. ASSUME NEW u \in Users, NEW w \in Users, AddMember(u, w)
      PROVE  Sync'
  BY <1>3, SyncAdd
<1>4. ASSUME NEW u \in Users, NEW w \in Users, RemoveMember(u, w)
      PROVE  Sync'
  BY <1>4, SyncRemove
<1>5. ASSUME NEW u \in Users, SendText(u)
      PROVE  Sync'
  <2>1. PICK e : e = Text(u, Len(author) + 1)
    OBVIOUS
  <2>2. PICK D : D = {e} \X (roster[u] \ {u})
    OBVIOUS
  <2>3. Begins(u, D) /\ e.type = "text" /\ e.from = u
    BY <1>5, <2>1, <2>2, SendTextBase DEF Text
  <2>4. /\ UNCHANGED <<named, roster, members, left, missed>>
        /\ Sync
    BY <1>5 DEF SendText, Orderly, SyncOK
  <2>5. \A f \in Envelopes, v \in Users : <<f, v>> \in D =>
          /\ f.type \notin Control
          /\ f.type \in {"text", "delete"} => Reached(f.from, v)
    <3>1. \A v \in roster[u] : Reached(u, v)
      BY <2>4, RosterReached
    <3> QED
      BY <3>1, <2>2, <2>3 DEF Control
  <2> QED
    BY <2>3, <2>4, <2>5, SyncBegin
<1>6. ASSUME NEW u \in Users, NEW i \in 1..MaxTexts, DeleteText(u, i)
      PROVE  Sync'
  <2>1. PICK e : e = Delete(u, i)
    OBVIOUS
  <2>2. PICK D : D = {e} \X (roster[u] \ {u})
    OBVIOUS
  <2>3. Begins(u, D) /\ e.type = "delete" /\ e.from = u
    BY <1>6, <2>1, <2>2, DeleteTextBase DEF Delete
  <2>4. /\ UNCHANGED <<named, roster, members, left, missed>>
        /\ Sync
    BY <1>6 DEF DeleteText, Orderly, SyncOK
  <2>5. \A f \in Envelopes, v \in Users : <<f, v>> \in D =>
          /\ f.type \notin Control
          /\ f.type \in {"text", "delete"} => Reached(f.from, v)
    <3>1. \A v \in roster[u] : Reached(u, v)
      BY <2>4, RosterReached
    <3> QED
      BY <3>1, <2>2, <2>3 DEF Control
  <2> QED
    BY <2>3, <2>4, <2>5, SyncBegin
<1>7. ASSUME NEW u \in Users, SetProfilePicture(u)
      PROVE  Sync'
  <2>1. PICK D : D = {Picture(u, pictures'.has[u][u])} \X pictures'.told[u]
    OBVIOUS
  <2>2. Begins(u, D)
    BY <1>7, <2>1, SetProfilePictureBase
  <2>3. /\ UNCHANGED <<named, roster, members, left, missed>>
        /\ Sync
    BY <1>7 DEF SetProfilePicture, Orderly, SyncOK
  <2>4. \A f \in Envelopes, v \in Users : <<f, v>> \in D => f.type = "picture"
    BY <2>1 DEF Picture
  <2>5. \A f \in Envelopes, v \in Users : <<f, v>> \in D =>
          /\ f.type \notin Control
          /\ f.type \in {"text", "delete"} => Reached(f.from, v)
    BY <2>4 DEF Control
  <2> QED
    BY <2>2, <2>3, <2>5, SyncBegin
<1>8. ASSUME NEW u \in Users, Send(u)
      PROVE  Sync'
  <2>1. /\ \E v \in Users, e \in Envelopes : Sends(u, v, e)
        /\ UNCHANGED <<named, roster, members, left, calm, rejoined, missed>>
    BY <1>8, SendBase DEF Send
  <2>2. Sync
    BY <2>1 DEF Orderly, SyncOK
  <2> QED
    BY <2>1, <2>2, SyncSend
<1>9. ASSUME NEW u \in Users, BreakOff(u)
      PROVE  Sync'
  BY <1>9 DEF BreakOff, Orderly
<1>10. ASSUME NEW v \in Users, NEW k, Receive(v, k)
       PROVE  Sync'
  <2>1. /\ \E e \in Envelopes : Taken(v, k, e) /\ Handled(v, e) /\ Sound(v, e)
        /\ UNCHANGED <<job, members, left, calm, rejoined>>
    BY <1>10, ReceiveBase
  <2>2. Sync
    BY <2>1 DEF Orderly, SyncOK
  <2>3. /\ k \notin missed[v]
        /\ missed' = [missed EXCEPT ![v] = {NewPlace(k, j) : j \in missed[v]}]
    BY <1>10 DEF Receive, NewPlace
  <2> QED
    BY <2>1, <2>2, <2>3, SyncTake
<1>11. ASSUME NEW v \in Users, NEW k, Miss(v, k) \/ Degrade(v, k)
       PROVE  Sync'
  <2>1. Sync
    BY <1>11 DEF Miss, Degrade, Orderly, SyncOK
  <2> QED
    BY <2>1, <1>11, SyncMiss, SyncDegrade
<1>12. CASE UNCHANGED vars
  <2>1. /\ \A x, w \in Users, f \in Envelopes : Owes(x, f, w)' <=> Owes(x, f, w)
        /\ \A w \in Users, f \in Envelopes : Due(w, f)' <=> Due(w, f)
        /\ UNCHANGED <<named, roster, members, left, mailbox, missed>>
    BY <1>12 DEF vars, Owes, Due, InBox
  <2>2. Sync
    BY <1>12 DEF vars, Orderly, SyncOK
  <2>3. \A w \in Users : Settled(w)' <=> Settled(w)
    BY <2>1 DEF Settled
  <2>4. SingleOK'
    BY <2>1, <2>2 DEF Sync, SingleOK, Single
  <2>5. RightOK'
    <3>1. \A w, f : Right(w, f)' <=> Right(w, f)
      BY <2>1 DEF Right
    <3> QED
      BY <2>1, <2>2, <3>1 DEF Sync, RightOK
  <2>6. RostersOK'
    BY <2>1, <2>2, <2>3 DEF Sync, RostersOK
  <2>7. TextsOK'
    <3>1. \A w \in Users : \A x : Reached(x, w)' <=> Reached(x, w)
      BY <2>1, <2>3 DEF Reached
    <3> QED
      BY <2>1, <2>2, <3>1 DEF Sync, TextsOK
  <2>8. LeaversOK' /\ StrangersOK'
    BY <2>1, <2>2 DEF Sync, LeaversOK, StrangersOK
  <2>9. MissesOK'
    BY <2>1, <2>2 DEF Sync, MissesOK, Awaiting
  <2> QED
    BY <2>4, <2>5, <2>6, <2>7, <2>8, <2>9 DEF Sync
<1> QED
  BY <1>2, <1>3, <1>4, <1>5, <1>6, <1>7, <1>8, <1>9, <1>10, <1>11, <1>12 DEF Next

(* SyncOK holds always.                                                     *)
LEMMA SyncInvariant == Spec => []SyncOK
<1>1. Init => SyncOK
  <2> SUFFICES ASSUME Init
               PROVE  Sync
    BY DEF SyncOK
  <2>1. /\ \A v \in Users, e \in Envelopes : ~Due(v, e)
        /\ \A u, v \in Users, e \in Envelopes : ~Owes(u, e, v)
        /\ \A u \in Users : named[u] = "none" /\ roster[u] = {} /\ Len(mailbox[u]) = 0
    BY InitBase
  <2>2. SingleOK
    <3>1. \A v \in Users : \A k : k \notin 1..Len(mailbox[v])
      BY <2>1
    <3> QED
      BY <3>1, <2>1 DEF SingleOK, Single
  <2>3. members = {} /\ \A v \in Users : missed[v] = {}
    BY DEF Init
  <2> QED
    BY <2>1, <2>2, <2>3
    DEF Sync, RightOK, RostersOK, TextsOK, LeaversOK, StrangersOK, MissesOK
<1>2. Base /\ HandsOK /\ SyncOK /\ [Next]_vars => SyncOK'
  BY NextSync
<1> QED
  BY <1>1, <1>2, BaseInvariant, PTL DEF Spec

(* The control envelopes keep the rosters in sync: once everything has       *)
(* arrived, every member's roster is the membership and nobody else counts   *)
(* itself in, if members changed it one at a time, every change went through *)
(* and nobody who was removed came back, whatever texts, deletions and       *)
(* pictures crossed the changes (session_manager.py:151-213, 282-331).       *)
THEOREM GroupsRostersInSync == Spec => []RostersInSync
<1>1. Base /\ HandsOK /\ SyncOK => RostersInSync
  <2> SUFFICES ASSUME Base, HandsOK, SyncOK, AtRest, calm, ~rejoined
               PROVE  InSync
    BY DEF RostersInSync
  <2>1. Sync
    BY DEF SyncOK, Orderly
  <2> QED
    BY <2>1, RestFacts DEF InSync
<1> QED
  BY <1>1, BaseInvariant, SyncInvariant, PTL

-----------------------------------------------------------------------------

(* Operations that leave the membership alone: what they send follows an     *)
(* invitation.                                                               *)
LEMMA NamesBegin ==
    ASSUME Base, Names, NEW u \in Users, NEW D, Begins(u, D),
           \A e \in Envelopes, v \in Users : <<e, v>> \in D =>
              /\ e.type \in {"text", "delete", "picture"}
              /\ e.type # "picture" => named[v] # "none" \/ IsInvited(v),
           UNCHANGED <<named, roster, ops>>,
           author' = author \/ ~(ops = 0 /\ \E x, v \in Users : Inviting(x, v))
    PROVE  Names'
<1>1. /\ \A v \in Users, e \in Envelopes : Due(v, e)' <=> Due(v, e) \/ <<e, v>> \in D
      /\ \A v \in Users, e \in Envelopes : InBox(v, e)' <=> InBox(v, e)
      /\ mailbox' = mailbox
  BY BeginDue DEF Begins
<1>2. ASSUME NEW x \in Users, NEW v \in Users, NEW e \in Envelopes
      PROVE  Owes(x, e, v)' => Owes(x, e, v) \/ <<e, v>> \in D
  BY DEF Begins
<1>3. ASSUME NEW x \in Users, NEW v \in Users, NEW e \in Envelopes, Owes(x, e, v)
      PROVE  Owes(x, e, v)'
  BY <1>3 DEF Begins
<1>4. \A x, v \in Users : Inviting(x, v)' <=> Inviting(x, v)
  BY <1>2, <1>3 DEF Inviting
<1>5. \A v \in Users : IsInvited(v)' <=> IsInvited(v)
  BY <1>1 DEF IsInvited
<1>6. \A v \in Users : Covered(v)' <=> Covered(v)
  BY <1>4, <1>5 DEF Covered
<1>7. \A x \in Users : named'[x] # "unknown"
  BY DEF Names
<1>8. InvitesNamed'
  BY <1>1 DEF Names, InvitesNamed
<1>9. InviteFirst'
  BY <1>1 DEF Names, InviteFirst
<1>10. InviteAhead'
  <2>1. ASSUME NEW x \in Users, NEW v \in Users, NEW e \in Envelopes,
               Owes(x, e, v)', e.type \in Message
        PROVE  named[v] # "none" \/ IsInvited(v)
    <3>1. CASE Owes(x, e, v)
      BY <3>1, <2>1 DEF Names, InviteAhead
    <3>2. CASE <<e, v>> \in D
      BY <3>2, <2>1 DEF Message
    <3> QED
      BY <3>1, <3>2, <2>1, <1>2
  <2> QED
    BY <2>1, <1>5 DEF InviteAhead
<1>11. RosterCovered'
  <2>1. \A x \in Users : roster[x] \in SUBSET Users
    BY DEF Base, Typed
  <2> QED
    BY <2>1, <1>4, <1>6 DEF Names, RosterCovered
<1>12. SentCovered'
  <2>1. ASSUME NEW v \in Users, NEW e \in Envelopes, InBox(v, e)'
        PROVE  /\ e.type = "invite" => \A w \in e.members : Covered(w)'
               /\ e.type = "added" => Covered(e.who)'
    <3>1. /\ e.type = "invite" => \A w \in e.members : w \in Users /\ Covered(w)
          /\ e.type = "added" => e.who \in Users /\ Covered(e.who)
      BY <2>1, <1>1, EnvelopeFields DEF Names, SentCovered
    <3> QED
      BY <3>1, <1>6
  <2> QED
    BY <2>1 DEF SentCovered
<1>13. OwedCovered'
  <2>1. ASSUME NEW x \in Users, NEW v \in Users, NEW e \in Envelopes, Owes(x, e, v)'
        PROVE  /\ e.type = "invite" => \A w \in e.members : Covered(w)' \/ Inviting(x, w)'
               /\ e.type = "added" => Covered(e.who)' \/ Inviting(x, e.who)'
    <3>1. CASE Owes(x, e, v)
      <4>1. /\ e.type = "invite" => \A w \in e.members : w \in Users /\ (Covered(w) \/ Inviting(x, w))
            /\ e.type = "added" => e.who \in Users /\ (Covered(e.who) \/ Inviting(x, e.who))
        BY <3>1, EnvelopeFields DEF Names, OwedCovered
      <4> QED
        BY <4>1, <1>4, <1>6
    <3>2. CASE <<e, v>> \in D
      BY <3>2
    <3> QED
      BY <3>1, <3>2, <2>1, <1>2
  <2> QED
    BY <2>1 DEF OwedCovered
<1>14. OneInvited' /\ FoundingQuiet'
  BY <1>4 DEF Names, OneInvited, FoundingQuiet
<1> QED
  BY <1>7, <1>8, <1>9, <1>10, <1>11, <1>12, <1>13, <1>14 DEF Names

(* The founding: who is on the roster is being invited.                     *)
LEMMA NamesCreate ==
    ASSUME Base, Names, NEW u \in Users, NEW others \in SUBSET Users, CreateGroup(u, others)
    PROVE  Names'
<1> DEFINE all == others \cup {u}
<1>1. PICK q : q = Invite(u, "name", all)
  OBVIOUS
<1>2. /\ q \in Envelopes /\ q.type = "invite" /\ q.members = all /\ q.name = "name"
  BY <1>1, InviteMade
<1>3. PICK D : D = {q} \X (all \ {u})
  OBVIOUS
<1>4. \A v, e : <<e, v>> \in D <=> e = q /\ v \in all /\ v # u
  BY <1>3
<1>5. /\ Base' /\ Begins(u, D)
      /\ members = {} /\ left = {} /\ author' = author /\ ops' = ops
      /\ \A x \in Users \ {u} : roster'[x] = roster[x] /\ named'[x] = named[x]
      /\ roster'[u] = all /\ all \in SUBSET Users /\ named'[u] = "name"
  <2>1. Base' /\ Begins(u, D)
    BY <1>1, <1>3, CreateGroupBase
  <2>2. /\ members = {} /\ left = {} /\ author' = author /\ ops' = ops
        /\ roster' = [roster EXCEPT ![u] = all] /\ named' = [named EXCEPT ![u] = "name"]
    BY DEF CreateGroup
  <2>3. /\ roster \in [Users -> SUBSET Users]
        /\ named \in [Users -> {"none", "name", "unknown"}]
    BY DEF Base, Typed
  <2> QED
    BY <2>1, <2>2, <2>3
<1>6. /\ \A x \in Users : named[x] = "none" /\ roster[x] = {}
      /\ author = <<>> /\ ops = 0
      /\ \A v \in Users, e \in Envelopes : Due(v, e) => e.type = "picture"
  BY <1>5 DEF Base, UnfoundedOK, CopiesOK
<1>7. /\ \A v \in Users, e \in Envelopes : Due(v, e)' <=> Due(v, e) \/ (e = q /\ v \in all /\ v # u)
      /\ \A v \in Users, e \in Envelopes : InBox(v, e)' <=> InBox(v, e)
      /\ mailbox' = mailbox
  <2>1. /\ \A v \in Users, e \in Envelopes : Due(v, e)' <=> Due(v, e) \/ <<e, v>> \in D
        /\ \A v \in Users, e \in Envelopes : InBox(v, e)' <=> InBox(v, e)
    BY <1>5, BeginDue
  <2>2. mailbox' = mailbox
    BY <1>5 DEF Begins
  <2> QED
    BY <2>1, <2>2, <1>4
<1>8. \A v \in Users, e \in Envelopes : InBox(v, e)' => e.type = "picture"
  BY <1>6, <1>7 DEF Due
<1>9. \A x, v \in Users, e \in Envelopes : Owes(x, e, v)' /\ e.type # "picture" => x = u /\ e = q
  <2>1. ASSUME NEW x \in Users, NEW v \in Users, NEW e \in Envelopes,
               Owes(x, e, v)', e.type # "picture"
        PROVE  x = u /\ e = q
    <3>1. CASE x = u
      <4>1. <<e, v>> \in D
        BY <3>1, <2>1, <1>5 DEF Begins
      <4> QED
        BY <3>1, <4>1, <1>4
    <3>2. CASE x # u
      <4>1. Owes(x, e, v)
        BY <3>2, <2>1, <1>5 DEF Begins
      <4>2. Due(v, e)
        BY <4>1, OwedDue
      <4> QED
        BY <4>2, <2>1, <1>6
    <3> QED
      BY <3>1, <3>2
  <2> QED
    BY <2>1
<1>10. \A v \in all : named'[v] # "none" \/ Inviting(u, v)'
  <2>1. ASSUME NEW v \in all, v # u
        PROVE  Owes(u, q, v)'
    BY <2>1, <1>2, <1>4, <1>5 DEF Begins
  <2> QED
    BY <2>1, <1>2, <1>5 DEF Inviting
<1>11. \A x \in Users : named'[x] # "unknown"
  BY <1>5, <1>6
<1>12. InvitesNamed'
  BY <1>2, <1>6, <1>7 DEF InvitesNamed
<1>13. InviteFirst'
  <2>1. ASSUME NEW v \in Users, NEW k \in 1..Len(mailbox'[v])
        PROVE  mailbox'[v][k].type \notin Message
    <3>1. mailbox[v][k] \in Envelopes /\ Due(v, mailbox[v][k])
      BY <1>7, InBoxDue DEF Base
    <3> QED
      BY <3>1, <1>6, <1>7 DEF Message
  <2> QED
    BY <2>1 DEF InviteFirst
<1>14. InviteAhead'
  BY <1>2, <1>9 DEF InviteAhead, Message
<1>15. RosterCovered'
  <2>1. ASSUME NEW x \in Users, NEW v \in roster'[x]
        PROVE  Covered(v)' \/ Inviting(x, v)'
    <3>1. x = u /\ v \in all
      BY <2>1, <1>5, <1>6
    <3> QED
      BY <3>1, <1>10 DEF Covered
  <2> QED
    BY <2>1 DEF RosterCovered
<1>16. SentCovered'
  BY <1>8 DEF SentCovered
<1>17. OwedCovered'
  <2>1. ASSUME NEW x \in Users, NEW v \in Users, NEW e \in Envelopes, Owes(x, e, v)'
        PROVE  /\ e.type = "invite" => \A w \in e.members : Covered(w)' \/ Inviting(x, w)'
               /\ e.type # "added"
    <3>1. e.type # "picture" => x = u /\ e = q
      BY <2>1, <1>9
    <3> QED
      BY <3>1, <1>2, <1>10 DEF Covered
  <2> QED
    BY <2>1 DEF OwedCovered
<1>18. OneInvited' /\ FoundingQuiet'
  BY <1>5, <1>6 DEF OneInvited, FoundingQuiet
<1> QED
  BY <1>11, <1>12, <1>13, <1>14, <1>15, <1>16, <1>17, <1>18 DEF Names

(* When everything is at rest, all who are on a roster know the group.       *)
LEMMA NamesRest ==
    ASSUME Base, Names, AtRest
    PROVE  /\ \A v \in Users, e \in Envelopes : ~Due(v, e)
           /\ \A x, v \in Users, e \in Envelopes : ~Owes(x, e, v)
           /\ \A v \in Users : \A k : k \notin 1..Len(mailbox[v])
           /\ \A x \in Users : \A v \in roster[x] : v \in Users /\ named[v] = "name"
<1>1. \A v \in Users : Len(job[v]) = 0 /\ Len(mailbox[v]) = 0
  BY DEF AtRest
<1>2. \A v \in Users : \A k : k \notin 1..Len(mailbox[v])
  BY <1>1
<1>3. \A x, v \in Users, e \in Envelopes : ~Owes(x, e, v)
  BY <1>1 DEF Owes
<1>4. \A v \in Users, e \in Envelopes : ~Due(v, e)
  BY <1>2, <1>3 DEF Due, InBox
<1>5. ASSUME NEW x \in Users, NEW v \in roster[x]
      PROVE  v \in Users /\ named[v] = "name"
  <2>1. v \in Users /\ named[v] \in {"none", "name", "unknown"} /\ named[v] # "unknown"
    BY DEF Base, Typed, Names
  <2>2. ~IsInvited(v) /\ \A y \in Users : ~Inviting(y, v)
    BY <2>1, <1>2, <1>3 DEF IsInvited, Inviting
  <2>3. Covered(v) \/ Inviting(x, v)
    BY DEF Names, RosterCovered
  <2> QED
    BY <2>1, <2>2, <2>3 DEF Covered
<1> QED
  BY <1>2, <1>3, <1>4, <1>5

(* An addition that starts when all is at rest: one invitation, then notices.*)
LEMMA NamesAdd ==
    ASSUME Base, Names, NEW u \in Users, NEW w \in Users, AddMember(u, w), calm'
    PROVE  Names'
<1>1. /\ AtRest /\ named[u] # "none" /\ named' = named /\ ops' = ops + 1
      /\ roster' = [roster EXCEPT ![u] = roster[u] \cup {w}]
  BY DEF AddMember
<1>2. /\ \A v \in Users, e \in Envelopes : ~Due(v, e)
      /\ \A x, v \in Users, e \in Envelopes : ~Owes(x, e, v)
      /\ \A v \in Users : \A k : k \notin 1..Len(mailbox[v])
      /\ \A x \in Users : \A v \in roster[x] : v \in Users /\ named[v] = "name"
  BY <1>1, NamesRest
<1>3. /\ roster'[u] = roster[u] \cup {w} /\ roster[u] \in SUBSET Users
      /\ \A x \in Users \ {u} : roster'[x] = roster[x]
      /\ named[u] = "name" /\ ops' # 0
  <2>1. /\ roster \in [Users -> SUBSET Users] /\ ops \in Nat
        /\ named[u] \in {"none", "name", "unknown"} /\ named[u] # "unknown"
    BY DEF Base, Typed, Names
  <2> QED
    BY <2>1, <1>1
<1>4. PICK d, e : d = Invite(u, named[u], roster[u] \cup {w}) /\ e = Added(u, w)
  OBVIOUS
<1>5. /\ d \in Envelopes /\ d.type = "invite" /\ d.members = roster[u] \cup {w} /\ d.name = "name"
      /\ e \in Envelopes /\ e.type = "added" /\ e.who = w
  <2>1. roster[u] \cup {w} \in SUBSET Users
    BY <1>3
  <2> QED
    BY <2>1, <1>3, <1>4, InviteMade, NoticeMade
<1>6. PICK D : D = ({d} \X ({w} \ {u})) \cup ({e} \X (roster[u] \ {u}))
  OBVIOUS
<1>7. Base' /\ Begins(u, D)
  BY <1>4, <1>6, AddMemberBase
<1>8. \A v, f : <<f, v>> \in D <=> (f = d /\ v = w /\ v # u) \/ (f = e /\ v \in roster[u] /\ v # u)
  BY <1>6
<1>9. /\ \A v \in Users, f \in Envelopes : Due(v, f)' <=> <<f, v>> \in D
      /\ \A v \in Users, f \in Envelopes : ~InBox(v, f)'
      /\ mailbox' = mailbox
  BY <1>2, <1>7, BeginDue DEF Due, Begins
<1>10. \A x, v \in Users, f \in Envelopes : Owes(x, f, v)' <=> x = u /\ <<f, v>> \in D
  BY <1>2, <1>7 DEF Begins
<1>11. \A v \in roster[u] \cup {w} : named'[v] # "none" \/ Inviting(u, v)'
  <2>1. w # u => Owes(u, d, w)'
    BY <1>5, <1>8, <1>10
  <2>2. w # u => Inviting(u, w)'
    BY <2>1, <1>5 DEF Inviting
  <2> QED
    BY <2>2, <1>1, <1>2
<1>12. \A x \in Users : named'[x] # "unknown"
  BY <1>1 DEF Names
<1>13. InvitesNamed'
  BY <1>5, <1>8, <1>9 DEF InvitesNamed
<1>14. InviteFirst'
  BY <1>2, <1>9 DEF InviteFirst
<1>15. InviteAhead'
  <2>1. ASSUME NEW x \in Users, NEW v \in Users, NEW f \in Envelopes,
               Owes(x, f, v)', f.type \in Message
        PROVE  named'[v] # "none"
    <3>1. f = e /\ v \in roster[u]
      BY <2>1, <1>5, <1>8, <1>10 DEF Message
    <3> QED
      BY <3>1, <1>1, <1>2
  <2> QED
    BY <2>1 DEF InviteAhead
<1>16. RosterCovered'
  <2>1. ASSUME NEW x \in Users, NEW v \in roster'[x]
        PROVE  Covered(v)' \/ Inviting(x, v)'
    <3>1. CASE x = u
      BY <3>1, <2>1, <1>3, <1>11 DEF Covered
    <3>2. CASE x # u
      BY <3>2, <2>1, <1>1, <1>2, <1>3 DEF Covered
    <3> QED
      BY <3>1, <3>2
  <2> QED
    BY <2>1 DEF RosterCovered
<1>17. SentCovered'
  BY <1>9 DEF SentCovered
<1>18. OwedCovered'
  <2>1. ASSUME NEW x \in Users, NEW v \in Users, NEW f \in Envelopes, Owes(x, f, v)'
        PROVE  /\ f.type = "invite" => \A y \in f.members : Covered(y)' \/ Inviting(x, y)'
               /\ f.type = "added" => Covered(f.who)' \/ Inviting(x, f.who)'
    <3>1. x = u /\ <<f, v>> \in D
      BY <2>1, <1>10
    <3>2. f = d \/ f = e
      BY <3>1, <1>8
    <3> QED
      BY <3>1, <3>2, <1>5, <1>11 DEF Covered
  <2> QED
    BY <2>1 DEF OwedCovered
<1>19. OneInvited' /\ FoundingQuiet'
  <2>1. \A x, v \in Users : Inviting(x, v)' => v = w
    BY <1>5, <1>8, <1>10 DEF Inviting
  <2> QED
    BY <2>1, <1>3 DEF OneInvited, FoundingQuiet
<1> QED
  BY <1>12, <1>13, <1>14, <1>15, <1>16, <1>17, <1>18, <1>19 DEF Names

(* A removal that starts when all is at rest.                               *)
LEMMA NamesRemove ==
    ASSUME Base, Names, NEW u \in Users, NEW w \in Users, RemoveMember(u, w), calm'
    PROVE  Names'
<1>1. /\ AtRest /\ named' = named
      /\ roster' = [roster EXCEPT ![u] = roster[u] \ {w}]
  BY DEF RemoveMember
<1>2. /\ \A v \in Users, e \in Envelopes : ~Due(v, e)
      /\ \A x, v \in Users, e \in Envelopes : ~Owes(x, e, v)
      /\ \A v \in Users : \A k : k \notin 1..Len(mailbox[v])
      /\ \A x \in Users : \A v \in roster[x] : v \in Users /\ named[v] = "name"
  BY <1>1, NamesRest
<1>3. \A x \in Users : roster'[x] \subseteq roster[x]
  BY <1>1 DEF Base, Typed
<1>4. PICK e : e = Removed(u, w)
  OBVIOUS
<1>5. e \in Envelopes /\ e.type = "removed"
  BY <1>4, NoticeMade
<1>6. PICK D : D = {e} \X (roster[u] \ {u})
  OBVIOUS
<1>7. Base' /\ Begins(u, D)
  BY <1>4, <1>6, RemoveMemberBase
<1>8. \A v \in Users, f \in Envelopes : <<f, v>> \in D => f = e /\ v \in roster[u]
  BY <1>6
<1>9. /\ \A v \in Users, f \in Envelopes : Due(v, f)' <=> <<f, v>> \in D
      /\ \A v \in Users, f \in Envelopes : ~InBox(v, f)'
      /\ mailbox' = mailbox
  BY <1>2, <1>7, BeginDue DEF Due, Begins
<1>10. \A x, v \in Users, f \in Envelopes : Owes(x, f, v)' => f = e /\ v \in roster[u]
  <2>1. \A x, v \in Users, f \in Envelopes : Owes(x, f, v)' => <<f, v>> \in D
    BY <1>2, <1>7 DEF Begins
  <2> QED
    BY <2>1, <1>8
<1>11. \A x, v \in Users : ~Inviting(x, v)'
  BY <1>5, <1>10 DEF Inviting
<1>12. \A x \in Users : named'[x] # "unknown"
  BY <1>1 DEF Names
<1>13. InvitesNamed'
  <2>1. \A v \in Users, f \in Envelopes : Due(v, f)' => f = e
    BY <1>8, <1>9
  <2> QED
    BY <2>1, <1>5 DEF InvitesNamed
<1>14. InviteFirst'
  BY <1>2, <1>9 DEF InviteFirst
<1>15. InviteAhead'
  <2>1. ASSUME NEW x \in Users, NEW v \in Users, NEW f \in Envelopes, Owes(x, f, v)'
        PROVE  named'[v] # "none"
    BY <2>1, <1>1, <1>2, <1>10
  <2> QED
    BY <2>1 DEF InviteAhead
<1>16. RosterCovered'
  BY <1>1, <1>2, <1>3 DEF RosterCovered, Covered
<1>17. SentCovered' /\ OwedCovered'
  BY <1>5, <1>9, <1>10 DEF SentCovered, OwedCovered
<1>18. OneInvited' /\ FoundingQuiet'
  BY <1>11 DEF OneInvited, FoundingQuiet
<1> QED
  BY <1>12, <1>13, <1>14, <1>15, <1>16, <1>17, <1>18 DEF Names

(* A send: the invitation is stored before what follows it.                 *)
LEMMA NamesSend ==
    ASSUME Base, Names, NEW u \in Users, NEW v \in Users, NEW e \in Envelopes, Sends(u, v, e),
           UNCHANGED <<named, roster, author, ops>>
    PROVE  Names'
<1>1. Typed
  BY DEF Base
<1>2. /\ \A w \in Users, f \in Envelopes : Due(w, f)' <=> Due(w, f)
      /\ \A w \in Users, f \in Envelopes : InBox(w, f)' <=> InBox(w, f) \/ (w = v /\ f = e)
  BY <1>1, SendDue
<1> DEFINE n == Len(mailbox[v])
<1>3. /\ n \in Nat /\ Len(mailbox'[v]) = n + 1 /\ mailbox'[v][n + 1] = e
      /\ \A k \in 1..n : k \in 1..n + 1 /\ mailbox'[v][k] = mailbox[v][k]
      /\ \A w \in Users \ {v} : mailbox'[w] = mailbox[w]
  <2>1. n \in Nat
    BY <1>1 DEF Typed
  <2> QED
    BY <2>1 DEF Sends, Stored
<1>4. /\ Owes(u, e, v)
      /\ e.type = "added" => \A f \in Envelopes, w \in Users : Owes(u, f, w) => f.type # "invite"
      /\ \A x, w \in Users, f \in Envelopes : Owes(x, f, w)' => Owes(x, f, w)
      /\ \A x, w \in Users, f \in Envelopes :
            Owes(x, f, w) => Owes(x, f, w)' \/ (f = e /\ w = v)
  BY DEF Sends
<1>5. ASSUME NEW w \in Users
      PROVE  /\ IsInvited(w) => IsInvited(w)'
             /\ w = v /\ e.type = "invite" => IsInvited(w)'
  <2>1. CASE w = v
    <3>1. n + 1 \in 1..Len(mailbox'[v])
      BY <1>3
    <3> QED
      BY <2>1, <3>1, <1>3 DEF IsInvited
  <2>2. CASE w # v
    BY <2>2, <1>3 DEF IsInvited
  <2> QED
    BY <2>1, <2>2
<1>6. ASSUME NEW x \in Users, NEW w \in Users
      PROVE  /\ Inviting(x, w)' => Inviting(x, w)
             /\ Inviting(x, w) => Inviting(x, w)' \/ IsInvited(w)'
  BY <1>4, <1>5 DEF Inviting
<1>7. \A w \in Users : Covered(w) => Covered(w)'
  BY <1>5, <1>6 DEF Covered
<1>8. \A x, w \in Users : Covered(w) \/ Inviting(x, w) => Covered(w)' \/ Inviting(x, w)'
  BY <1>6, <1>7 DEF Covered
<1>9. /\ \A x \in Users : named'[x] # "unknown"
      /\ InvitesNamed' /\ OneInvited' /\ FoundingQuiet'
  BY <1>2, <1>6 DEF Names, InvitesNamed, OneInvited, FoundingQuiet
<1>10. InviteFirst'
  <2>1. ASSUME NEW w \in Users, named[w] = "none", NEW k \in 1..Len(mailbox'[w]),
               mailbox'[w][k].type \in Message
        PROVE  \E j \in 1..Len(mailbox'[w]) : j < k /\ mailbox'[w][j].type = "invite"
    <3>1. CASE w # v
      <4>1. mailbox'[w] = mailbox[w]
        BY <3>1, <1>3
      <4> QED
        BY <4>1, <2>1 DEF Names, InviteFirst
    <3>2. CASE w = v /\ k \in 1..n
      <4>1. mailbox[v][k].type \in Message
        BY <3>2, <2>1, <1>3
      <4>2. PICK j \in 1..n : j < k /\ mailbox[v][j].type = "invite"
        BY <3>2, <4>1, <2>1 DEF Names, InviteFirst
      <4> QED
        BY <3>2, <4>2, <1>3
    <3>3. CASE w = v /\ k \notin 1..n
      <4>1. k = n + 1
        BY <3>3, <1>3
      <4>2. e.type \in Message
        BY <3>3, <4>1, <2>1, <1>3
      <4>3. IsInvited(v)
        BY <3>3, <4>2, <2>1, <1>4 DEF Names, InviteAhead
      <4>4. PICK j \in 1..n : mailbox[v][j].type = "invite"
        BY <4>3 DEF IsInvited
      <4>5. j < k
        BY <4>1, <1>3
      <4> QED
        BY <3>3, <4>4, <4>5, <1>3
    <3> QED
      BY <3>1, <3>2, <3>3
  <2> QED
    BY <2>1 DEF InviteFirst
<1>11. InviteAhead'
  BY <1>4, <1>5 DEF Names, InviteAhead
<1>12. RosterCovered'
  <2>1. \A x \in Users : roster[x] \in SUBSET Users
    BY <1>1 DEF Typed
  <2> QED
    BY <2>1, <1>8 DEF Names, RosterCovered
<1>13. SentCovered'
  <2>1. ASSUME NEW w \in Users, NEW f \in Envelopes, InBox(w, f)'
        PROVE  /\ f.type = "invite" => \A x \in f.members : Covered(x)'
               /\ f.type = "added" => Covered(f.who)'
    <3>0. /\ f.type = "invite" => f.members \in SUBSET Users
          /\ f.type = "added" => f.who \in Users
      BY EnvelopeFields
    <3>1. CASE InBox(w, f)
      BY <3>0, <3>1, <1>7 DEF Names, SentCovered
    <3>2. CASE w = v /\ f = e
      <4>1. ASSUME e.type = "invite", NEW x \in e.members
            PROVE  Covered(x)'
        <5>1. x \in Users /\ (Covered(x) \/ Inviting(u, x))
          BY <3>0, <3>2, <4>1, <1>4 DEF Names, OwedCovered
        <5>2. CASE Inviting(u, x) /\ ops = 0
          <6>1. Covered(x)
            BY <5>1, <5>2 DEF Covered
          <6> QED
            BY <5>1, <6>1, <1>7
        <5>3. CASE Inviting(u, x) /\ ops # 0
          <6>1. Inviting(u, v)
            BY <4>1, <1>4 DEF Inviting
          <6>2. ops > 0
            BY <5>3, <1>1 DEF Typed
          <6>3. x = v
            BY <5>1, <5>3, <6>1, <6>2 DEF Names, OneInvited
          <6> QED
            BY <6>3, <4>1, <1>5 DEF Covered
        <5> QED
          BY <5>1, <5>2, <5>3, <1>7
      <4>2. ASSUME e.type = "added"
            PROVE  Covered(e.who)'
        <5>1. e.who \in Users /\ (Covered(e.who) \/ Inviting(u, e.who))
          BY <3>0, <3>2, <4>2, <1>4 DEF Names, OwedCovered
        <5>2. ~Inviting(u, e.who)
          BY <4>2, <5>1, <1>4 DEF Inviting
        <5> QED
          BY <5>1, <5>2, <1>7
      <4> QED
        BY <3>2, <4>1, <4>2
    <3> QED
      BY <3>1, <3>2, <2>1, <1>2
  <2> QED
    BY <2>1 DEF SentCovered
<1>14. OwedCovered'
  <2>1. ASSUME NEW x \in Users, NEW w \in Users, NEW f \in Envelopes, Owes(x, f, w)'
        PROVE  /\ f.type = "invite" => \A y \in f.members : Covered(y)' \/ Inviting(x, y)'
               /\ f.type = "added" => Covered(f.who)' \/ Inviting(x, f.who)'
    <3>1. /\ f.type = "invite" => \A y \in f.members : y \in Users /\ (Covered(y) \/ Inviting(x, y))
          /\ f.type = "added" => f.who \in Users /\ (Covered(f.who) \/ Inviting(x, f.who))
      BY <2>1, <1>4, EnvelopeFields DEF Names, OwedCovered
    <3> QED
      BY <3>1, <1>8
  <2> QED
    BY <2>1 DEF OwedCovered
<1> QED
  BY <1>9, <1>10, <1>11, <1>12, <1>13, <1>14 DEF Names

(* What arrives first at a client without the group is its invitation.      *)
LEMMA NamesTake ==
    ASSUME Base, Names, NEW v \in Users, NEW k, NEW e \in Envelopes, Taken(v, k, e),
           Handled(v, e), UNCHANGED <<job, author, ops>>
    PROVE  Names'
<1>1. Typed
  BY DEF Base
<1>2. /\ InBox(v, e) /\ Due(v, e)
      /\ \A x, w \in Users, f \in Envelopes : Owes(x, f, w)' <=> Owes(x, f, w)
      /\ \A w \in Users, f \in Envelopes : InBox(w, f)' => InBox(w, f)
      /\ \A w \in Users, f \in Envelopes : Due(w, f)' => Due(w, f)
  BY <1>1, TakeDue
<1>3. /\ Len(mailbox[v]) \in Nat /\ k \in 1..Len(mailbox[v]) /\ mailbox[v][k] = e
      /\ \A i \in 1..Len(mailbox'[v]) :
            /\ OldPlace(k, i) \in 1..Len(mailbox[v]) /\ OldPlace(k, i) # k
            /\ mailbox'[v][i] = mailbox[v][OldPlace(k, i)]
      /\ \A j \in 1..Len(mailbox[v]) : j # k =>
            /\ NewPlace(k, j) \in 1..Len(mailbox'[v])
            /\ OldPlace(k, NewPlace(k, j)) = j
            /\ mailbox'[v][NewPlace(k, j)] = mailbox[v][j]
      /\ \A i, j \in 1..Len(mailbox'[v]) : i < j <=> OldPlace(k, i) < OldPlace(k, j)
      /\ \A w \in Users \ {v} : mailbox'[w] = mailbox[w]
  <2>1. \A w \in Users \ {v} : mailbox'[w] = mailbox[w]
    BY DEF Taken
  <2> QED
    BY <2>1, <1>1, TakenPlaces
<1>4. /\ e.type \in {"invite", "added", "removed", "text", "delete", "picture"}
      /\ e.type = "invite" => e.members \in SUBSET Users /\ e.name = "name"
      /\ e.type = "added" => e.who \in Users
  BY <1>2, EnvelopeFields DEF Names, InvitesNamed
<1>5. /\ \A w \in Users \ {v} : named'[w] = named[w] /\ roster'[w] = roster[w]
      /\ \A w \in Users : named[w] # "none" => named'[w] # "none"
  BY DEF Handled
<1>6. named[v] = "none" => e.type \in {"invite", "picture"}
  BY DEF Handled
<1>7. \A x \in Users : named'[x] # "unknown"
  <2>1. \A x \in Users : named[x] # "unknown"
    BY DEF Names
  <2>2. named'[v] # "unknown"
    BY <2>1, <1>4, <1>6 DEF Handled
  <2> QED
    BY <2>1, <2>2, <1>5
<1>8. ASSUME NEW w \in Users, IsInvited(w)
      PROVE  IsInvited(w)' \/ named'[w] # "none"
  <2>1. CASE w # v
    BY <2>1, <1>3, <1>8 DEF IsInvited
  <2>2. CASE w = v
    <3>1. PICK j \in 1..Len(mailbox[v]) : mailbox[v][j].type = "invite"
      BY <2>2, <1>8 DEF IsInvited
    <3>2. CASE j = k
      <4>1. e.type = "invite"
        BY <3>1, <3>2, <1>3
      <4> QED
        BY <2>2, <4>1 DEF Handled
    <3>3. CASE j # k
      BY <2>2, <3>1, <3>3, <1>3 DEF IsInvited
    <3> QED
      BY <3>2, <3>3
  <2> QED
    BY <2>1, <2>2
<1>9. \A x, w \in Users : Inviting(x, w)' <=> Inviting(x, w)
  BY <1>2 DEF Inviting
<1>10. \A w \in Users : Covered(w) => Covered(w)'
  BY <1>5, <1>8, <1>9 DEF Covered
<1>11. InvitesNamed' /\ OneInvited' /\ FoundingQuiet'
  BY <1>2, <1>9 DEF Names, InvitesNamed, OneInvited, FoundingQuiet
<1>12. InviteFirst'
  <2>1. ASSUME NEW w \in Users, named'[w] = "none", NEW i \in 1..Len(mailbox'[w]),
               mailbox'[w][i].type \in Message
        PROVE  \E j \in 1..Len(mailbox'[w]) : j < i /\ mailbox'[w][j].type = "invite"
    <3>1. named[w] = "none"
      BY <2>1, <1>5
    <3>2. CASE w # v
      <4>1. mailbox'[w] = mailbox[w]
        BY <3>2, <1>3
      <4> QED
        BY <3>1, <4>1, <2>1 DEF Names, InviteFirst
    <3>3. CASE w = v
      <4>1. /\ OldPlace(k, i) \in 1..Len(mailbox[v])
            /\ mailbox[v][OldPlace(k, i)].type \in Message
        BY <3>3, <2>1, <1>3
      <4>2. PICK j \in 1..Len(mailbox[v]) : j < OldPlace(k, i) /\ mailbox[v][j].type = "invite"
        BY <3>1, <3>3, <4>1 DEF Names, InviteFirst
      <4>3. e.type # "invite"
        BY <2>1, <3>3 DEF Handled
      <4>4. j # k
        BY <4>2, <4>3, <1>3
      <4>5. /\ NewPlace(k, j) \in 1..Len(mailbox'[v])
            /\ OldPlace(k, NewPlace(k, j)) = j
            /\ mailbox'[v][NewPlace(k, j)].type = "invite"
        BY <4>2, <4>4, <1>3
      <4>6. NewPlace(k, j) < i
        BY <4>2, <4>5, <3>3, <2>1, <1>3
      <4> QED
        BY <3>3, <4>5, <4>6
    <3> QED
      BY <3>2, <3>3
  <2> QED
    BY <2>1 DEF InviteFirst
<1>13. InviteAhead'
  BY <1>2, <1>5, <1>8 DEF Names, InviteAhead
<1>14. RosterCovered'
  <2>1. ASSUME NEW x \in Users, NEW w \in roster[x]
        PROVE  Covered(w)' \/ Inviting(x, w)'
    <3>1. w \in Users
      BY <1>1 DEF Typed
    <3> QED
      BY <3>1, <1>9, <1>10 DEF Names, RosterCovered
  <2>2. ASSUME NEW w \in roster'[v], w \notin roster[v]
        PROVE  Covered(w)'
    <3>1. CASE e.type = "invite"
      <4>1. w \in e.members /\ w \in Users
        BY <3>1, <2>2, <1>4 DEF Handled
      <4> QED
        BY <3>1, <4>1, <1>2, <1>10 DEF Names, SentCovered
    <3>2. CASE e.type = "added"
      <4>1. w = e.who
        BY <3>2, <2>2, <1>6 DEF Handled
      <4> QED
        BY <3>2, <4>1, <1>2, <1>4, <1>10 DEF Names, SentCovered
    <3>3. CASE e.type \in {"removed", "text", "delete", "picture"}
      BY <3>3, <2>2, <1>6 DEF Handled
    <3> QED
      BY <3>1, <3>2, <3>3, <1>4
  <2>3. ASSUME NEW x \in Users, NEW w \in roster'[x]
        PROVE  Covered(w)' \/ Inviting(x, w)'
    <3>1. CASE w \in roster[x]
      BY <3>1, <2>1
    <3>2. CASE w \notin roster[x]
      <4>1. x = v
        BY <3>2, <2>3, <1>5
      <4> QED
        BY <3>2, <4>1, <2>2, <2>3
    <3> QED
      BY <3>1, <3>2
  <2> QED
    BY <2>3 DEF RosterCovered
<1>15. SentCovered'
  <2>1. ASSUME NEW w \in Users, NEW f \in Envelopes, InBox(w, f)'
        PROVE  /\ f.type = "invite" => \A x \in f.members : Covered(x)'
               /\ f.type = "added" => Covered(f.who)'
    <3>1. /\ f.type = "invite" => \A x \in f.members : x \in Users /\ Covered(x)
          /\ f.type = "added" => f.who \in Users /\ Covered(f.who)
      BY <2>1, <1>2, EnvelopeFields DEF Names, SentCovered
    <3> QED
      BY <3>1, <1>10
  <2> QED
    BY <2>1 DEF SentCovered
<1>16. OwedCovered'
  <2>1. ASSUME NEW x \in Users, NEW w \in Users, NEW f \in Envelopes, Owes(x, f, w)'
        PROVE  /\ f.type = "invite" => \A y \in f.members : Covered(y)' \/ Inviting(x, y)'
               /\ f.type = "added" => Covered(f.who)' \/ Inviting(x, f.who)'
    <3>1. /\ f.type = "invite" => \A y \in f.members : y \in Users /\ (Covered(y) \/ Inviting(x, y))
          /\ f.type = "added" => f.who \in Users /\ (Covered(f.who) \/ Inviting(x, f.who))
      BY <2>1, <1>2, EnvelopeFields DEF Names, OwedCovered
    <3> QED
      BY <3>1, <1>9, <1>10
  <2> QED
    BY <2>1 DEF OwedCovered
<1> QED
  BY <1>7, <1>11, <1>12, <1>13, <1>14, <1>15, <1>16 DEF Names

(* Who makes the group for an envelope has an invitation in front of it, if *)
(* it had no group yet.                                                      *)
LEMMA NamesDegrade ==
    ASSUME Base, HandsOK, Names, NEW v \in Users, NEW k, Degrade(v, k), Unhurried'
    PROVE  Names'
<1> DEFINE e == mailbox[v][k]
<1>1. /\ k \in 1..Len(mailbox[v]) /\ e \in Envelopes /\ NeedsGroup(e)
      /\ Sound(v, e) /\ Degraded(v, e) /\ UNCHANGED <<job, mailbox, author, ops>>
  BY DegradeBase
<1> HIDE DEF e
<1>2. e.type \in Message /\ e.from \in Users /\ named[e.from] # "none"
  BY <1>1, EnvelopeFields DEF NeedsGroup, Message, Sound
<1>3. named[v] # "none"
  <2> SUFFICES ASSUME named[v] = "none"
               PROVE  FALSE
    OBVIOUS
  <2>1. PICK j \in 1..Len(mailbox[v]) : j < k /\ mailbox[v][j].type = "invite"
    BY <1>1, <1>2 DEF Names, InviteFirst, e
  <2>2. j \in 1..k - 1
    BY <2>1, <1>1
  <2>3. <<v, mailbox[v][j]>> \in overtaken'
    BY <2>1, <2>2, OvertookFacts DEF Degrade
  <2> QED
    BY <2>1, <2>3 DEF Unhurried
<1>4. /\ \A w \in Users : named'[w] = named[w]
      /\ \A w \in Users \ {v} : roster'[w] = roster[w]
      /\ roster'[v] = roster[v] \cup {e.from, v}
  BY <1>1, <1>3 DEF Degraded
<1>5. /\ \A w \in Users, f \in Envelopes : Due(w, f)' <=> Due(w, f)
      /\ \A w \in Users, f \in Envelopes : InBox(w, f)' <=> InBox(w, f)
      /\ \A x, w \in Users, f \in Envelopes : Owes(x, f, w)' <=> Owes(x, f, w)
  BY <1>1, SameDue
<1>6. /\ \A x, w \in Users : Inviting(x, w)' <=> Inviting(x, w)
      /\ \A w \in Users : IsInvited(w)' <=> IsInvited(w)
  BY <1>1, <1>5 DEF Inviting, IsInvited
<1>7. \A w \in Users : Covered(w)' <=> Covered(w)
  BY <1>1, <1>4, <1>6 DEF Covered
<1>8. /\ \A x \in Users : named'[x] # "unknown"
      /\ InvitesNamed' /\ InviteFirst' /\ InviteAhead'
  BY <1>1, <1>4, <1>5, <1>6 DEF Names, InvitesNamed, InviteFirst, InviteAhead
<1>9. RosterCovered'
  <2>1. ASSUME NEW x \in Users, NEW w \in roster'[x]
        PROVE  Covered(w)' \/ Inviting(x, w)'
    <3>1. CASE w \in roster[x]
      <4>1. w \in Users
        BY <3>1 DEF Base, Typed
      <4> QED
        BY <3>1, <4>1, <1>6, <1>7 DEF Names, RosterCovered
    <3>2. CASE w \notin roster[x]
      <4>1. w \in {e.from, v}
        BY <3>2, <2>1, <1>4
      <4> QED
        BY <4>1, <1>2, <1>3, <1>4 DEF Covered
    <3> QED
      BY <3>1, <3>2
  <2> QED
    BY <2>1 DEF RosterCovered
<1>10. SentCovered'
  <2>1. ASSUME NEW w \in Users, NEW f \in Envelopes, InBox(w, f)'
        PROVE  /\ f.type = "invite" => \A x \in f.members : Covered(x)'
               /\ f.type = "added" => Covered(f.who)'
    <3>1. /\ f.type = "invite" => \A x \in f.members : x \in Users /\ Covered(x)
          /\ f.type = "added" => f.who \in Users /\ Covered(f.who)
      BY <2>1, <1>5, EnvelopeFields DEF Names, SentCovered
    <3> QED
      BY <3>1, <1>7
  <2> QED
    BY <2>1 DEF SentCovered
<1>11. OwedCovered'
  <2>1. ASSUME NEW x \in Users, NEW w \in Users, NEW f \in Envelopes, Owes(x, f, w)'
        PROVE  /\ f.type = "invite" => \A y \in f.members : Covered(y)' \/ Inviting(x, y)'
               /\ f.type = "added" => Covered(f.who)' \/ Inviting(x, f.who)'
    <3>1. /\ f.type = "invite" => \A y \in f.members : y \in Users /\ (Covered(y) \/ Inviting(x, y))
          /\ f.type = "added" => f.who \in Users /\ (Covered(f.who) \/ Inviting(x, f.who))
      BY <2>1, <1>5, EnvelopeFields DEF Names, OwedCovered
    <3> QED
      BY <3>1, <1>6, <1>7
  <2> QED
    BY <2>1 DEF OwedCovered
<1>12. OneInvited' /\ FoundingQuiet'
  BY <1>1, <1>6 DEF Names, OneInvited, FoundingQuiet
<1> QED
  BY <1>8, <1>9, <1>10, <1>11, <1>12 DEF Names

(* Steps of which Names does not speak.                                      *)
LEMMA NamesStay ==
    ASSUME Names, UNCHANGED <<named, roster, job, mailbox, author, ops>>
    PROVE  Names'
<1>1. /\ \A x, w, f : Owes(x, f, w)' <=> Owes(x, f, w)
      /\ \A w, f : InBox(w, f)' <=> InBox(w, f)
  BY DEF Owes, InBox
<1>2. \A w, f : Due(w, f)' <=> Due(w, f)
  BY <1>1 DEF Due
<1>3. /\ \A x, w : Inviting(x, w)' <=> Inviting(x, w)
      /\ \A w : IsInvited(w)' <=> IsInvited(w)
  BY <1>1 DEF Inviting, IsInvited
<1>4. \A w : Covered(w)' <=> Covered(w)
  BY <1>3 DEF Covered
<1>5. /\ \A x \in Users : named'[x] # "unknown"
      /\ InvitesNamed' /\ InviteFirst' /\ InviteAhead'
  BY <1>1, <1>2, <1>3 DEF Names, InvitesNamed, InviteFirst, InviteAhead
<1>6. RosterCovered' /\ SentCovered' /\ OwedCovered'
  BY <1>1, <1>3, <1>4 DEF Names, RosterCovered, SentCovered, OwedCovered
<1>7. OneInvited' /\ FoundingQuiet'
  BY <1>3 DEF Names, OneInvited, FoundingQuiet
<1> QED
  BY <1>5, <1>6, <1>7 DEF Names

(* Every step keeps NamesOK.                                                *)
LEMMA NextNames ==
    ASSUME Base, HandsOK, NamesOK, [Next]_vars
    PROVE  NamesOK'
<1> SUFFICES ASSUME calm', ~early', Unhurried'
             PROVE  Names'
  BY DEF NamesOK
<1>0. Unhurried
  BY OvertakenStays DEF Unhurried
<1>1. Typed /\ JobsOK
  BY DEF Base
<1>2. ASSUME NEW u \in Users, NEW others \in SUBSET Users, CreateGroup(u, others)
      PROVE  Names'
  <2>1. Names
    BY <1>0, <1>2 DEF CreateGroup, NamesOK
  <2> QED
    BY <1>2, <2>1, NamesCreate
<1>3. ASSUME NEW u \in Users, NEW w \in Users, AddMember(u, w)
      PROVE  Names'
  <2>1. Names
    BY <1>0, <1>3 DEF AddMember, NamesOK
  <2> QED
    BY <1>3, <2>1, NamesAdd
<1>4. ASSUME NEW u \in Users, NEW w \in Users, RemoveMember(u, w)
      PROVE  Names'
  <2>1. Names
    BY <1>0, <1>4 DEF RemoveMember, NamesOK
  <2> QED
    BY <1>4, <2>1, NamesRemove
<1>5. ASSUME NEW u \in Users, SendText(u)
      PROVE  Names'
  <2>1. PICK e : e = Text(u, Len(author) + 1)
    OBVIOUS
  <2>2. PICK D : D = {e} \X (roster[u] \ {u})
    OBVIOUS
  <2>3. Begins(u, D) /\ e.type = "text"
    BY <1>5, <2>1, <2>2, SendTextBase DEF Text
  <2>4. Names /\ ~Founding /\ UNCHANGED <<named, roster, ops>>
    BY <1>0, <1>5 DEF SendText, NamesOK
  <2>5. ASSUME ops = 0, NEW x \in Users, NEW v \in Users, Inviting(x, v)
        PROVE  FALSE
    <3>1. PICK f \in Envelopes, k \in 1..Len(job[x]) :
             job[x][k].envelope = f /\ f.type = "invite"
      BY <2>5 DEF Inviting, Owes
    <3>2. Len(job[x]) \in Nat
      BY <1>1 DEF Typed
    <3>3. job[x][1].envelope.type = "invite"
      <4>1. CASE Len(job[x]) <= 1
        <5>1. k = 1
          BY <4>1, <3>1, <3>2
        <5> QED
          BY <5>1, <3>1
      <4>2. CASE ~(Len(job[x]) <= 1)
        BY <4>2, <1>1 DEF JobsOK
      <4> QED
        BY <4>1, <4>2
    <3>4. job[x] # <<>>
      BY <3>1
    <3> QED
      BY <3>3, <3>4, <2>4, <2>5 DEF Founding
  <2>6. \A v \in roster[u] : v \in Users /\ (named[v] # "none" \/ IsInvited(v))
    <3>1. ASSUME NEW v \in roster[u]
          PROVE  v \in Users /\ (named[v] # "none" \/ IsInvited(v))
      <4>1. v \in Users
        BY <1>1 DEF Typed
      <4>2. ~Inviting(u, v)
        BY <2>3, <4>1 DEF Begins, Inviting
      <4>3. Covered(v)
        BY <4>2, <2>4 DEF Names, RosterCovered
      <4> QED
        BY <4>1, <4>3, <2>5 DEF Covered
    <3> QED
      BY <3>1
  <2>7. \A f \in Envelopes, v \in Users : <<f, v>> \in D =>
          /\ f.type \in {"text", "delete", "picture"}
          /\ f.type # "picture" => named[v] # "none" \/ IsInvited(v)
    BY <2>2, <2>3, <2>6
  <2>8. ~(ops = 0 /\ \E x, v \in Users : Inviting(x, v))
    BY <2>5
  <2> QED
    BY <2>3, <2>4, <2>7, <2>8, NamesBegin
<1>6. ASSUME NEW u \in Users, NEW i \in 1..MaxTexts, DeleteText(u, i)
      PROVE  Names'
  <2>1. PICK e : e = Delete(u, i)
    OBVIOUS
  <2>2. PICK D : D = {e} \X (roster[u] \ {u})
    OBVIOUS
  <2>3. Begins(u, D) /\ e.type = "delete"
    BY <1>6, <2>1, <2>2, DeleteTextBase DEF Delete
  <2>4. /\ Names /\ i \in DOMAIN author
        /\ UNCHANGED <<named, roster, ops, author>>
    BY <1>0, <1>6 DEF DeleteText, NamesOK
  <2>5. author # <<>>
    BY <2>4
  <2>6. ASSUME ops = 0, NEW x \in Users, NEW v \in Users, Inviting(x, v)
        PROVE  FALSE
    BY <2>4, <2>5, <2>6 DEF Names, FoundingQuiet
  <2>7. \A v \in roster[u] : v \in Users /\ (named[v] # "none" \/ IsInvited(v))
    <3>1. ASSUME NEW v \in roster[u]
          PROVE  v \in Users /\ (named[v] # "none" \/ IsInvited(v))
      <4>1. v \in Users
        BY <1>1 DEF Typed
      <4>2. ~Inviting(u, v)
        BY <2>3, <4>1 DEF Begins, Inviting
      <4>3. Covered(v)
        BY <4>2, <2>4 DEF Names, RosterCovered
      <4> QED
        BY <4>1, <4>3, <2>6 DEF Covered
    <3> QED
      BY <3>1
  <2>8. \A f \in Envelopes, v \in Users : <<f, v>> \in D =>
          /\ f.type \in {"text", "delete", "picture"}
          /\ f.type # "picture" => named[v] # "none" \/ IsInvited(v)
    BY <2>2, <2>3, <2>7
  <2> QED
    BY <2>3, <2>4, <2>8, NamesBegin
<1>7. ASSUME NEW u \in Users, SetProfilePicture(u)
      PROVE  Names'
  <2>1. PICK D : D = {Picture(u, pictures'.has[u][u])} \X pictures'.told[u]
    OBVIOUS
  <2>2. Begins(u, D)
    BY <1>7, <2>1, SetProfilePictureBase
  <2>3. /\ UNCHANGED <<named, roster, ops, author>>
        /\ Names
    BY <1>0, <1>7 DEF SetProfilePicture, NamesOK
  <2>4. \A f \in Envelopes, v \in Users : <<f, v>> \in D => f.type = "picture"
    BY <2>1 DEF Picture
  <2> QED
    BY <2>2, <2>3, <2>4, NamesBegin
<1>8. ASSUME NEW u \in Users, Send(u)
      PROVE  Names'
  <2>1. /\ \E v \in Users, e \in Envelopes : Sends(u, v, e)
        /\ UNCHANGED <<named, roster, author, ops, calm, early>>
    BY <1>8, SendBase
  <2>2. Names
    BY <1>0, <2>1 DEF NamesOK
  <2> QED
    BY <2>1, <2>2, NamesSend
<1>9. ASSUME NEW u \in Users, BreakOff(u)
      PROVE  Names'
  BY <1>9 DEF BreakOff
<1>10. ASSUME NEW v \in Users, NEW k, Receive(v, k)
       PROVE  Names'
  <2>1. /\ \E e \in Envelopes : Taken(v, k, e) /\ Handled(v, e) /\ Sound(v, e)
        /\ UNCHANGED <<job, author, ops, calm, early>>
    BY <1>10, ReceiveBase
  <2>2. Names
    BY <1>0, <2>1 DEF NamesOK
  <2> QED
    BY <2>1, <2>2, NamesTake
<1>11. ASSUME NEW v \in Users, NEW k, Miss(v, k) \/ Degrade(v, k)
       PROVE  Names'
  <2>1. Names
    BY <1>0, <1>11 DEF Miss, Degrade, NamesOK
  <2>2. CASE Degrade(v, k)
    BY <2>1, <2>2, NamesDegrade
  <2>3. CASE Miss(v, k)
    <3>1. UNCHANGED <<named, roster, job, mailbox, author, ops>>
      BY <2>3 DEF Miss
    <3> QED
      BY <2>1, <3>1, NamesStay
  <2> QED
    BY <1>11, <2>2, <2>3
<1>12. CASE UNCHANGED vars
  <2>1. Names /\ UNCHANGED <<named, roster, job, mailbox, author, ops>>
    BY <1>0, <1>12 DEF vars, NamesOK
  <2> QED
    BY <2>1, NamesStay
<1> QED
  BY <1>2, <1>3, <1>4, <1>5, <1>6, <1>7, <1>8, <1>9, <1>10, <1>11, <1>12 DEF Next

(* A client that is in the group has it under the name its founder gave it,  *)
(* if nobody wrote while the founder was still inviting and nothing was      *)
(* handled before an invitation that was stored first: the relay stores an   *)
(* invitation before anything that those invited and those told of them can  *)
(* send (session_manager.py:151-194, 273-278; sessionManager.ts:329-349).    *)
THEOREM GroupsNameKnownAfterFounding == Spec => []NameKnownAfterFounding
<1>1. Init => NamesOK
  <2> SUFFICES ASSUME Init
               PROVE  Names
    BY DEF NamesOK
  <2>1. /\ \A v \in Users, e \in Envelopes : ~Due(v, e)
        /\ \A u, v \in Users, e \in Envelopes : ~Owes(u, e, v)
        /\ \A u \in Users : named[u] = "none" /\ roster[u] = {} /\ Len(mailbox[u]) = 0
    BY InitBase
  <2>2. /\ \A v \in Users, e \in Envelopes : ~InBox(v, e)
        /\ \A u, v \in Users : ~Inviting(u, v)
        /\ \A v \in Users : \A k : k \notin 1..Len(mailbox[v])
    BY <2>1 DEF Due, Inviting
  <2>3. InvitesNamed /\ InviteFirst /\ InviteAhead /\ RosterCovered
    BY <2>1, <2>2 DEF InvitesNamed, InviteFirst, InviteAhead, RosterCovered
  <2>4. SentCovered /\ OwedCovered /\ OneInvited /\ FoundingQuiet
    BY <2>1, <2>2 DEF SentCovered, OwedCovered, OneInvited, FoundingQuiet
  <2> QED
    BY <2>1, <2>3, <2>4 DEF Names
<1>2. Base /\ HandsOK /\ NamesOK /\ [Next]_vars => NamesOK'
  BY NextNames
<1>3. NamesOK => NameKnownAfterFounding
  BY DEF NamesOK, Names, Unhurried, NameKnownAfterFounding
<1> QED
  BY <1>1, <1>2, <1>3, BaseInvariant, PTL DEF Spec

-----------------------------------------------------------------------------

(* A text that has been written, and its deletion, as envelopes.             *)
LEMMA WrittenFacts ==
    ASSUME Base, NEW i \in 1..Len(author)
    PROVE  /\ author[i] \in Users /\ i \in 1..MaxTexts
           /\ Text(author[i], i) \in Envelopes /\ Delete(author[i], i) \in Envelopes
           /\ Text(author[i], i).type = "text" /\ Text(author[i], i).id = i
           /\ Delete(author[i], i).type = "delete" /\ Delete(author[i], i).id = i
           /\ Text(author[i], i) # Delete(author[i], i)
<1>1. author[i] \in Users
  BY DEF Base, Typed
<1>2. i \in 1..MaxTexts
  <2>1. Len(author) \in Nat /\ Len(author) <= MaxTexts
    BY DEF Base, Typed
  <2> QED
    BY <2>1, GroupsAssumption
<1> QED
  BY <1>1, <1>2, TextMade

(* Operations that send neither texts nor deletions: no member drops out of  *)
(* a roster, and a new one has nothing of the group yet.                     *)
LEMMA DeletesBegin ==
    ASSUME Base, Deletes, NEW u \in Users, NEW D, Begins(u, D),
           \A e \in Envelopes, v \in Users : <<e, v>> \in D => e.type # "text",
           UNCHANGED <<shown, author, retracted>>, members' \in SUBSET Users,
           overtaken \subseteq overtaken',
           \A a \in Users, v \in members' : v \in roster[a] => v \in roster'[a],
           \A v \in members' \ members :
              shown[v] = {} /\ \A e \in Envelopes : ~Due(v, e)
    PROVE  Deletes'
<1>1. /\ \A v \in Users, e \in Envelopes : Due(v, e)' <=> Due(v, e) \/ <<e, v>> \in D
      /\ mailbox' = mailbox
  BY BeginDue DEF Begins
<1>2. Typed /\ retracted \in SUBSET (1..Len(author))
  BY DEF Base, Typed
<1>3. ASSUME NEW i \in 1..Len(author), i \notin retracted,
             NEW v \in members', v # author[i]
      PROVE  Reachable(v, i)'
  <2>0. PICK a \in Users, t \in Envelopes : a = author[i] /\ t = Text(a, i) /\ t.type = "text"
    BY WrittenFacts
  <2>1. Reachable(v, i)
    <3>1. CASE v \in members
      BY <3>1, <1>3 DEF Deletes
    <3>2. CASE v \notin members
      BY <3>2, <1>3 DEF Reachable
    <3> QED
      BY <3>1, <3>2
  <2>2. CASE v \in roster[a]
    BY <2>0, <2>2, <1>3 DEF Reachable
  <2>3. CASE v \notin roster[a]
    <3>1. i \notin shown[v] /\ ~Due(v, t)
      BY <2>0, <2>1, <2>3 DEF Reachable
    <3>2. ~Due(v, t)'
      BY <3>1, <2>0, <1>1, <1>3
    <3> QED
      BY <2>0, <3>1, <3>2 DEF Reachable
  <2> QED
    BY <2>2, <2>3
<1>4. ASSUME NEW i \in retracted, NEW v \in members', v # author[i], ~Lost(v, i)
      PROVE  Undone(v, i)'
  <2>1. CASE v \in members
    <3>1. Undone(v, i)
      BY <2>1, <1>4 DEF Deletes
    <3>2. ASSUME NEW a \in Users, NEW e \in Envelopes, a = author[i], e = Delete(a, i), Owes(a, e, v)
          PROVE  Undone(v, i)'
      <4>1. Owes(a, e, v)'
        <5>1. v \in Users /\ a # u
          BY <3>2, <1>4 DEF Begins
        <5> QED
          BY <5>1, <3>2 DEF Begins
      <4> QED
        BY <4>1, <3>2 DEF Undone
    <3>3. ASSUME NEW k \in 1..Len(mailbox[v]), mailbox[v][k] = Delete(author[i], i),
                 \A j \in 1..Len(mailbox[v]) : j > k => mailbox[v][j] # Text(author[i], i)
          PROVE  Undone(v, i)'
      BY <3>3, <1>1 DEF Undone
    <3>4. ASSUME i \notin shown[v], ~TextIn(v, i)
          PROVE  Undone(v, i)'
      BY <3>4, <1>1 DEF Undone, TextIn
    <3> QED
      BY <3>1, <3>2, <3>3, <3>4 DEF Undone
  <2>2. CASE v \notin members
    <3>1. shown[v] = {} /\ \A e \in Envelopes : ~Due(v, e)
      BY <2>2, <1>4
    <3>2. ~TextIn(v, i)
      <4>1. \A k \in 1..Len(mailbox[v]) : mailbox[v][k] \in Envelopes /\ Due(v, mailbox[v][k])
        BY <1>2, <1>4, InBoxDue
      <4> QED
        BY <4>1, <3>1 DEF TextIn
    <3> QED
      BY <3>1, <3>2, <1>1 DEF Undone, TextIn
  <2> QED
    BY <2>1, <2>2
<1>5. \A i, v : Lost(v, i) => Lost(v, i)'
  BY DEF Lost
<1> QED
  BY <1>3, <1>4, <1>5 DEF Deletes

(* A new text: who is not on the roster will not have it.                   *)
LEMMA DeletesText ==
    ASSUME Base, Deletes, NEW u \in Users, SendText(u), overtaken \subseteq overtaken'
    PROVE  Deletes'
<1>1. PICK n, m, t : n = Len(author) /\ m = n + 1 /\ t = Text(u, m)
  OBVIOUS
<1>2. /\ EnvelopesOK /\ n \in Nat /\ retracted \in SUBSET (1..n) /\ members \in SUBSET Users
      /\ shown \in [Users -> SUBSET (1..n)]
  BY <1>1 DEF Base, Typed
<1>3. PICK D : D = {t} \X (roster[u] \ {u})
  OBVIOUS
<1>4. /\ Begins(u, D)
      /\ Len(author') = m /\ m \in 1..MaxTexts /\ author'[m] = u
      /\ \A j \in 1..n : author'[j] = author[j]
      /\ \A x \in Users \ {u} : shown'[x] = shown[x]
      /\ shown'[u] \subseteq shown[u] \cup {m}
      /\ UNCHANGED <<retracted, members, roster>>
  BY <1>1, <1>3, SendTextBase DEF SendText
<1>5. t \in Envelopes /\ t.type = "text" /\ t.id = m
  BY <1>1, <1>4, TextMade
<1>6. /\ \A v \in Users, e \in Envelopes : Due(v, e)' <=> Due(v, e) \/ <<e, v>> \in D
      /\ mailbox' = mailbox
  BY <1>4, BeginDue DEF Begins
<1>7. \A v \in Users, e \in Envelopes : <<e, v>> \in D => e = t /\ v \in roster[u]
  BY <1>3
<1>8. ASSUME NEW i \in 1..n, i \notin retracted, NEW v \in members, v # author[i]
      PROVE  Reachable(v, i)'
  <2>0. PICK a \in Users, f \in Envelopes : a = author[i] /\ f = Text(a, i) /\ f.id = i
    BY <1>1, WrittenFacts
  <2>1. Reachable(v, i) /\ author'[i] = a
    BY <2>0, <1>1, <1>4, <1>8 DEF Deletes
  <2>2. CASE v \in roster[a]
    BY <2>0, <2>1, <2>2, <1>4 DEF Reachable
  <2>3. CASE v \notin roster[a]
    <3>1. i \notin shown[v] /\ ~Due(v, f) /\ v \in Users
      BY <2>0, <2>1, <2>3, <1>1, <1>2 DEF Reachable
    <3>2. f # t /\ i # m
      BY <2>0, <1>1, <1>2, <1>5
    <3>3. ~Due(v, f)'
      BY <3>1, <3>2, <1>6, <1>7
    <3>4. i \notin shown'[v]
      BY <3>1, <3>2, <1>4
    <3> QED
      BY <2>0, <2>1, <3>3, <3>4 DEF Reachable
  <2> QED
    BY <2>2, <2>3
<1>9. ASSUME NEW v \in members, v # u
      PROVE  Reachable(v, m)'
  <2>1. CASE v \in roster[u]
    BY <2>1, <1>4 DEF Reachable
  <2>2. CASE v \notin roster[u]
    <3>1. ~Due(v, t)
      BY <1>1, <1>2, <1>5 DEF EnvelopesOK, Sound
    <3>2. ~Due(v, t)'
      BY <3>1, <2>2, <1>1, <1>2, <1>5, <1>6, <1>7
    <3>3. m \notin shown'[v]
      BY <1>1, <1>2, <1>4, <1>9
    <3>4. t = Text(author'[m], m)
      BY <1>1, <1>4
    <3> QED
      BY <3>2, <3>3, <3>4 DEF Reachable
  <2> QED
    BY <2>1, <2>2
<1>10. ASSUME NEW i \in retracted, NEW v \in members, v # author[i], ~Lost(v, i)
       PROVE  Undone(v, i)'
  <2>1. /\ Undone(v, i) /\ i \in 1..n /\ author'[i] = author[i] /\ i # m /\ v \in Users
    BY <1>1, <1>2, <1>4, <1>10 DEF Deletes
  <2>2. ASSUME NEW a \in Users, NEW e \in Envelopes, a = author[i], e = Delete(a, i), Owes(a, e, v)
        PROVE  Undone(v, i)'
    <3>1. Owes(a, e, v)'
      <4>1. a # u
        BY <2>1, <2>2, <1>4 DEF Begins
      <4> QED
        BY <4>1, <2>1, <2>2, <1>4 DEF Begins
    <3> QED
      BY <3>1, <2>1, <2>2 DEF Undone
  <2>3. i \notin shown[v] => i \notin shown'[v]
    BY <2>1, <1>4
  <2> QED
    BY <2>1, <2>2, <2>3, <1>6 DEF Undone, TextIn
<1>11. \A i \in 1..Len(author') : i \in 1..n \/ i = m
  BY <1>1, <1>2, <1>4
<1>12. \A i \in 1..n : author'[i] = author[i]
  BY <1>4
<1>13. ASSUME NEW i \in (1..Len(author')) \ retracted', NEW v \in members' \ {author'[i]}
       PROVE  Reachable(v, i)'
  BY <1>4, <1>8, <1>9, <1>11, <1>12, <1>13
<1>14. ASSUME NEW i \in retracted', NEW v \in members' \ {author'[i]}
       PROVE  Lost(v, i)' \/ Undone(v, i)'
  <2>1. i \in retracted /\ v \in members /\ author'[i] = author[i]
    BY <1>1, <1>2, <1>4, <1>14
  <2>2. Lost(v, i) => Lost(v, i)'
    BY <2>1 DEF Lost
  <2> QED
    BY <2>1, <2>2, <1>10, <1>14
<1> QED
  BY <1>13, <1>14 DEF Deletes

(* A deletion: owed to all on the roster, and the others do not have the text.*)
LEMMA DeletesDelete ==
    ASSUME Base, RetractedOK, Deletes, NEW u \in Users, NEW i \in 1..MaxTexts,
           DeleteText(u, i), overtaken \subseteq overtaken'
    PROVE  Deletes'
<1>1. /\ Typed /\ retracted \in SUBSET (1..Len(author)) /\ members \in SUBSET Users
      /\ shown \in [Users -> SUBSET (1..Len(author))]
  BY DEF Base, Typed
<1>2. PICK d : d = Delete(u, i)
  OBVIOUS
<1>3. PICK D : D = {d} \X (roster[u] \ {u})
  OBVIOUS
<1>4. /\ Begins(u, D)
      /\ author[i] = u /\ i \in shown[u]
      /\ \A x \in Users : shown'[x] \subseteq shown[x]
      /\ retracted' = retracted \cup {i}
      /\ UNCHANGED <<members, roster, author>>
  <2>1. Begins(u, D)
    BY <1>2, <1>3, DeleteTextBase
  <2>2. /\ author[i] = u /\ i \in shown[u]
        /\ shown' = [shown EXCEPT ![u] = shown[u] \ {i}]
        /\ retracted' = retracted \cup {i}
        /\ UNCHANGED <<members, roster, author>>
    BY DEF DeleteText
  <2> QED
    BY <2>1, <2>2, <1>1
<1>5. d \in Envelopes /\ d.type = "delete"
  BY <1>2, TextMade
<1>6. /\ \A v \in Users, e \in Envelopes : Due(v, e)' <=> Due(v, e) \/ <<e, v>> \in D
      /\ mailbox' = mailbox
  BY <1>4, BeginDue DEF Begins
<1>7. \A v \in Users, e \in Envelopes : <<e, v>> \in D => e = d
  BY <1>3
<1>8. i \notin retracted /\ i \in 1..Len(author)
  BY <1>1, <1>4 DEF RetractedOK
<1>9. ASSUME NEW j \in 1..Len(author), j \notin retracted, NEW v \in members, v # author[j]
      PROVE  Reachable(v, j)'
  <2>0. PICK a \in Users, f \in Envelopes : a = author[j] /\ f = Text(a, j) /\ f.type = "text"
    BY WrittenFacts
  <2>1. Reachable(v, j) /\ v \in Users
    BY <1>1, <1>9 DEF Deletes
  <2>2. CASE v \in roster[a]
    BY <2>0, <2>2, <1>4 DEF Reachable
  <2>3. CASE v \notin roster[a]
    <3>1. j \notin shown[v] /\ ~Due(v, f)
      BY <2>0, <2>1, <2>3 DEF Reachable
    <3>2. ~Due(v, f)'
      BY <3>1, <2>0, <2>1, <1>5, <1>6, <1>7
    <3> QED
      BY <2>0, <2>1, <3>1, <3>2, <1>4 DEF Reachable
  <2> QED
    BY <2>2, <2>3
<1>10. ASSUME NEW v \in members, v # u
       PROVE  Undone(v, i)'
  <2>1. Reachable(v, i) /\ v \in Users
    BY <1>1, <1>4, <1>8, <1>10 DEF Deletes
  <2>2. CASE v \in roster[u]
    <3>1. Owes(u, d, v)'
      <4>1. <<d, v>> \in D
        BY <2>2, <1>3, <1>10
      <4> QED
        BY <4>1, <2>1, <1>4, <1>5 DEF Begins
    <3> QED
      BY <3>1, <1>2, <1>4, <1>5 DEF Undone
  <2>3. CASE v \notin roster[u]
    <3>1. i \notin shown[v] /\ \A e \in Envelopes : Due(v, e) => e # Text(u, i)
      BY <2>1, <2>3, <1>4 DEF Reachable
    <3>2. ~TextIn(v, i)
      <4>1. \A k \in 1..Len(mailbox[v]) : mailbox[v][k] \in Envelopes /\ Due(v, mailbox[v][k])
        BY <1>1, <2>1, InBoxDue
      <4> QED
        BY <4>1, <3>1, <1>4 DEF TextIn
    <3> QED
      BY <2>1, <3>1, <3>2, <1>4, <1>6 DEF Undone, TextIn
  <2> QED
    BY <2>2, <2>3
<1>11. ASSUME NEW j \in retracted, NEW v \in members, v # author[j], ~Lost(v, j)
       PROVE  Undone(v, j)'
  <2>1. Undone(v, j) /\ v \in Users
    BY <1>1, <1>11 DEF Deletes
  <2>2. ASSUME NEW a \in Users, NEW e \in Envelopes, a = author[j], e = Delete(a, j), Owes(a, e, v)
        PROVE  Undone(v, j)'
    <3>1. Owes(a, e, v)'
      <4>1. a # u
        BY <2>1, <2>2, <1>4 DEF Begins
      <4> QED
        BY <4>1, <2>1, <2>2, <1>4 DEF Begins
    <3> QED
      BY <3>1, <2>2, <1>4 DEF Undone
  <2>3. j \notin shown[v] => j \notin shown'[v]
    BY <2>1, <1>4
  <2> QED
    BY <2>1, <2>2, <2>3, <1>4, <1>6 DEF Undone, TextIn
<1>12. \A j, v : Lost(v, j) => Lost(v, j)'
  BY <1>4 DEF Lost
<1> QED
  BY <1>4, <1>9, <1>10, <1>11, <1>12 DEF Deletes

(* A send: no text follows its deletion into a mailbox.                     *)
LEMMA DeletesSend ==
    ASSUME Base, RetractedOK, Deletes,
           NEW u \in Users, NEW v \in Users, NEW e \in Envelopes, Sends(u, v, e),
           UNCHANGED <<roster, author, retracted, members>>, overtaken \subseteq overtaken'
    PROVE  Deletes'
<1>1. /\ Typed /\ retracted \in SUBSET (1..Len(author)) /\ members \in SUBSET Users
      /\ shown \in [Users -> SUBSET (1..Len(author))]
  BY DEF Base, Typed
<1>2. \A w \in Users, f \in Envelopes : Due(w, f)' <=> Due(w, f)
  BY <1>1, SendDue
<1> DEFINE n == Len(mailbox[v])
<1>3. /\ n \in Nat /\ Len(mailbox'[v]) = n + 1 /\ mailbox'[v][n + 1] = e
      /\ \A k \in 1..n : k \in 1..n + 1 /\ mailbox'[v][k] = mailbox[v][k]
      /\ \A k \in 1..n + 1 : k # n + 1 => k \in 1..n
      /\ \A w \in Users \ {v} : mailbox'[w] = mailbox[w]
  <2>1. /\ n \in Nat /\ Len(mailbox'[v]) = n + 1 /\ mailbox'[v][n + 1] = e
        /\ \A k \in 1..n : mailbox'[v][k] = mailbox[v][k]
        /\ \A w \in Users \ {v} : mailbox'[w] = mailbox[w]
    <3>1. n \in Nat
      BY <1>1 DEF Typed
    <3> QED
      BY <3>1 DEF Sends, Stored
  <2> HIDE DEF n
  <2> QED
    BY <2>1
<1>4. Owes(u, e, v) /\ e.from = u /\ Due(v, e)
  BY OwedDue DEF Sends
<1>5. \A i \in 1..Len(author), w \in Users : w # author[i] /\ i \notin shown[w] => i \notin shown'[w]
  <2>1. e.type = "text" => author[e.id] = u
    BY <1>4 DEF Base, EnvelopesOK, Sound
  <2> QED
    BY <2>1, <1>1 DEF Sends
<1>6. ASSUME NEW i \in (1..Len(author)) \ retracted, NEW w \in members \ {author[i]}
      PROVE  Reachable(w, i)'
  <2>1. Reachable(w, i) /\ w \in Users
    BY <1>1, <1>6 DEF Deletes
  <2> QED
    BY <2>1, <1>2, <1>5, <1>6 DEF Reachable
<1>7. ASSUME NEW i \in retracted, NEW w \in members \ {author[i]}, ~Lost(w, i)
      PROVE  Undone(w, i)'
  <2>1. Undone(w, i) /\ w \in Users /\ i \in 1..Len(author)
    BY <1>1, <1>7 DEF Deletes
  <2>2. PICK a \in Users, t \in Envelopes, d \in Envelopes :
           a = author[i] /\ t = Text(a, i) /\ d = Delete(a, i) /\ t # d
           /\ t.type = "text" /\ t.id = i
    BY <2>1, WrittenFacts
  <2>3. e # t
    BY <2>2, <1>4, <1>7 DEF RetractedOK
  <2>4. ASSUME Owes(a, d, w)
        PROVE  Undone(w, i)'
    <3>1. CASE Owes(a, d, w)'
      BY <3>1, <2>2 DEF Undone
    <3>2. CASE ~Owes(a, d, w)'
      <4>1. a = u /\ d = e /\ w = v
        BY <3>2, <2>1, <2>4 DEF Sends
      <4>2. n + 1 \in 1..Len(mailbox'[v]) /\ \A j \in 1..Len(mailbox'[v]) : ~(j > n + 1)
        BY <1>3
      <4> HIDE DEF n
      <4> QED
        BY <4>1, <4>2, <2>2, <1>3 DEF Undone
    <3> QED
      BY <3>1, <3>2
  <2>5. ASSUME NEW k \in 1..Len(mailbox[w]), mailbox[w][k] = d,
               \A j \in 1..Len(mailbox[w]) : j > k => mailbox[w][j] # t
        PROVE  Undone(w, i)'
    <3>1. CASE w # v
      <4>1. mailbox'[w] = mailbox[w]
        BY <3>1, <2>1, <1>3
      <4> QED
        BY <4>1, <2>2, <2>5 DEF Undone
    <3>2. CASE w = v
      <4>1. k \in 1..Len(mailbox'[v]) /\ mailbox'[v][k] = d
        BY <3>2, <2>5, <1>3
      <4>2. ASSUME NEW j \in 1..Len(mailbox'[v]), j > k
            PROVE  mailbox'[v][j] # t
        <5>1. CASE j = n + 1
          BY <5>1, <2>3, <1>3
        <5>2. CASE j # n + 1
          BY <5>2, <4>2, <3>2, <2>5, <1>3
        <5> QED
          BY <5>1, <5>2
      <4> QED
        BY <3>2, <4>1, <4>2, <2>2 DEF Undone
    <3> QED
      BY <3>1, <3>2
  <2>6. ASSUME i \notin shown[w], \A k \in 1..Len(mailbox[w]) : mailbox[w][k] # t
        PROVE  Undone(w, i)'
    <3>1. i \notin shown'[w]
      BY <2>1, <2>6, <1>5, <1>7
    <3>2. ASSUME NEW j \in 1..Len(mailbox'[w])
          PROVE  mailbox'[w][j] # t
      <4>1. CASE w # v
        BY <4>1, <2>1, <2>6, <1>3
      <4>2. CASE w = v /\ j = n + 1
        BY <4>2, <2>3, <1>3
      <4>3. CASE w = v /\ j # n + 1
        BY <4>3, <2>6, <1>3
      <4> QED
        BY <4>1, <4>2, <4>3
    <3> QED
      BY <3>1, <3>2, <2>2 DEF Undone, TextIn
  <2> QED
    BY <2>1, <2>2, <2>4, <2>5, <2>6 DEF Undone, TextIn
<1>8. \A i, w : Lost(w, i) => Lost(w, i)'
  BY DEF Lost
<1> QED
  BY <1>6, <1>7, <1>8 DEF Deletes

(* An arrival: the deletion is taken after the text, or has overtaken it.    *)
LEMMA DeletesTake ==
    ASSUME Base, Sync, Deletes,
           NEW v \in Users, NEW k, NEW e \in Envelopes, Taken(v, k, e), Overtakes(v, k),
           Handled(v, e), Sound(v, e), UNCHANGED <<job, author, retracted, members>>
    PROVE  Deletes'
<1>1. /\ Typed /\ retracted \in SUBSET (1..Len(author)) /\ members \in SUBSET Users
      /\ \A x \in Users : named[x] = "none" => roster[x] = {}
  BY DEF Base, Typed, CopiesOK
<1>2. /\ Due(v, e)
      /\ \A x, w \in Users, f \in Envelopes : Owes(x, f, w)' <=> Owes(x, f, w)
      /\ \A w \in Users, f \in Envelopes : Due(w, f)' => Due(w, f)
  BY <1>1, TakeDue
<1>3. /\ k \in 1..Len(mailbox[v]) /\ mailbox[v][k] = e
      /\ \A i \in 1..Len(mailbox'[v]) :
            /\ OldPlace(k, i) \in 1..Len(mailbox[v]) /\ OldPlace(k, i) # k
            /\ NewPlace(k, OldPlace(k, i)) = i
            /\ mailbox'[v][i] = mailbox[v][OldPlace(k, i)]
      /\ \A j \in 1..Len(mailbox[v]) : j # k =>
            /\ NewPlace(k, j) \in 1..Len(mailbox'[v])
            /\ OldPlace(k, NewPlace(k, j)) = j
            /\ mailbox'[v][NewPlace(k, j)] = mailbox[v][j]
      /\ \A i, j \in 1..Len(mailbox'[v]) : i < j <=> OldPlace(k, i) < OldPlace(k, j)
      /\ \A w \in Users \ {v} : mailbox'[w] = mailbox[w]
  <2>1. \A w \in Users \ {v} : mailbox'[w] = mailbox[w]
    BY DEF Taken
  <2> QED
    BY <2>1, <1>1, TakenPlaces
<1>4. /\ e.type \in {"invite", "added", "removed", "text", "delete", "picture"}
      /\ e.type = "text" => e = Text(e.from, e.id)
  BY EnvelopeFields
<1>5. \A w \in Users \ {v} : roster'[w] = roster[w] /\ shown'[w] = shown[w]
  BY DEF Handled
<1>6. \A a \in Users, w \in members : w \in roster[a] => w \in roster'[a]
  <2>1. ASSUME NEW w \in members, w \in roster[v]
        PROVE  w \in roster'[v]
    <3>1. named[v] # "none"
      BY <2>1, <1>1
    <3>2. CASE e.type = "removed"
      <4>1. e.who \notin members
        BY <3>2, <1>2 DEF Sync, RightOK, Right, Control
      <4> QED
        BY <2>1, <3>1, <3>2, <4>1 DEF Handled
    <3>3. CASE e.type # "removed"
      BY <2>1, <3>1, <3>3, <1>4 DEF Handled
    <3> QED
      BY <3>2, <3>3
  <2> QED
    BY <2>1, <1>5
<1>7. ASSUME NEW i \in 1..Len(author), i \notin shown[v], e # Text(author[i], i)
      PROVE  i \notin shown'[v]
  <2>1. e.type = "text" => e.id # i
    BY <1>4, <1>7 DEF Sound
  <2>2. shown'[v] \subseteq shown[v] \/ (e.type = "text" /\ shown'[v] = shown[v] \cup {e.id})
    BY <1>4 DEF Handled
  <2> QED
    BY <2>1, <2>2, <1>7
<1>8. ASSUME NEW i \in (1..Len(author)) \ retracted, NEW w \in members \ {author[i]}
      PROVE  Reachable(w, i)'
  <2>1. Reachable(w, i) /\ w \in Users
    BY <1>1, <1>8 DEF Deletes
  <2>2. PICK a \in Users, t \in Envelopes : a = author[i] /\ t = Text(a, i)
    BY WrittenFacts
  <2>3. CASE w \in roster[a]
    BY <2>2, <2>3, <1>6 DEF Reachable
  <2>4. CASE w \notin roster[a]
    <3>1. i \notin shown[w] /\ ~Due(w, t)
      BY <2>1, <2>2, <2>4 DEF Reachable
    <3>2. i \notin shown'[w]
      <4>1. CASE w = v
        <5>1. e # t
          BY <3>1, <4>1, <1>2
        <5> QED
          BY <5>1, <3>1, <4>1, <2>2, <1>7
      <4>2. CASE w # v
        BY <3>1, <4>2, <2>1, <1>5
      <4> QED
        BY <4>1, <4>2
    <3>3. ~Due(w, t)'
      BY <3>1, <2>1, <1>2
    <3> QED
      BY <3>2, <3>3, <2>2 DEF Reachable
  <2> QED
    BY <2>3, <2>4
<1>9. ASSUME NEW i \in retracted, NEW w \in members \ {author[i]}, ~Lost(w, i)'
      PROVE  Undone(w, i)'
  <2>0. ~Lost(w, i)
    BY <1>9, OvertookFacts DEF Lost
  <2>1. Undone(w, i) /\ w \in Users /\ i \in 1..Len(author)
    BY <2>0, <1>1, <1>9 DEF Deletes
  <2>2. PICK a \in Users, t \in Envelopes, d \in Envelopes :
           a = author[i] /\ t = Text(a, i) /\ d = Delete(a, i)
           /\ t.type = "text" /\ d.type = "delete" /\ d.id = i
    BY <2>1, WrittenFacts
  <2>3. ASSUME Owes(a, d, w)
        PROVE  Undone(w, i)'
    <3>1. Owes(a, d, w)'
      BY <2>1, <2>3, <1>2
    <3> QED
      BY <3>1, <2>2 DEF Undone
  <2>4. CASE w # v
    <3>1. mailbox'[w] = mailbox[w] /\ shown'[w] = shown[w]
      BY <2>1, <2>4, <1>3, <1>5
    <3> QED
      BY <3>1, <2>1, <2>2, <2>3 DEF Undone, TextIn
  <2>5. ASSUME w = v, NEW p \in 1..Len(mailbox[v]), mailbox[v][p] = d,
               \A j \in 1..Len(mailbox[v]) : j > p => mailbox[v][j] # t
        PROVE  Undone(w, i)'
    <3>1. CASE p = k
      <4>1. i \notin shown'[v]
        BY <3>1, <2>2, <2>5, <1>1, <1>3 DEF Handled
      <4>2. ASSUME NEW j \in 1..k - 1
            PROVE  mailbox[v][j] # t
        <5>1. <<v, t>> \notin overtaken'
          BY <2>2, <2>5, <1>9 DEF Lost
        <5> QED
          BY <5>1, <2>2, OvertookFacts
      <4>3. ASSUME NEW q \in 1..Len(mailbox[v]), q # k
            PROVE  mailbox[v][q] # t
        <5>1. Len(mailbox[v]) \in Nat
          BY <1>1 DEF Typed
        <5>2. q \in 1..k - 1 \/ q > p
          BY <5>1, <4>3, <3>1, <1>3
        <5> QED
          BY <5>2, <4>2, <2>5
      <4>4. \A j \in 1..Len(mailbox'[v]) : mailbox'[v][j] # t
        BY <4>3, <1>3
      <4> QED
        BY <4>1, <4>4, <2>2, <2>5 DEF Undone, TextIn
    <3>2. CASE p # k
      <4>1. PICK q \in 1..Len(mailbox'[v]) : OldPlace(k, q) = p /\ mailbox'[v][q] = d
        BY <3>2, <2>5, <1>3
      <4>2. ASSUME NEW j \in 1..Len(mailbox'[v]), j > q
            PROVE  mailbox'[v][j] # t
        <5>1. q < j
          BY <4>2
        <5>2. OldPlace(k, j) \in 1..Len(mailbox[v]) /\ OldPlace(k, q) < OldPlace(k, j)
          BY <5>1, <4>1, <1>3
        <5>3. OldPlace(k, j) > p
          BY <5>2, <4>1
        <5> QED
          BY <5>2, <5>3, <2>5, <1>3
      <4> QED
        BY <4>1, <4>2, <2>2, <2>5 DEF Undone
    <3> QED
      BY <3>1, <3>2
  <2>6. ASSUME w = v, i \notin shown[v], \A j \in 1..Len(mailbox[v]) : mailbox[v][j] # t
        PROVE  Undone(w, i)'
    <3>1. e # t
      BY <2>6, <1>3
    <3>2. i \notin shown'[v]
      BY <3>1, <2>1, <2>2, <2>6, <1>7
    <3>3. \A j \in 1..Len(mailbox'[v]) : mailbox'[v][j] # t
      BY <2>6, <1>3
    <3> QED
      BY <3>2, <3>3, <2>2, <2>6 DEF Undone, TextIn
  <2> QED
    BY <2>1, <2>2, <2>3, <2>4, <2>5, <2>6 DEF Undone, TextIn
<1> QED
  BY <1>8, <1>9 DEF Deletes

(* Making the group for an envelope leaves everybody on the rosters.        *)
LEMMA DeletesDegrade ==
    ASSUME Base, HandsOK, Deletes, NEW v \in Users, NEW k, Degrade(v, k)
    PROVE  Deletes'
<1>1. /\ Degraded(v, mailbox[v][k])
      /\ UNCHANGED <<job, mailbox, shown, author, retracted, members>>
  BY DegradeBase
<1>2. /\ \A w \in Users, f \in Envelopes : Due(w, f)' <=> Due(w, f)
      /\ \A x, w \in Users, f \in Envelopes : Owes(x, f, w)' <=> Owes(x, f, w)
  BY <1>1, SameDue
<1>3. author \in Seq(Users) /\ members \in SUBSET Users /\ retracted \in SUBSET (1..Len(author))
  BY DEF Base, Typed
<1>4. \A a \in Users : roster[a] \subseteq roster'[a]
  BY <1>1 DEF Degraded
<1>5. ASSUME NEW i \in 1..Len(author), NEW w \in Users, Reachable(w, i)
      PROVE  Reachable(w, i)'
  <2>1. author[i] \in Users /\ author'[i] = author[i] /\ shown' = shown
    BY <1>1, <1>3
  <2> QED
    BY <2>1, <1>2, <1>4, <1>5 DEF Reachable
<1>6. ASSUME NEW i, NEW w \in Users, Undone(w, i)
      PROVE  Undone(w, i)'
  BY <1>1, <1>2, <1>6 DEF Undone, TextIn
<1>7. \A i, w : Lost(w, i) => Lost(w, i)'
  BY <1>1, OvertookFacts DEF Lost, Degrade
<1> QED
  BY <1>1, <1>3, <1>5, <1>6, <1>7 DEF Deletes

(* Nothing of it changes.                                                    *)
LEMMA DeletesStay ==
    ASSUME Base, Deletes,
           UNCHANGED <<job, author, retracted, members, roster, shown, mailbox, overtaken>>
    PROVE  Deletes'
<1>1. members \in SUBSET Users
  BY DEF Base, Typed
<1>2. /\ \A w \in Users, f \in Envelopes : Due(w, f)' <=> Due(w, f)
      /\ \A x, w \in Users, f \in Envelopes : Owes(x, f, w)' <=> Owes(x, f, w)
  BY SameDue
<1>3. \A w \in members : \A i : Reachable(w, i)' <=> Reachable(w, i)
  BY <1>1, <1>2 DEF Reachable
<1>4. \A w \in members : \A i : Undone(w, i)' <=> Undone(w, i)
  BY <1>1, <1>2 DEF Undone, TextIn
<1>5. \A i, w : Lost(w, i)' <=> Lost(w, i)
  BY DEF Lost
<1> QED
  BY <1>3, <1>4, <1>5 DEF Deletes

(* Every step keeps DeletesOK.                                              *)
LEMMA NextDeletes ==
    ASSUME Base, HandsOK, SyncOK, RetractedOK, DeletesOK, [Next]_vars
    PROVE  DeletesOK'
<1> SUFFICES ASSUME Orderly'
             PROVE  Deletes'
  BY DEF DeletesOK, Deletes
<1>0. overtaken \subseteq overtaken'
  BY OvertakenStays
<1>1. /\ Typed /\ members \in SUBSET Users /\ retracted \in SUBSET (1..Len(author))
      /\ roster \in [Users -> SUBSET Users]
      /\ Orderly => Sync /\ Deletes
  BY DEF Base, Typed, SyncOK, DeletesOK, Deletes
<1>2. ASSUME NEW u \in Users, NEW others \in SUBSET Users, CreateGroup(u, others)
      PROVE  Deletes'
  <2>1. Len(author) = 0
    BY <1>2 DEF CreateGroup, Base, UnfoundedOK
  <2>2. author' = author /\ retracted' = retracted
    BY <1>2 DEF CreateGroup
  <2>3. 1..Len(author) = {}
    BY <2>1
  <2>4. \A i : i \notin 1..Len(author') /\ i \notin retracted'
    BY <2>2, <2>3, <1>1
  <2> QED
    BY <2>4 DEF Deletes
<1>3. ASSUME NEW u \in Users, NEW w \in Users, AddMember(u, w)
      PROVE  Deletes'
  <2>1. PICK D : D = ({Invite(u, named[u], roster[u] \cup {w})} \X ({w} \ {u}))
                      \cup ({Added(u, w)} \X (roster[u] \ {u}))
    OBVIOUS
  <2>2. Begins(u, D)
    BY <1>3, <2>1, AddMemberBase
  <2>3. \A e \in Envelopes, v \in Users : <<e, v>> \in D => e.type # "text"
    BY <2>1 DEF Invite, Added
  <2>4. /\ UNCHANGED <<shown, author, retracted>> /\ members' = members \cup {w}
        /\ roster' = [roster EXCEPT ![u] = roster[u] \cup {w}]
        /\ AtRest /\ Orderly /\ (w \in left => FALSE)
    BY <1>3 DEF AddMember, Orderly
  <2>5. \A v \in Users, e \in Envelopes : ~Due(v, e)
    BY <2>4, <1>1, RestFacts
  <2>6. \A v \in members' \ members : shown[v] = {}
    BY <2>4, <1>1 DEF Sync, StrangersOK, Base, CopiesOK
  <2>7. \A a \in Users, v \in members' : v \in roster[a] => v \in roster'[a]
    BY <2>4, <1>1
  <2>8. members' \in SUBSET Users
    BY <2>4, <1>1
  <2>9. \A v \in members' \ members : shown[v] = {} /\ \A e \in Envelopes : ~Due(v, e)
    BY <2>5, <2>6, <2>8
  <2> QED
    BY <2>2, <2>3, <2>4, <2>7, <2>8, <2>9, <1>0, <1>1, DeletesBegin
<1>4. ASSUME NEW u \in Users, NEW w \in Users, RemoveMember(u, w)
      PROVE  Deletes'
  <2>1. PICK D : D = {Removed(u, w)} \X (roster[u] \ {u})
    OBVIOUS
  <2>2. Begins(u, D)
    BY <1>4, <2>1, RemoveMemberBase
  <2>3. \A e \in Envelopes, v \in Users : <<e, v>> \in D => e.type # "text"
    BY <2>1 DEF Removed
  <2>4. /\ UNCHANGED <<shown, author, retracted>> /\ members' = members \ {w}
        /\ roster' = [roster EXCEPT ![u] = roster[u] \ {w}]
        /\ Orderly
    BY <1>4 DEF RemoveMember, Orderly
  <2>5. \A a \in Users, v \in members' : v \in roster[a] => v \in roster'[a]
    BY <2>4, <1>1
  <2>6. members' \in SUBSET Users /\ members' \ members = {}
    BY <2>4, <1>1
  <2> QED
    BY <2>2, <2>3, <2>4, <2>5, <2>6, <1>0, <1>1, DeletesBegin
<1>5. ASSUME NEW u \in Users, SendText(u)
      PROVE  Deletes'
  <2>1. Orderly
    BY <1>5 DEF SendText, Orderly
  <2> QED
    BY <2>1, <1>0, <1>1, <1>5, DeletesText
<1>6. ASSUME NEW u \in Users, NEW i \in 1..MaxTexts, DeleteText(u, i)
      PROVE  Deletes'
  <2>1. Orderly
    BY <1>6 DEF DeleteText, Orderly
  <2> QED
    BY <2>1, <1>0, <1>1, <1>6, DeletesDelete
<1>7. ASSUME NEW u \in Users, SetProfilePicture(u)
      PROVE  Deletes'
  <2>1. PICK D : D = {Picture(u, pictures'.has[u][u])} \X pictures'.told[u]
    OBVIOUS
  <2>2. Begins(u, D)
    BY <1>7, <2>1, SetProfilePictureBase
  <2>3. \A e \in Envelopes, v \in Users : <<e, v>> \in D => e.type # "text"
    BY <2>1 DEF Picture
  <2>4. UNCHANGED <<shown, author, retracted, members, roster>> /\ Orderly
    BY <1>7 DEF SetProfilePicture, Orderly
  <2>5. members' \in SUBSET Users /\ members' \ members = {}
    BY <2>4, <1>1
  <2> QED
    BY <2>2, <2>3, <2>4, <2>5, <1>0, <1>1, DeletesBegin
<1>8. ASSUME NEW u \in Users, Send(u)
      PROVE  Deletes'
  <2>1. /\ \E v \in Users, e \in Envelopes : Sends(u, v, e)
        /\ UNCHANGED <<roster, author, retracted, members, calm, rejoined>>
    BY <1>8, SendBase
  <2>2. Orderly
    BY <2>1 DEF Orderly
  <2> QED
    BY <2>1, <2>2, <1>0, <1>1, DeletesSend
<1>9. ASSUME NEW u \in Users, BreakOff(u)
      PROVE  Deletes'
  BY <1>9 DEF BreakOff, Orderly
<1>10. ASSUME NEW v \in Users, NEW k, Receive(v, k)
       PROVE  Deletes'
  <2>1. /\ \E e \in Envelopes : Taken(v, k, e) /\ Handled(v, e) /\ Sound(v, e)
        /\ UNCHANGED <<job, author, retracted, members, calm, rejoined>>
    BY <1>10, ReceiveBase
  <2>2. Orderly
    BY <2>1 DEF Orderly
  <2>3. Overtakes(v, k)
    BY <1>10 DEF Receive
  <2> QED
    BY <2>1, <2>2, <2>3, <1>1, DeletesTake
<1>11. ASSUME NEW v \in Users, NEW k, Miss(v, k) \/ Degrade(v, k)
       PROVE  Deletes'
  <2>1. Deletes
    BY <1>1, <1>11 DEF Miss, Degrade, Orderly
  <2>2. CASE Degrade(v, k)
    BY <2>1, <2>2, DeletesDegrade
  <2>3. CASE Miss(v, k)
    <3>1. UNCHANGED <<job, author, retracted, members, roster, shown, mailbox, overtaken>>
      BY <2>3 DEF Miss
    <3> QED
      BY <2>1, <3>1, DeletesStay
  <2> QED
    BY <1>11, <2>2, <2>3
<1>12. CASE UNCHANGED vars
  <2>1. UNCHANGED <<job, author, retracted, members, roster, shown, mailbox, overtaken>>
    BY <1>12 DEF vars
  <2>2. Deletes
    BY <1>1, <1>12 DEF vars, Orderly
  <2> QED
    BY <2>1, <2>2, DeletesStay
<1> QED
  BY <1>2, <1>3, <1>4, <1>5, <1>6, <1>7, <1>8, <1>9, <1>10, <1>11, <1>12 DEF Next

(* A text that its author deleted is gone from every member's history once   *)
(* everything has arrived, unless something overtook the text while that     *)
(* member was handling it: the deletion goes to all who have the text or     *)
(* will, and comes after it, also to those who were added or removed in the  *)
(* meantime (session_manager.py:142-147, 151-213).                           *)
THEOREM GroupsDeletedForEveryMember == Spec => []DeletedForEveryMember
<1>1. Init => RetractedOK /\ DeletesOK
  <2> SUFFICES ASSUME Init
               PROVE  RetractedOK /\ DeletesOK
    OBVIOUS
  <2>1. \A u, v \in Users, e \in Envelopes : ~Owes(u, e, v)
    BY InitBase
  <2>2. retracted = {} /\ members = {}
    BY DEF Init
  <2> QED
    BY <2>1, <2>2 DEF RetractedOK, DeletesOK, Deletes
<1>2. Base /\ HandsOK /\ RetractedOK /\ [Next]_vars => RetractedOK'
  BY NextRetracted
<1>3. Base /\ HandsOK /\ SyncOK /\ RetractedOK /\ DeletesOK /\ [Next]_vars => DeletesOK'
  BY NextDeletes
<1>4. Base /\ RetractedOK /\ DeletesOK => DeletedForEveryMember
  <2> SUFFICES ASSUME Base, RetractedOK, DeletesOK, AtRest, calm, ~rejoined,
                      NEW i \in retracted, NEW u \in members, ~Lost(u, i)
               PROVE  i \notin shown[u]
    BY DEF DeletedForEveryMember, Lost
  <2>1. u \in Users /\ retracted \in SUBSET (1..Len(author)) /\ author \in Seq(Users)
    BY DEF Base, Typed
  <2>2. \A v \in Users : Len(job[v]) = 0 /\ Len(mailbox[v]) = 0
    BY DEF AtRest
  <2>3. \A x \in Users, e \in Envelopes : ~Owes(x, e, u)
    BY <2>2 DEF Owes
  <2>4. \A k : k \notin 1..Len(mailbox[u])
    BY <2>1, <2>2
  <2>5. CASE u = author[i]
    BY <2>5 DEF RetractedOK
  <2>6. CASE u # author[i]
    <3>1. Undone(u, i)
      BY <2>6 DEF DeletesOK, Deletes, Orderly
    <3> QED
      BY <3>1, <2>3, <2>4 DEF Undone
  <2> QED
    BY <2>5, <2>6
<1> QED
  BY <1>1, <1>2, <1>3, <1>4, BaseInvariant, SyncInvariant, PTL DEF Spec
=============================================================================
