-------------------------- MODULE SessionReadProofs --------------------------
(***************************************************************************)
(* Proofs about Session, continued: which frames can be read.              *)
(*                                                                         *)
(* Unless something happened that UnreadOnlyIfDisturbed names, the two     *)
(* ratchets are always one Diffie-Hellman step apart, and the frames of    *)
(* the one are, for the other, of the chain it receives on, of the chain   *)
(* it will receive on after its next step, or accounted for.  What is then *)
(* refused is refused for the number of frames that were lost before it.   *)
(***************************************************************************)
EXTENDS SessionProofs

(* The two users never crossed, and neither was disturbed.                   *)
Calm == ~Crossed /\ Disturbed = {}

(* The session a user stands at: the one about to be stored, the one that is *)
(* stored, or the one it would respond with to the other's first frame.      *)
Standing(u) ==
    IF \E t \in Tasks : work[u][t].op = "save"
      THEN {work[u][t].state : t \in {r \in Tasks : work[u][r].op = "save"}}
    ELSE IF saved[u] # Null
      THEN {saved[u]}
      ELSE {InitAsResponder(Secret(f.x3dh, u), SignedPrekey(u)) :
              f \in {g \in frames[Peer(u)] : g.x3dh # Null}}

(* s is one Diffie-Hellman step ahead of r.                                  *)
Ahead(s, r) ==
    /\ s.send = s.root /\ s.root = KdfRk(r.root, s.dhs, r.dhs)
    /\ s.dhr = r.dhs /\ s.recv = r.send /\ s.dhs # r.dhr

(* The chain of a frame; a sending chain has frames without a gap.           *)
Chain(f) == f.m.key.chain
Full(u, chain, n) ==
    \A i \in 0..(n - 1) : \E g \in frames[u] : g.m.key = MessageKey(chain, i)

(* What u has sent until it came to s: a key pair for each chain, frames     *)
(* numbered along the chains.                                                *)
Sends(u, s) ==
    /\ \A f \in frames[u] :
          /\ f.m.n = f.m.key.n /\ f.m.dh \in {Pair(u, k) : k \in 1..gen[u]}
          /\ Len(Chain(f)) <= Len(s.root)
          /\ Chain(f) = s.send <=> f.m.dh = s.dhs
          /\ Chain(f) = s.send => f.m.pn = s.pn /\ f.m.n < s.ns
          /\ \A g \in frames[u] :
                /\ Chain(g) = Chain(f) <=> g.m.dh = f.m.dh
                /\ Chain(g) = Chain(f) /\ g.m.n < f.m.n => g.id < f.id
                /\ Len(Chain(g)) < Len(Chain(f)) => g.id < f.id
    /\ s.dhs \in {Pair(u, k) : k \in 0..gen[u]}
    /\ s.send # Null => s.dhs # SignedPrekey(u)
    /\ Full(u, s.send, s.ns)

(* What became of it at the other user, who is at r: it was read, its key    *)
(* was kept, or it is yet to come.                                           *)
Entry(m) == [dh |-> m.dh, n |-> m.n, key |-> m.key]
Known(u, r, f) == f \in read[Peer(u)] \/ Entry(f.m) \in r.skipped
Gets(u, s, r, ahead) ==
    /\ \A f \in frames[u] :
          /\ Chain(f) = r.recv <=> f.m.dh = r.dhr
          /\ Chain(f) = r.recv /\ f.m.n < r.nr => Known(u, r, f)
          /\ Chain(f) = r.recv /\ ahead => f.m.n < s.pn
          /\ Chain(f) # r.recv => (ahead /\ Chain(f) = s.send) \/ Known(u, r, f)
    /\ \A e \in r.skipped : \E f \in frames[u] : e = Entry(f.m)
    /\ ahead /\ r.recv # Null => Full(u, r.recv, s.pn)
    /\ ~ahead => r.nr <= s.ns

(* The two are one step apart, and each can read what the other sends.       *)
InStep(u, s, r, ahead) ==
    /\ IF ahead THEN Ahead(s, r) ELSE Ahead(r, s)
    /\ Sends(u, s) /\ Gets(u, s, r, ahead)
    /\ Sends(Peer(u), r) /\ Gets(Peer(u), r, s, ~ahead)

StepOK == Calm /\ (\E u \in Users : frames[u] # {}) =>
    \E u \in Users : \E s \in Standing(u), r \in Standing(Peer(u)) : InStep(u, s, r, TRUE)

(* Who opened the conversation did so with its first frame.                  *)
FirstOK ==
    /\ (\A u \in Users : frames[u] = {}) =>
          \A u \in Users : saved[u] = Null /\ \A t \in Tasks : work[u][t].op # "save"
    /\ Calm => \A u \in Users : \A f \in frames[u] : f.x3dh # Null => f.id = 1

(* Frames are numbered.                                                      *)
NumbersOK ==
    \A u \in Users : \A f \in frames[u] :
        /\ f.id \in 1..Cardinality(frames[u])
        /\ \A g \in frames[u] : g.id = f.id => g = f

(* What the relay has yet to push comes after what is in hand, or again.     *)
OrderOK ==
    \A u \in Users : \A f \in Opened(u) : \A g \in mailbox[u] :
        g.id < f.id => g \in read[u] \cup unread[u]

(* Frames that are still there, and those before f that are lost for good.   *)
Around(u) == mailbox[u] \cup read[u] \cup unread[u] \cup Opened(u)
LostBefore(u, f) == {g \in frames[Peer(u)] \ Around(u) : g.id < f.id}

(* Who gave up a frame, but missed no opening frame, had lost more than      *)
(* MAX_SKIP before it.                                                       *)
MissedOpener(u) == \E g \in missed[u] : g.x3dh # Null
GivenUpOK == Calm =>
    \A u \in Users : ~MissedOpener(u) =>
        \A f \in unread[u] : Cardinality(LostBefore(u, f)) > MaxSkip

(* The inductive invariant.                                                  *)
RInv ==
    /\ IInv
    /\ StepOK
    /\ FirstOK
    /\ NumbersOK
    /\ OrderOK
    /\ GivenUpOK

-----------------------------------------------------------------------------

(* Skipping keys, field by field.                                            *)
LEMMA Skipping ==
    ASSUME NEW r \in Sessions, NEW until \in Nat, r.recv # Null
    PROVE  /\ Skip(r, until).nr = IF until <= r.nr THEN r.nr ELSE until
           /\ Skip(r, until).skipped =
                 r.skipped \cup {[dh |-> r.dhr, n |-> i, key |-> MessageKey(r.recv, i)] :
                                    i \in r.nr..(until - 1)}
<1> DEFINE new == {[dh |-> r.dhr, n |-> i, key |-> MessageKey(r.recv, i)] : i \in r.nr..(until - 1)}
<1>1. /\ r.nr \in Nat
      /\ r = [dhs |-> r.dhs, dhr |-> r.dhr, root |-> r.root, send |-> r.send, recv |-> r.recv,
              ns |-> r.ns, nr |-> r.nr, pn |-> r.pn, skipped |-> r.skipped]
  BY DEF Sessions
<1>2. CASE until <= r.nr
  <2>1. r.nr..(until - 1) = {}
    BY <1>1, <1>2
  <2>2. new = {}
    BY <2>1
  <2> QED
    BY <1>2, <2>2 DEF Skip
<1>3. CASE ~(until <= r.nr)
  <2>1. Skip(r, until) = [r EXCEPT !.nr = until, !.skipped = r.skipped \cup new]
    BY <1>3 DEF Skip
  <2> HIDE DEF new
  <2>2. Skip(r, until).nr = until /\ Skip(r, until).skipped = r.skipped \cup new
    BY <2>1, <1>1
  <2> QED
    BY <1>3, <2>2 DEF new
<1> QED
  BY <1>2, <1>3

(* A session has a receiving chain, which is a chain, or none.               *)
LEMMA RecvChain ==
    ASSUME NEW r \in Sessions, NEW m \in Messages, m.key.chain = r.recv
    PROVE  r.recv # Null
BY SessionAssumption DEF Messages, Keys

(* A Diffie-Hellman step, field by field.                                    *)
LEMMA Turning ==
    ASSUME NEW q \in Sessions, NEW p, NEW fresh
    PROVE  LET t == DhRatchet(q, p, fresh)
           IN  /\ t.dhs = fresh /\ t.dhr = p /\ t.ns = 0 /\ t.nr = 0 /\ t.pn = q.ns
               /\ t.recv = KdfRk(q.root, q.dhs, p) /\ t.skipped = q.skipped
               /\ t.root = KdfRk(t.recv, fresh, p) /\ t.send = t.root
<1> DEFINE root == KdfRk(q.root, q.dhs, p)
           next == KdfRk(root, fresh, p)
<1>1. q = [dhs |-> q.dhs, dhr |-> q.dhr, root |-> q.root, send |-> q.send, recv |-> q.recv,
           ns |-> q.ns, nr |-> q.nr, pn |-> q.pn, skipped |-> q.skipped]
  BY DEF Sessions
<1>2. DhRatchet(q, p, fresh) =
        [q EXCEPT !.pn = q.ns, !.ns = 0, !.nr = 0, !.dhr = p, !.recv = root, !.dhs = fresh,
                  !.root = next, !.send = next]
  BY DEF DhRatchet
<1> HIDE DEF root, next
<1>3. DhRatchet(q, p, fresh) =
        [dhs |-> fresh, dhr |-> p, root |-> next, send |-> next, recv |-> root,
         ns |-> 0, nr |-> 0, pn |-> q.ns, skipped |-> q.skipped]
  BY <1>1, <1>2
<1> QED
  BY <1>3 DEF root, next

(* The three ways a message is decrypted: with a kept key, on the receiving  *)
(* chain, or after a Diffie-Hellman step.                                    *)
LEMMA DecryptingKept ==
    ASSUME NEW r \in Sessions, NEW m, NEW fresh, Cached(r, m) = {Entry(m)}
    PROVE  /\ Decrypts(r, m, fresh)
           /\ LET new == Decrypting(r, m, fresh)
              IN  /\ new.dhs = r.dhs /\ new.dhr = r.dhr /\ new.root = r.root
                  /\ new.send = r.send /\ new.recv = r.recv
                  /\ new.ns = r.ns /\ new.nr = r.nr /\ new.pn = r.pn
                  /\ new.skipped = r.skipped \ {Entry(m)}
<1>1. r = [dhs |-> r.dhs, dhr |-> r.dhr, root |-> r.root, send |-> r.send, recv |-> r.recv,
           ns |-> r.ns, nr |-> r.nr, pn |-> r.pn, skipped |-> r.skipped]
  BY DEF Sessions
<1>2. Entry(m).key = m.key
  BY DEF Entry
<1>3. Decrypts(r, m, fresh)
  BY <1>2 DEF Decrypts
<1>4. Decrypting(r, m, fresh) = [r EXCEPT !.skipped = r.skipped \ {Entry(m)}]
  BY DEF Decrypting
<1> QED
  BY <1>1, <1>3, <1>4

(* ... whose key comes later in the receiving chain.                         *)
LEMMA DecryptingOnChain ==
    ASSUME NEW r \in Sessions, NEW m \in Messages, NEW fresh, Cached(r, m) = {},
           m.dh = r.dhr, m.key.chain = r.recv, m.n = m.key.n,
           NEW n \in Nat, m.n = n, n >= r.nr
    PROVE  /\ Decrypts(r, m, fresh) <=> n - r.nr <= MaxSkip
           /\ LET new == Decrypting(r, m, fresh)
              IN  /\ new.dhs = r.dhs /\ new.dhr = r.dhr /\ new.root = r.root
                  /\ new.send = r.send /\ new.recv = r.recv
                  /\ new.ns = r.ns /\ new.nr = n + 1 /\ new.pn = r.pn
                  /\ new.skipped =
                        r.skipped \cup {[dh |-> r.dhr, n |-> i, key |-> MessageKey(r.recv, i)] :
                                           i \in r.nr..(n - 1)}
<1> DEFINE q == Skip(r, m.n)
           new == Decrypting(r, m, fresh)
<1>1. r.recv # Null
  BY RecvChain
<1>2. m.n \in Nat /\ m.key \in Keys /\ r.nr \in Nat
  BY DEF Messages, Sessions
<1>3. /\ q.nr = m.n
      /\ q.skipped = r.skipped \cup {[dh |-> r.dhr, n |-> i, key |-> MessageKey(r.recv, i)] :
                                        i \in r.nr..(m.n - 1)}
  BY <1>1, <1>2, Skipping
<1>4. /\ q \in Sessions /\ q.dhs = r.dhs /\ q.dhr = r.dhr /\ q.root = r.root /\ q.send = r.send
      /\ q.recv = r.recv /\ q.ns = r.ns /\ q.pn = r.pn
  BY <1>2, SkipFields
<1>5. Turned(r, m, fresh) = r
  BY DEF Turned
<1>6. MessageKey(r.recv, m.n) = m.key
  BY <1>2 DEF MessageKey, Keys
<1>7. Decrypts(r, m, fresh) <=> MaySkip(r, m.n)
  BY <1>3, <1>5, <1>6 DEF Decrypts
<1>8. Decrypts(r, m, fresh) <=> m.n - r.nr <= MaxSkip
  BY <1>1, <1>7 DEF MaySkip
<1>9. new = [q EXCEPT !.nr = q.nr + 1]
  BY <1>5 DEF Decrypting
<1>10. q = [dhs |-> q.dhs, dhr |-> q.dhr, root |-> q.root, send |-> q.send, recv |-> q.recv,
            ns |-> q.ns, nr |-> q.nr, pn |-> q.pn, skipped |-> q.skipped]
  BY <1>4 DEF Sessions
<1> HIDE DEF q, new
<1>11. new = [dhs |-> q.dhs, dhr |-> q.dhr, root |-> q.root, send |-> q.send, recv |-> q.recv,
              ns |-> q.ns, nr |-> q.nr + 1, pn |-> q.pn, skipped |-> q.skipped]
  BY <1>9, <1>10
<1> QED
  BY <1>3, <1>4, <1>8, <1>11 DEF new

(* ... that begins a new chain, after a Diffie-Hellman step.                 *)
LEMMA DecryptingTurned ==
    ASSUME NEW r \in Sessions, NEW m \in Messages, NEW fresh \in Pairs, Cached(r, m) = {},
           m.dh # r.dhr, m.key.chain = KdfRk(r.root, r.dhs, m.dh), m.n = m.key.n,
           NEW n \in Nat, m.n = n, NEW pn \in Nat, m.pn = pn
    PROVE  /\ Decrypts(r, m, fresh) <=> (r.recv = Null \/ pn - r.nr <= MaxSkip) /\ n <= MaxSkip
           /\ LET new == Decrypting(r, m, fresh)
              IN  /\ new.dhs = fresh /\ new.dhr = m.dh /\ new.recv = m.key.chain
                  /\ new.root = KdfRk(new.recv, fresh, m.dh) /\ new.send = new.root
                  /\ new.ns = 0 /\ new.nr = n + 1 /\ new.pn = r.ns
                  /\ new.skipped =
                        Skip(r, pn).skipped
                        \cup {[dh |-> m.dh, n |-> i, key |-> MessageKey(m.key.chain, i)] :
                                 i \in 0..(n - 1)}
<1> DEFINE p == Skip(r, m.pn)
           t == Turned(r, m, fresh)
           q == Skip(t, m.n)
           new == Decrypting(r, m, fresh)
<1>1. /\ m.n \in Nat /\ m.pn \in Nat /\ m.dh \in Pairs /\ m.key \in Keys
      /\ r.nr \in Nat
  BY DEF Messages, Sessions
<1>2. p \in Sessions /\ p.dhs = r.dhs /\ p.root = r.root /\ p.ns = r.ns
  BY <1>1, SkipFields
<1>3. t = DhRatchet(p, m.dh, fresh)
  BY DEF Turned
<1> HIDE DEF p
<1>4. /\ t.dhs = fresh /\ t.dhr = m.dh /\ t.ns = 0 /\ t.nr = 0 /\ t.pn = r.ns
      /\ t.recv = m.key.chain /\ t.skipped = p.skipped
      /\ t.root = KdfRk(t.recv, fresh, m.dh) /\ t.send = t.root
  BY <1>2, <1>3, Turning
<1>5. t \in Sessions
  BY <1>1, <1>2, <1>3, DhRatchetFields
<1> HIDE DEF t
<1>6. t.recv # Null
  BY <1>4, <1>5, RecvChain
<1>7. /\ q.nr = m.n
      /\ q.skipped = p.skipped \cup {[dh |-> m.dh, n |-> i, key |-> MessageKey(m.key.chain, i)] :
                                        i \in 0..(m.n - 1)}
  BY <1>1, <1>4, <1>5, <1>6, Skipping
<1>8. /\ q \in Sessions /\ q.dhs = t.dhs /\ q.dhr = t.dhr /\ q.root = t.root /\ q.send = t.send
      /\ q.recv = t.recv /\ q.ns = t.ns /\ q.pn = t.pn
  BY <1>1, <1>5, SkipFields
<1>9. MessageKey(t.recv, m.n) = m.key
  BY <1>1, <1>4 DEF MessageKey, Keys
<1>10. Decrypts(r, m, fresh) <=> MaySkip(r, m.pn) /\ MaySkip(t, m.n)
  BY <1>7, <1>9 DEF Decrypts, t
<1>11. Decrypts(r, m, fresh) <=> (r.recv = Null \/ m.pn - r.nr <= MaxSkip) /\ m.n <= MaxSkip
  BY <1>1, <1>4, <1>6, <1>10 DEF MaySkip
<1>12. new = [q EXCEPT !.nr = q.nr + 1]
  BY DEF Decrypting, t
<1>13. q = [dhs |-> q.dhs, dhr |-> q.dhr, root |-> q.root, send |-> q.send, recv |-> q.recv,
            ns |-> q.ns, nr |-> q.nr, pn |-> q.pn, skipped |-> q.skipped]
  BY <1>8 DEF Sessions
<1> HIDE DEF q, new
<1>14. new = [dhs |-> q.dhs, dhr |-> q.dhr, root |-> q.root, send |-> q.send, recv |-> q.recv,
              ns |-> q.ns, nr |-> q.nr + 1, pn |-> q.pn, skipped |-> q.skipped]
  BY <1>12, <1>13
<1> QED
  BY <1>4, <1>7, <1>8, <1>11, <1>14 DEF new, p

-----------------------------------------------------------------------------

(* The fields of a frame that was sent.                                      *)
LEMMA FrameFields ==
    ASSUME Typed, NEW u \in Users, NEW f \in frames[u]
    PROVE  /\ f \in Frames /\ f.id \in Nat /\ f.m \in Messages
           /\ f.m.dh \in Pairs /\ f.m.pn \in Nat /\ f.m.n \in Nat /\ f.m.key.n \in Nat
           /\ Chain(f) \in Chains /\ Len(Chain(f)) \in Nat /\ Chain(f) # Null
           /\ f.m.key = MessageKey(Chain(f), f.m.key.n)
<1>1. f \in Frames
  BY DEF Typed
<1>2. f.id \in Nat /\ f.m \in Messages
  BY <1>1 DEF Frames
<1>3. f.m.dh \in Pairs /\ f.m.pn \in Nat /\ f.m.n \in Nat /\ f.m.key \in Keys
  BY <1>2 DEF Messages
<1>4. f.m.key.n \in Nat /\ Chain(f) \in Chains /\ f.m.key = MessageKey(Chain(f), f.m.key.n)
  BY <1>3 DEF Keys, Chain, MessageKey
<1>5. Len(Chain(f)) \in Nat /\ Chain(f) # Null
  BY <1>4, ChainLength, SessionAssumption
<1> QED
  BY <1>1, <1>2, <1>3, <1>4, <1>5

(* The two ends of a key.                                                    *)
LEMMA KeyFields ==
    ASSUME NEW c, NEW n
    PROVE  MessageKey(c, n).chain = c /\ MessageKey(c, n).n = n
BY DEF MessageKey

(* A chain is made of the same two key pairs at both ends.                   *)
LEMMA KdfRkSame ==
    ASSUME NEW root, NEW p, NEW q
    PROVE  KdfRk(root, p, q) = KdfRk(root, q, p)
<1>1. {p, q} = {q, p}
  OBVIOUS
<1> QED
  BY <1>1 DEF KdfRk

(* Lengths and pairs of two sessions one of which is ahead.                  *)
LEMMA AheadShape ==
    ASSUME NEW s \in Sessions, NEW r \in Sessions, Well(r), Ahead(s, r)
    PROVE  /\ Len(r.root) \in Nat /\ Len(s.root) = Len(r.root) + 1
           /\ s.send = s.root /\ s.send # r.recv /\ s.send # Null
           /\ r.recv # Null => Len(r.recv) < Len(r.root) /\ Len(r.recv) \in Nat
           /\ \A p : s.dhs = p => s.send = KdfRk(r.root, r.dhs, p)
<1>1. /\ r.root \in Chains /\ s.root \in Chains /\ r.dhs \in Pairs /\ s.dhs \in Pairs
      /\ r.recv \in Chains \cup {Null}
  BY DEF Sessions
<1>2. Len(s.root) = Len(r.root) + 1 /\ Len(r.root) \in Nat
  <2>1. s.root = KdfRk(r.root, s.dhs, r.dhs)
    BY DEF Ahead
  <2>2. Len(KdfRk(r.root, s.dhs, r.dhs)) = Len(r.root) + 1 /\ Len(r.root) \in Nat
    BY <1>1, KdfRkLonger, ChainLength
  <2> QED
    BY <2>1, <2>2
<1>3. r.recv # Null => Len(r.recv) < Len(r.root) /\ Len(r.recv) \in Nat
  BY <1>1, ChainLength DEF Well
<1>4. s.send = s.root /\ s.send # Null
  BY <1>1, SessionAssumption DEF Ahead
<1>5. s.send # r.recv
  BY <1>2, <1>3, <1>4
<1>6. s.send = KdfRk(r.root, r.dhs, s.dhs)
  BY KdfRkSame DEF Ahead
<1> QED
  BY <1>2, <1>3, <1>4, <1>5, <1>6

(* A kept key is found by its own message only.                              *)
LEMMA CachedEntry ==
    ASSUME Typed, NEW u \in Users, NEW s, NEW r, NEW b, InStep(u, s, r, b), NEW f \in frames[u]
    PROVE  /\ Entry(f.m) \in r.skipped => Cached(r, f.m) = {Entry(f.m)}
           /\ Entry(f.m) \notin r.skipped => Cached(r, f.m) = {}
<1>1. ASSUME NEW e \in r.skipped, e.dh = f.m.dh, e.n = f.m.n
      PROVE  e = Entry(f.m)
  <2>1. PICK g \in frames[u] : e = Entry(g.m)
    BY DEF InStep, Gets
  <2>2. g.m.dh = f.m.dh /\ g.m.n = f.m.n
    BY <1>1, <2>1 DEF Entry
  <2>3. Chain(g) = Chain(f) /\ g.m.n = g.m.key.n /\ f.m.n = f.m.key.n
    BY <2>2 DEF InStep, Sends
  <2>4. g.m.key = f.m.key
    BY <2>2, <2>3, FrameFields
  <2> QED
    BY <2>1, <2>2, <2>4 DEF Entry
<1>2. Entry(f.m).dh = f.m.dh /\ Entry(f.m).n = f.m.n
  BY DEF Entry
<1> QED
  BY <1>1, <1>2 DEF Cached

(* Where a frame that was not read is found.                                 *)
LEMMA Readable ==
    ASSUME Typed, NEW u \in Users, NEW s \in Sessions, NEW r \in Sessions, Well(r), Well(s),
           NEW b \in BOOLEAN, InStep(u, s, r, b), NEW f \in frames[u], f \notin read[Peer(u)]
    PROVE  \/ Cached(r, f.m) = {Entry(f.m)}
           \/ /\ Cached(r, f.m) = {}
              /\ f.m.dh = r.dhr /\ Chain(f) = r.recv /\ f.m.n >= r.nr
              /\ b => f.m.n < s.pn
              /\ ~b => f.m.n < s.ns
           \/ /\ Cached(r, f.m) = {}
              /\ b /\ f.m.dh # r.dhr /\ f.m.dh = s.dhs /\ f.m.pn = s.pn /\ f.m.n < s.ns
              /\ Chain(f) = s.send /\ Chain(f) = KdfRk(r.root, r.dhs, f.m.dh)
<1>1. CASE Entry(f.m) \in r.skipped
  BY <1>1, CachedEntry
<1>2. CASE Entry(f.m) \notin r.skipped
  <2>1. Cached(r, f.m) = {} /\ ~Known(u, r, f)
    BY <1>2, CachedEntry DEF Known
  <2>2. f.m.n \in Nat /\ r.nr \in Nat
    BY FrameFields DEF Sessions
  <2>3. CASE Chain(f) = r.recv
    <3>1. f.m.dh = r.dhr /\ f.m.n >= r.nr /\ (b => f.m.n < s.pn)
      BY <2>1, <2>2, <2>3 DEF InStep, Gets
    <3>2. ASSUME ~b
          PROVE  f.m.n < s.ns
      <4>1. Ahead(r, s)
        BY <3>2 DEF InStep
      <4>2. Chain(f) = s.send
        BY <2>3, <4>1 DEF Ahead
      <4> QED
        BY <4>2 DEF InStep, Sends
    <3> QED
      BY <2>1, <2>3, <3>1, <3>2
  <2>4. CASE Chain(f) # r.recv
    <3>1. b /\ Chain(f) = s.send /\ f.m.dh # r.dhr
      BY <2>1, <2>4 DEF InStep, Gets
    <3>2. f.m.dh = s.dhs /\ f.m.pn = s.pn /\ f.m.n < s.ns
      BY <3>1 DEF InStep, Sends
    <3>3. Ahead(s, r)
      BY <3>1 DEF InStep
    <3> QED
      BY <2>1, <3>1, <3>2, <3>3, AheadShape
  <2> QED
    BY <2>3, <2>4
<1> QED
  BY <1>1, <1>2

(* A set that has a frame for each of many positions of a chain is large.    *)
LEMMA ManyFrames ==
    ASSUME NEW G, IsFiniteSet(G), NEW c, NEW i \in Nat, NEW j \in Nat, j - i > MaxSkip,
           \A k \in i..(j - 1) : \E g \in G : g.m.key = MessageKey(c, k)
    PROVE  Cardinality(G) > MaxSkip
<1> DEFINE h == [k \in i..(j - 1) |-> CHOOSE g \in G : g.m.key = MessageKey(c, k)]
<1>1. \A k \in i..(j - 1) : h[k] \in G /\ h[k].m.key = MessageKey(c, k)
  OBVIOUS
<1>2. h \in [i..(j - 1) -> G]
  BY <1>1
<1> HIDE DEF h
<1>3. ASSUME NEW k \in i..(j - 1), NEW l \in i..(j - 1), h[k] = h[l]
      PROVE  k = l
  <2>1. MessageKey(c, k) = MessageKey(c, l)
    BY <1>1, <1>3
  <2> QED
    BY <2>1, KeyFields
<1>4. h \in Injection(i..(j - 1), G)
  BY <1>2, <1>3 DEF Injection, IsInjective
<1>5. Cardinality(i..(j - 1)) <= Cardinality(G)
  BY <1>4, FS_Injection
<1>6. MaxSkip \in Nat /\ i \in Int /\ j - 1 \in Int
  BY RatchetAssumption
<1>7. Cardinality(i..(j - 1)) = j - i
  BY <1>6, FS_Interval
<1>8. Cardinality(G) \in Nat
  BY FS_CardinalityType
<1> QED
  BY <1>5, <1>6, <1>7, <1>8

(* A frame is refused only for the number of frames before it that were not  *)
(* read.                                                                     *)
LEMMA Refused ==
    ASSUME Typed, NEW u \in Users, NEW s \in Sessions, NEW r \in Sessions, Well(r), Well(s),
           NEW b \in BOOLEAN, InStep(u, s, r, b), NEW f \in frames[u], f \notin read[Peer(u)],
           \A g \in read[Peer(u)] : Consumed(r, g.m.key),
           NEW fresh \in Pairs, ~Decrypts(r, f.m, fresh)
    PROVE  Cardinality({g \in frames[u] : g.id < f.id /\ g \notin read[Peer(u)]}) > MaxSkip
<1> DEFINE G == {g \in frames[u] : g.id < f.id /\ g \notin read[Peer(u)]}
<1>1. IsFiniteSet(G)
  BY FS_Subset DEF Typed
<1>2. /\ f.m \in Messages /\ f.m.n \in Nat /\ f.m.pn \in Nat /\ f.m.n = f.m.key.n
      /\ Chain(f) \in Chains
  BY FrameFields DEF InStep, Sends
<1>3. r.nr \in Nat /\ s.pn \in Nat /\ s.ns \in Nat /\ MaxSkip \in Nat
  BY RatchetAssumption DEF Sessions
<1>4. ASSUME NEW g \in frames[u]
      PROVE  /\ g.m.n = g.m.key.n
             /\ Chain(g) = Chain(f) /\ g.m.n < f.m.n => g.id < f.id
             /\ Len(Chain(g)) < Len(Chain(f)) => g.id < f.id
  BY DEF InStep, Sends
<1>5. ASSUME NEW g \in frames[u], Chain(g) = r.recv, g.m.key.n >= r.nr
      PROVE  g \notin read[Peer(u)]
  <2>1. g.m.key.n \in Nat
    BY FrameFields
  <2> QED
    BY <2>1, <1>3, <1>5 DEF Consumed, Chain
<1>6. CASE Cached(r, f.m) = {Entry(f.m)}
  BY <1>6, DecryptingKept
<1>7. CASE /\ Cached(r, f.m) = {}
           /\ f.m.dh = r.dhr /\ Chain(f) = r.recv /\ f.m.n >= r.nr
           /\ b => f.m.n < s.pn
           /\ ~b => f.m.n < s.ns
  <2>1. f.m.n - r.nr > MaxSkip
    <3>1. Decrypts(r, f.m, fresh) <=> f.m.n - r.nr <= MaxSkip
      BY <1>2, <1>7, DecryptingOnChain DEF Chain
    <3> QED
      BY <3>1, <1>2, <1>3
  <2>2. r.recv # Null
    BY <1>2, <1>7, SessionAssumption
  <2>3. ASSUME NEW k \in r.nr..(f.m.n - 1)
        PROVE  \E g \in G : g.m.key = MessageKey(r.recv, k)
    <3>1. \E g \in frames[u] : g.m.key = MessageKey(r.recv, k)
      <4>1. CASE b
        <5>1. Full(u, r.recv, s.pn) /\ k \in 0..(s.pn - 1)
          BY <4>1, <2>2, <1>2, <1>3, <1>7 DEF InStep, Gets
        <5> QED
          BY <5>1 DEF Full
      <4>2. CASE ~b
        <5>1. r.recv = s.send
          BY <4>2 DEF InStep, Ahead
        <5>2. Full(u, r.recv, s.ns) /\ k \in 0..(s.ns - 1)
          BY <4>2, <5>1, <1>2, <1>3, <1>7 DEF InStep, Sends
        <5> QED
          BY <5>2 DEF Full
      <4> QED
        BY <4>1, <4>2
    <3>2. PICK g \in frames[u] : g.m.key = MessageKey(r.recv, k)
      BY <3>1
    <3>3. Chain(g) = r.recv /\ g.m.key.n = k
      BY <3>2, KeyFields DEF Chain
    <3>4. g \notin read[Peer(u)]
      BY <3>3, <1>3, <1>5
    <3>5. g.id < f.id
      BY <3>3, <1>2, <1>3, <1>4, <1>7
    <3> QED
      BY <3>2, <3>4, <3>5
  <2> HIDE DEF G
  <2>4. Cardinality(G) > MaxSkip
    BY <1>1, <1>2, <1>3, <2>1, <2>3, ManyFrames
  <2> QED
    BY <2>4 DEF G
<1>8. CASE /\ Cached(r, f.m) = {}
           /\ b /\ f.m.dh # r.dhr /\ f.m.dh = s.dhs /\ f.m.pn = s.pn /\ f.m.n < s.ns
           /\ Chain(f) = s.send /\ Chain(f) = KdfRk(r.root, r.dhs, f.m.dh)
  <2>1. Ahead(s, r)
    BY <1>8 DEF InStep
  <2>2. /\ Len(r.root) \in Nat /\ Len(s.send) = Len(r.root) + 1
        /\ r.recv # Null => Len(r.recv) < Len(r.root) /\ Len(r.recv) \in Nat
    BY <2>1, AheadShape
  <2>3. Decrypts(r, f.m, fresh) <=>
           (r.recv = Null \/ f.m.pn - r.nr <= MaxSkip) /\ f.m.n <= MaxSkip
    BY <1>2, <1>8, DecryptingTurned DEF Chain
  <2>4. CASE r.recv # Null /\ f.m.pn - r.nr > MaxSkip
    <3>1. ASSUME NEW k \in r.nr..(f.m.pn - 1)
          PROVE  \E g \in G : g.m.key = MessageKey(r.recv, k)
      <4>1. Full(u, r.recv, s.pn) /\ k \in 0..(s.pn - 1)
        BY <2>4, <1>2, <1>3, <1>8 DEF InStep, Gets
      <4>2. PICK g \in frames[u] : g.m.key = MessageKey(r.recv, k)
        BY <4>1 DEF Full
      <4>3. Chain(g) = r.recv /\ g.m.key.n = k
        BY <4>2, KeyFields DEF Chain
      <4>4. g \notin read[Peer(u)]
        BY <4>3, <1>3, <1>5
      <4>5. Len(Chain(g)) < Len(Chain(f))
        BY <4>3, <2>2, <2>4, <1>8
      <4> QED
        BY <4>2, <4>4, <4>5, <1>4
    <3> HIDE DEF G
    <3>2. Cardinality(G) > MaxSkip
      BY <1>1, <1>2, <1>3, <2>4, <3>1, ManyFrames
    <3> QED
      BY <3>2 DEF G
  <2>5. CASE f.m.n > MaxSkip
    <3>1. ASSUME NEW k \in 0..(f.m.n - 1)
          PROVE  \E g \in G : g.m.key = MessageKey(s.send, k)
      <4>1. Full(u, s.send, s.ns) /\ k \in 0..(s.ns - 1)
        BY <1>2, <1>3, <1>8 DEF InStep, Sends
      <4>2. PICK g \in frames[u] : g.m.key = MessageKey(s.send, k)
        BY <4>1 DEF Full
      <4>3. Chain(g) = s.send /\ g.m.key.n = k
        BY <4>2, KeyFields DEF Chain
      <4>4. g \notin read[Peer(u)]
        BY <4>3, <2>2 DEF Consumed, Chain
      <4>5. g.id < f.id
        BY <4>3, <1>2, <1>4, <1>8
      <4> QED
        BY <4>2, <4>4, <4>5
    <3> HIDE DEF G
    <3>2. f.m.n - 0 > MaxSkip
      BY <1>2, <2>5
    <3>3. Cardinality(G) > MaxSkip
      BY <1>1, <1>2, <3>1, <3>2, ManyFrames
    <3> QED
      BY <3>3 DEF G
  <2> QED
    BY <1>2, <1>3, <2>3, <2>4, <2>5
<1> QED
  BY <1>6, <1>7, <1>8, Readable

-----------------------------------------------------------------------------

(* What a user sent does not change while it only draws key pairs.           *)
LEMMA SendsStays ==
    ASSUME Typed, NEW u \in Users, NEW s, Sends(u, s), frames'[u] = frames[u],
           gen'[u] \in Nat, gen'[u] >= gen[u]
    PROVE  Sends(u, s)'
<1>1. gen[u] \in Nat
  BY DEF Typed
<1>2. /\ {Pair(u, k) : k \in 1..gen[u]} \subseteq {Pair(u, k) : k \in 1..gen'[u]}
      /\ {Pair(u, k) : k \in 0..gen[u]} \subseteq {Pair(u, k) : k \in 0..gen'[u]}
  BY <1>1
<1>3. Full(u, s.send, s.ns)'
  BY DEF Sends, Full
<1>4. s.dhs \in {Pair(u, k) : k \in 0..gen'[u]} /\ (s.send # Null => s.dhs # SignedPrekey(u))
  BY <1>2 DEF Sends
<1>5. ASSUME NEW f \in frames'[u]
      PROVE  /\ f.m.n = f.m.key.n /\ f.m.dh \in {Pair(u, k) : k \in 1..gen'[u]}
             /\ Len(Chain(f)) <= Len(s.root)
             /\ Chain(f) = s.send <=> f.m.dh = s.dhs
             /\ Chain(f) = s.send => f.m.pn = s.pn /\ f.m.n < s.ns
             /\ \A g \in frames'[u] :
                   /\ Chain(g) = Chain(f) <=> g.m.dh = f.m.dh
                   /\ Chain(g) = Chain(f) /\ g.m.n < f.m.n => g.id < f.id
                   /\ Len(Chain(g)) < Len(Chain(f)) => g.id < f.id
  BY <1>2 DEF Sends
<1> QED
  BY <1>3, <1>4, <1>5 DEF Sends

(* Only these fields matter to the sender's side, and to what was sent.      *)
LEMMA SendsSame ==
    ASSUME NEW u, NEW s, NEW new, Sends(u, s)',
           new.dhs = s.dhs, new.root = s.root, new.send = s.send, new.ns = s.ns, new.pn = s.pn
    PROVE  Sends(u, new)'
BY DEF Sends

(* What became of the frames stays so while more of them are read.           *)
LEMMA GetsStays ==
    ASSUME NEW u, NEW s, NEW r, NEW b, Gets(u, s, r, b), frames'[u] = frames[u],
           read[Peer(u)] \subseteq read'[Peer(u)],
           NEW new, new.send = s.send, new.ns = s.ns, new.pn = s.pn
    PROVE  Gets(u, new, r, b)'
<1>1. ASSUME NEW f, Known(u, r, f)
      PROVE  Known(u, r, f)'
  BY <1>1 DEF Known
<1>2. b /\ r.recv # Null => Full(u, r.recv, new.pn)'
  BY DEF Gets, Full
<1> QED
  BY <1>1, <1>2 DEF Gets

(* A key pair of one's own that was not there before.                        *)
LEMMA FreshPair ==
    ASSUME Typed, NEW v \in Users
    PROVE  /\ Pair(v, gen[v] + 1) \in Pairs
           /\ Pair(v, gen[v] + 1) \notin {Pair(v, k) : k \in 0..gen[v]}
           /\ Pair(v, gen[v] + 1) # SignedPrekey(v)
           /\ {Pair(v, k) : k \in 1..gen[v]} \subseteq {Pair(v, k) : k \in 0..gen[v]}
<1>1. gen[v] \in Nat
  BY DEF Typed
<1>2. \A k \in Nat : Pair(v, k) = Pair(v, gen[v] + 1) => k = gen[v] + 1
  BY DEF Pair
<1> QED
  BY <1>1, <1>2 DEF Pair, Pairs, SignedPrekey

(* A frame whose key was kept is read.                                       *)
LEMMA KeptRead ==
    ASSUME Typed, NEW u \in Users, NEW s, NEW r \in Sessions, NEW b, InStep(u, s, r, b),
           NEW f \in frames[u], \A g, h \in frames[u] : g.m.key = h.m.key => g = h,
           NEW fresh, Cached(r, f.m) = {Entry(f.m)},
           frames' = frames, NEW v \in Users, v = Peer(u), gen' = [gen EXCEPT ![v] = gen[v] + 1],
           read' = [read EXCEPT ![v] = read[v] \cup {f}]
    PROVE  InStep(u, s, Decrypting(r, f.m, fresh), b)'
<1> DEFINE new == Decrypting(r, f.m, fresh)
<1>1. /\ new.dhs = r.dhs /\ new.dhr = r.dhr /\ new.root = r.root
      /\ new.send = r.send /\ new.recv = r.recv
      /\ new.ns = r.ns /\ new.nr = r.nr /\ new.pn = r.pn
      /\ new.skipped = r.skipped \ {Entry(f.m)}
  BY DecryptingKept
<1> HIDE DEF new
<1>2. Peer(v) = u /\ u # v
  BY PeerOK
<1>3. /\ gen[u] \in Nat /\ gen'[u] = gen[u] /\ gen[v] \in Nat /\ gen'[v] = gen[v] + 1
      /\ read'[v] = read[v] \cup {f} /\ read'[u] = read[u]
  BY <1>2 DEF Typed
<1>4. Sends(u, s)'
  BY <1>3, SendsStays DEF InStep
<1>5. Sends(v, new)'
  <2>1. Sends(v, r)'
    BY <1>3, SendsStays DEF InStep
  <2> QED
    BY <2>1, <1>1, SendsSame
<1>6. Gets(v, new, s, ~b)'
  <2>1. Gets(v, r, s, ~b)
    BY DEF InStep
  <2> QED
    BY <2>1, <1>1, <1>2, <1>3, GetsStays
<1>7. Gets(u, s, new, b)'
  <2>1. ASSUME NEW g \in frames[u], Known(u, r, g)
        PROVE  Known(u, new, g)'
    <3>1. CASE Entry(g.m) = Entry(f.m)
      <4>1. g = f
        BY <3>1 DEF Entry
      <4> QED
        BY <4>1, <1>3 DEF Known
    <3>2. CASE Entry(g.m) # Entry(f.m)
      BY <2>1, <3>2, <1>1, <1>3 DEF Known
    <3> QED
      BY <3>1, <3>2
  <2>2. Gets(u, s, r, b)
    BY DEF InStep
  <2>3. b /\ new.recv # Null => Full(u, new.recv, s.pn)'
    BY <2>2, <1>1 DEF Gets, Full
  <2> QED
    BY <2>1, <2>2, <2>3, <1>1 DEF Gets
<1>8. IF b THEN Ahead(s, new) ELSE Ahead(new, s)
  BY <1>1 DEF InStep, Ahead
<1>9. InStep(u, s, new, b)'
  BY <1>4, <1>5, <1>6, <1>7, <1>8 DEF InStep
<1> QED
  BY <1>9 DEF new

(* A frame of the receiving chain is read; keys of frames before it are kept. *)
LEMMA ChainRead ==
    ASSUME Typed, NEW u \in Users, NEW s \in Sessions, NEW r \in Sessions, NEW b \in BOOLEAN,
           InStep(u, s, r, b),
           NEW f \in frames[u], \A g, h \in frames[u] : g.m.key = h.m.key => g = h,
           NEW fresh, Cached(r, f.m) = {},
           f.m.dh = r.dhr, Chain(f) = r.recv, f.m.n >= r.nr,
           b => f.m.n < s.pn, ~b => f.m.n < s.ns,
           frames' = frames, NEW v \in Users, v = Peer(u), gen' = [gen EXCEPT ![v] = gen[v] + 1],
           read' = [read EXCEPT ![v] = read[v] \cup {f}]
    PROVE  InStep(u, s, Decrypting(r, f.m, fresh), b)'
<1> DEFINE new == Decrypting(r, f.m, fresh)
           kept == {[dh |-> r.dhr, n |-> i, key |-> MessageKey(r.recv, i)] :
                      i \in r.nr..(f.m.n - 1)}
<1>1. /\ f.m \in Messages /\ f.m.n \in Nat /\ f.m.n = f.m.key.n /\ r.recv # Null
      /\ f.m.key = MessageKey(r.recv, f.m.n) /\ r.nr \in Nat /\ s.ns \in Nat /\ s.pn \in Nat
  BY FrameFields DEF InStep, Sends, Sessions
<1>2. /\ new.dhs = r.dhs /\ new.dhr = r.dhr /\ new.root = r.root
      /\ new.send = r.send /\ new.recv = r.recv
      /\ new.ns = r.ns /\ new.nr = f.m.n + 1 /\ new.pn = r.pn
      /\ new.skipped = r.skipped \cup kept
  <2>1. PICK m \in Messages : m = f.m
    BY <1>1
  <2>2. PICK n \in Nat : m.n = n
    BY <1>1, <2>1
  <2>3. /\ Cached(r, m) = {} /\ m.dh = r.dhr /\ m.key.chain = r.recv /\ m.n = m.key.n /\ n >= r.nr
    BY <1>1, <2>1, <2>2 DEF Chain
  <2> HIDE DEF kept, new
  <2>4. LET d == Decrypting(r, m, fresh)
        IN  /\ d.dhs = r.dhs /\ d.dhr = r.dhr /\ d.root = r.root
            /\ d.send = r.send /\ d.recv = r.recv
            /\ d.ns = r.ns /\ d.nr = n + 1 /\ d.pn = r.pn
            /\ d.skipped = r.skipped \cup {[dh |-> r.dhr, n |-> i, key |-> MessageKey(r.recv, i)] :
                                               i \in r.nr..(n - 1)}
    BY <2>2, <2>3, DecryptingOnChain
  <2>5. new = Decrypting(r, m, fresh) /\ f.m.n = n
    BY <2>1, <2>2 DEF new
  <2>6. kept = {[dh |-> r.dhr, n |-> i, key |-> MessageKey(r.recv, i)] : i \in r.nr..(n - 1)}
    BY <2>5 DEF kept
  <2> QED
    BY <2>4, <2>5, <2>6
<1> HIDE DEF new
<1>3. Peer(v) = u /\ u # v
  BY PeerOK
<1>4. /\ gen[u] \in Nat /\ gen'[u] = gen[u] /\ gen[v] \in Nat /\ gen'[v] = gen[v] + 1
      /\ read'[v] = read[v] \cup {f} /\ read'[u] = read[u]
  BY <1>3 DEF Typed
<1>5. Sends(u, s)'
  BY <1>4, SendsStays DEF InStep
<1>6. Sends(v, new)'
  <2>1. Sends(v, r)'
    BY <1>4, SendsStays DEF InStep
  <2> QED
    BY <2>1, <1>2, SendsSame
<1>7. Gets(v, new, s, ~b)'
  <2>1. Gets(v, r, s, ~b)
    BY DEF InStep
  <2> QED
    BY <2>1, <1>2, <1>3, <1>4, GetsStays
<1>8. Gets(u, s, r, b) /\ Sends(u, s)
  BY DEF InStep
<1>9. ASSUME NEW g \in frames[u]
      PROVE  /\ g.m.n = g.m.key.n /\ g.m.n \in Nat /\ g.m.key = MessageKey(Chain(g), g.m.n)
             /\ Chain(g) = r.recv <=> g.m.dh = r.dhr
  BY <1>8, FrameFields DEF Gets, Sends
<1>10. ASSUME NEW g \in frames[u], Known(u, r, g)
       PROVE  Known(u, new, g)'
  BY <1>10, <1>2, <1>4 DEF Known
<1>11. ASSUME NEW g \in frames[u], Chain(g) = r.recv, g.m.n < f.m.n + 1
       PROVE  Known(u, new, g)'
  <2>1. CASE g.m.n < r.nr
    BY <2>1, <1>8, <1>10, <1>11 DEF Gets
  <2>2. CASE g.m.n = f.m.n
    <3>1. g = f
      BY <2>2, <1>1, <1>9, <1>11
    <3> QED
      BY <3>1, <1>4 DEF Known
  <2>3. CASE r.nr <= g.m.n /\ g.m.n < f.m.n
    <3>1. g.m.n \in r.nr..(f.m.n - 1)
      BY <2>3, <1>1, <1>9
    <3>2. Entry(g.m) = [dh |-> r.dhr, n |-> g.m.n, key |-> MessageKey(r.recv, g.m.n)]
      BY <1>9, <1>11 DEF Entry
    <3>3. Entry(g.m) \in new.skipped
      BY <3>1, <3>2, <1>2
    <3> QED
      BY <3>3 DEF Known
  <2> QED
    BY <2>1, <2>2, <2>3, <1>1, <1>9, <1>11
<1>12. ASSUME NEW e \in new.skipped
       PROVE  \E g \in frames[u] : e = Entry(g.m)
  <2>1. CASE e \in r.skipped
    BY <2>1, <1>8 DEF Gets
  <2>2. CASE e \in kept
    <3>1. PICK i \in r.nr..(f.m.n - 1) :
             e = [dh |-> r.dhr, n |-> i, key |-> MessageKey(r.recv, i)]
      BY <2>2
    <3>2. \E g \in frames[u] : g.m.key = MessageKey(r.recv, i)
      <4>1. CASE b
        <5>1. Full(u, r.recv, s.pn) /\ i \in 0..(s.pn - 1)
          BY <4>1, <3>1, <1>1, <1>8 DEF Gets
        <5> QED
          BY <5>1 DEF Full
      <4>2. CASE ~b
        <5>1. r.recv = s.send
          BY <4>2 DEF InStep, Ahead
        <5>2. Full(u, r.recv, s.ns) /\ i \in 0..(s.ns - 1)
          BY <4>2, <5>1, <3>1, <1>1, <1>8 DEF Sends
        <5> QED
          BY <5>2 DEF Full
      <4> QED
        BY <4>1, <4>2
    <3>3. PICK g \in frames[u] : g.m.key = MessageKey(r.recv, i)
      BY <3>2
    <3>4. Chain(g) = r.recv /\ g.m.key.n = i
      BY <3>3, KeyFields DEF Chain
    <3>5. e = Entry(g.m)
      BY <3>1, <3>3, <3>4, <1>9 DEF Entry
    <3> QED
      BY <3>5
  <2> QED
    BY <2>1, <2>2, <1>2
<1> HIDE DEF kept
<1>13. Gets(u, s, new, b)'
  <2>1. b /\ new.recv # Null => Full(u, new.recv, s.pn)'
    BY <1>2, <1>8 DEF Gets, Full
  <2>2. ASSUME ~b
        PROVE  new.nr <= s.ns
    <3>1. f.m.n < s.ns /\ f.m.n \in Nat /\ s.ns \in Nat
      BY <2>2, <1>1
    <3>2. new.nr = f.m.n + 1
      BY <1>2
    <3> QED
      BY <3>1, <3>2
  <2>3. ASSUME NEW g \in frames[u]
        PROVE  /\ Chain(g) = new.recv <=> g.m.dh = new.dhr
               /\ Chain(g) = new.recv /\ g.m.n < new.nr => Known(u, new, g)'
               /\ Chain(g) = new.recv /\ b => g.m.n < s.pn
               /\ Chain(g) # new.recv => (b /\ Chain(g) = s.send) \/ Known(u, new, g)'
    BY <1>2, <1>8, <1>9, <1>10, <1>11 DEF Gets
  <2> QED
    BY <2>1, <2>2, <2>3, <1>12 DEF Gets
<1>14. IF b THEN Ahead(s, new) ELSE Ahead(new, s)
  BY <1>2 DEF InStep, Ahead
<1>15. InStep(u, s, new, b)'
  BY <1>5, <1>6, <1>7, <1>13, <1>14 DEF InStep
<1> QED
  BY <1>15 DEF new

(* A frame is read after a Diffie-Hellman step, which puts its reader ahead. *)
LEMMA TurnRead ==
    ASSUME Typed, NEW u \in Users, NEW s \in Sessions, NEW r \in Sessions, Well(r),
           InStep(u, s, r, TRUE),
           NEW f \in frames[u], \A g, h \in frames[u] : g.m.key = h.m.key => g = h,
           Cached(r, f.m) = {}, f.m.dh # r.dhr, f.m.dh = s.dhs, f.m.pn = s.pn, f.m.n < s.ns,
           Chain(f) = s.send,
           frames' = frames, NEW v \in Users, v = Peer(u), gen' = [gen EXCEPT ![v] = gen[v] + 1],
           read' = [read EXCEPT ![v] = read[v] \cup {f}],
           NEW fresh, fresh = Pair(v, gen[v] + 1)
    PROVE  InStep(u, s, Decrypting(r, f.m, fresh), FALSE)'
<1> DEFINE new == Decrypting(r, f.m, fresh)
           old == {[dh |-> r.dhr, n |-> i, key |-> MessageKey(r.recv, i)] : i \in r.nr..(s.pn - 1)}
           kept == {[dh |-> s.dhs, n |-> i, key |-> MessageKey(s.send, i)] : i \in 0..(f.m.n - 1)}
<1>1. /\ f.m \in Messages /\ f.m.n \in Nat /\ f.m.n = f.m.key.n /\ f.m.key.chain = s.send
      /\ f.m.key = MessageKey(s.send, f.m.n) /\ r.nr \in Nat /\ s.ns \in Nat /\ s.pn \in Nat
  BY FrameFields DEF InStep, Sends, Sessions, Chain
<1>2. /\ Ahead(s, r) /\ Sends(u, s) /\ Gets(u, s, r, TRUE) /\ Sends(v, r) /\ Gets(v, r, s, FALSE)
  BY DEF InStep
<1>3. /\ Len(r.root) \in Nat /\ Len(s.root) = Len(r.root) + 1 /\ s.send = s.root
      /\ s.send # r.recv /\ s.send = KdfRk(r.root, r.dhs, s.dhs)
  BY <1>2, AheadShape
<1>4. fresh \in Pairs /\ fresh \notin {Pair(v, k) : k \in 0..gen[v]}
  BY FreshPair
<1>5. /\ new.dhs = fresh /\ new.dhr = s.dhs /\ new.recv = s.send
      /\ new.root = KdfRk(s.send, fresh, s.dhs) /\ new.send = new.root
      /\ new.ns = 0 /\ new.nr = f.m.n + 1 /\ new.pn = r.ns
      /\ new.skipped = Skip(r, s.pn).skipped \cup kept
  <2>1. PICK m \in Messages : m = f.m
    BY <1>1
  <2>2. PICK n \in Nat : m.n = n
    BY <1>1, <2>1
  <2>3. PICK pn \in Nat : m.pn = pn
    BY <1>1, <2>1
  <2>4. /\ Cached(r, m) = {} /\ m.dh = s.dhs /\ m.dh # r.dhr /\ m.key.chain = s.send
        /\ m.key.chain = KdfRk(r.root, r.dhs, m.dh) /\ m.n = m.key.n /\ pn = s.pn
    BY <1>1, <1>3, <2>1, <2>2, <2>3
  <2> HIDE DEF kept, new, old
  <2>5. LET d == Decrypting(r, m, fresh)
        IN  /\ d.dhs = fresh /\ d.dhr = m.dh /\ d.recv = m.key.chain
            /\ d.root = KdfRk(d.recv, fresh, m.dh) /\ d.send = d.root
            /\ d.ns = 0 /\ d.nr = n + 1 /\ d.pn = r.ns
            /\ d.skipped = Skip(r, pn).skipped
                           \cup {[dh |-> m.dh, n |-> i, key |-> MessageKey(m.key.chain, i)] :
                                    i \in 0..(n - 1)}
    BY <1>4, <2>2, <2>3, <2>4, DecryptingTurned
  <2>6. new = Decrypting(r, m, fresh) /\ f.m.n = n
    BY <2>1, <2>2 DEF new
  <2>7. kept = {[dh |-> m.dh, n |-> i, key |-> MessageKey(m.key.chain, i)] : i \in 0..(n - 1)}
    BY <2>4, <2>6 DEF kept
  <2> QED
    BY <2>4, <2>5, <2>6, <2>7
<1>6. /\ r.recv = Null => new.skipped = r.skipped \cup kept
      /\ r.recv # Null => new.skipped = (r.skipped \cup old) \cup kept
  BY <1>1, <1>5, Skipping DEF Skip
<1> HIDE DEF new, kept
<1>7. Peer(v) = u /\ u # v
  BY PeerOK
<1>8. /\ gen[u] \in Nat /\ gen'[u] = gen[u] /\ gen[v] \in Nat /\ gen'[v] = gen[v] + 1
      /\ read'[v] = read[v] \cup {f} /\ read'[u] = read[u]
  BY <1>7 DEF Typed
<1>9. new.root \in Chains /\ Len(new.root) = Len(s.root) + 1 /\ new.send # Null
  <2>1. s.send \in Chains /\ s.dhs \in Pairs
    BY <1>3 DEF Sessions
  <2>2. new.root \in Chains /\ Len(new.root) = Len(s.root) + 1
    BY <2>1, <1>3, <1>4, <1>5, KdfRkLonger
  <2> QED
    BY <2>2, <1>5, SessionAssumption
<1>10. Sends(u, s)'
  BY <1>2, <1>8, SendsStays
<1>11. Sends(v, new)'
  <2>1. Sends(v, r)'
    BY <1>2, <1>8, SendsStays
  <2>2. ASSUME NEW g \in frames[v]
        PROVE  /\ Len(Chain(g)) <= Len(new.root) /\ Chain(g) # new.send /\ g.m.dh # new.dhs
    <3>1. Len(Chain(g)) <= Len(r.root) /\ Len(Chain(g)) \in Nat
      BY <1>2, FrameFields DEF Sends
    <3>2. g.m.dh \in {Pair(v, k) : k \in 0..gen[v]}
      BY <1>2, FreshPair DEF Sends
    <3> QED
      BY <3>1, <3>2, <1>3, <1>4, <1>5, <1>9
  <2>3. Full(v, new.send, new.ns)'
    BY <1>5 DEF Full
  <2>4. new.dhs \in {Pair(v, k) : k \in 0..gen'[v]} /\ new.dhs # SignedPrekey(v)
    BY <1>5, <1>8, FreshPair
  <2> QED
    BY <2>1, <2>2, <2>3, <2>4 DEF Sends
<1>12. Gets(v, new, s, TRUE)'
  <2>1. s.recv = r.send /\ s.dhr = r.dhs
    BY <1>2 DEF Ahead
  <2>2. Full(v, s.recv, new.pn)'
    BY <2>1, <1>2, <1>5 DEF Sends, Full
  <2>3. ASSUME NEW g \in frames[v]
        PROVE  /\ Chain(g) = s.recv <=> g.m.dh = s.dhr
               /\ Chain(g) = s.recv /\ g.m.n < s.nr => Known(v, s, g)'
               /\ Chain(g) = s.recv => g.m.n < new.pn
               /\ Chain(g) # s.recv => Known(v, s, g)'
    <3>1. Known(v, s, g) => Known(v, s, g)'
      BY <1>7, <1>8 DEF Known
    <3>2. Chain(g) = s.recv => g.m.n < new.pn
      BY <2>1, <1>2, <1>5 DEF Sends
    <3> QED
      BY <3>1, <3>2, <1>2 DEF Gets
  <2>4. \A e \in s.skipped : \E g \in frames'[v] : e = Entry(g.m)
    BY <1>2 DEF Gets
  <2> QED
    BY <2>2, <2>3, <2>4 DEF Gets
<1>13. ASSUME NEW g \in frames[u]
       PROVE  /\ g.m.n = g.m.key.n /\ g.m.n \in Nat /\ g.m.key = MessageKey(Chain(g), g.m.n)
              /\ Chain(g) = r.recv <=> g.m.dh = r.dhr
              /\ Chain(g) = s.send <=> g.m.dh = s.dhs
              /\ Chain(g) # Null
  BY <1>2, FrameFields DEF Gets, Sends
<1>14. ASSUME NEW g \in frames[u], Chain(g) = s.send, g.m.n < f.m.n + 1
       PROVE  Known(u, new, g)'
  <2>1. CASE g.m.n = f.m.n
    <3>1. g = f
      BY <2>1, <1>1, <1>13, <1>14
    <3> QED
      BY <3>1, <1>8 DEF Known
  <2>2. CASE g.m.n < f.m.n
    <3>1. g.m.n \in 0..(f.m.n - 1)
      BY <2>2, <1>1, <1>13
    <3>2. Entry(g.m) = [dh |-> s.dhs, n |-> g.m.n, key |-> MessageKey(s.send, g.m.n)]
      BY <1>13, <1>14 DEF Entry
    <3>3. Entry(g.m) \in new.skipped
      BY <3>1, <3>2, <1>5 DEF kept
    <3> QED
      BY <3>3 DEF Known
  <2> QED
    BY <2>1, <2>2, <1>1, <1>13, <1>14
<1>15. ASSUME NEW g \in frames[u], Chain(g) # s.send
       PROVE  Known(u, new, g)'
  <2>1. CASE Known(u, r, g)
    <3>1. r.skipped \subseteq new.skipped
      BY <1>6
    <3> QED
      BY <2>1, <3>1, <1>8 DEF Known
  <2>2. CASE ~Known(u, r, g)
    <3>1. Chain(g) = r.recv /\ ~(g.m.n < r.nr) /\ g.m.n < s.pn
      BY <2>2, <1>2, <1>15 DEF Gets
    <3>2. g.m.n \in r.nr..(s.pn - 1) /\ r.recv # Null
      BY <3>1, <1>1, <1>13
    <3>3. Entry(g.m) = [dh |-> r.dhr, n |-> g.m.n, key |-> MessageKey(r.recv, g.m.n)]
      BY <3>1, <1>13 DEF Entry
    <3>4. Entry(g.m) \in new.skipped
      BY <3>2, <3>3, <1>6
    <3> QED
      BY <3>4 DEF Known
  <2> QED
    BY <2>1, <2>2
<1>16. ASSUME NEW e \in new.skipped
       PROVE  \E g \in frames[u] : e = Entry(g.m)
  <2>1. CASE e \in r.skipped
    BY <2>1, <1>2 DEF Gets
  <2>2. CASE r.recv # Null /\ e \in old
    <3>1. PICK i \in r.nr..(s.pn - 1) :
             e = [dh |-> r.dhr, n |-> i, key |-> MessageKey(r.recv, i)]
      BY <2>2
    <3>2. Full(u, r.recv, s.pn) /\ i \in 0..(s.pn - 1)
      BY <2>2, <1>1, <1>2 DEF Gets
    <3>3. PICK g \in frames[u] : g.m.key = MessageKey(r.recv, i)
      BY <3>2 DEF Full
    <3>4. Chain(g) = r.recv /\ g.m.key.n = i
      BY <3>3, KeyFields DEF Chain
    <3>5. e = Entry(g.m)
      BY <3>1, <3>3, <3>4, <1>13 DEF Entry
    <3> QED
      BY <3>5
  <2>3. CASE e \in kept
    <3>1. PICK i \in 0..(f.m.n - 1) :
             e = [dh |-> s.dhs, n |-> i, key |-> MessageKey(s.send, i)]
      BY <2>3 DEF kept
    <3>2. Full(u, s.send, s.ns) /\ i \in 0..(s.ns - 1)
      BY <1>1, <1>2 DEF Sends
    <3>3. PICK g \in frames[u] : g.m.key = MessageKey(s.send, i)
      BY <3>2 DEF Full
    <3>4. Chain(g) = s.send /\ g.m.key.n = i
      BY <3>3, KeyFields DEF Chain
    <3>5. e = Entry(g.m)
      BY <3>1, <3>3, <3>4, <1>13 DEF Entry
    <3> QED
      BY <3>5
  <2> QED
    BY <2>1, <2>2, <2>3, <1>6
<1> HIDE DEF old
<1>17. Gets(u, s, new, FALSE)'
  <2>1. new.nr <= s.ns
    <3>1. f.m.n < s.ns /\ f.m.n \in Nat /\ s.ns \in Nat
      BY <1>1
    <3>2. new.nr = f.m.n + 1
      BY <1>5
    <3> QED
      BY <3>1, <3>2
  <2> QED
    BY <2>1, <1>5, <1>13, <1>14, <1>15, <1>16 DEF Gets
<1>18. Ahead(new, s)
  <2>1. new.root = KdfRk(s.root, new.dhs, s.dhs)
    BY <1>3, <1>5
  <2>2. new.dhs # s.dhr
    <3>1. s.dhr \in {Pair(v, k) : k \in 0..gen[v]}
      BY <1>2 DEF Ahead, Sends
    <3> QED
      BY <3>1, <1>4, <1>5
  <2> QED
    BY <2>1, <2>2, <1>5 DEF Ahead
<1>19. InStep(u, s, new, FALSE)'
  BY <1>10, <1>11, <1>12, <1>17, <1>18 DEF InStep
<1> QED
  BY <1>19 DEF new

(* Whatever the way, the two are in step after a frame is read.              *)
LEMMA ReadStep ==
    ASSUME Typed, NEW u \in Users, NEW s \in Sessions, NEW r \in Sessions, Well(r), Well(s),
           NEW b \in BOOLEAN, InStep(u, s, r, b),
           NEW f \in frames[u], \A g, h \in frames[u] : g.m.key = h.m.key => g = h,
           NEW v \in Users, v = Peer(u), f \notin read[v],
           NEW fresh, fresh = Pair(v, gen[v] + 1),
           frames' = frames, gen' = [gen EXCEPT ![v] = gen[v] + 1],
           read' = [read EXCEPT ![v] = read[v] \cup {f}]
    PROVE  \/ InStep(u, s, Decrypting(r, f.m, fresh), TRUE)'
           \/ InStep(u, s, Decrypting(r, f.m, fresh), FALSE)'
<1>1. \E c \in BOOLEAN : InStep(u, s, Decrypting(r, f.m, fresh), c)'
  <2>1. CASE Cached(r, f.m) = {Entry(f.m)}
    BY <2>1, KeptRead
  <2>2. CASE /\ Cached(r, f.m) = {}
             /\ f.m.dh = r.dhr /\ Chain(f) = r.recv /\ f.m.n >= r.nr
             /\ b => f.m.n < s.pn
             /\ ~b => f.m.n < s.ns
    BY <2>2, ChainRead
  <2>3. CASE /\ Cached(r, f.m) = {}
             /\ b /\ f.m.dh # r.dhr /\ f.m.dh = s.dhs /\ f.m.pn = s.pn /\ f.m.n < s.ns
             /\ Chain(f) = s.send /\ Chain(f) = KdfRk(r.root, r.dhs, f.m.dh)
    <3>1. InStep(u, s, r, TRUE)
      BY <2>3
    <3> QED
      BY <2>3, <3>1, TurnRead
  <2> QED
    BY <2>1, <2>2, <2>3, Readable
<1>2. PICK c \in BOOLEAN : InStep(u, s, Decrypting(r, f.m, fresh), c)'
  BY <1>1
<1>3. c = TRUE \/ c = FALSE
  OBVIOUS
<1> QED
  BY <1>2, <1>3

-----------------------------------------------------------------------------

(* The next frame of a sending chain.                                        *)
LEMMA SendStep ==
    ASSUME Typed, NEW u \in Users, NEW s \in Sessions, Stored(s), NEW r \in Sessions, Well(r),
           NEW b \in BOOLEAN, InStep(u, s, r, b),
           NEW fr, fr.m = Encrypted(s), \A g \in frames[u] : g.id < fr.id,
           frames' = [frames EXCEPT ![u] = frames[u] \cup {fr}], gen' = gen, read' = read
    PROVE  InStep(u, Encrypting(s), r, b)'
<1> DEFINE new == Encrypting(s)
           v == Peer(u)
<1>1. /\ fr.m.dh = s.dhs /\ fr.m.pn = s.pn /\ fr.m.n = s.ns
      /\ fr.m.key = MessageKey(s.send, s.ns)
  BY DEF Encrypted
<1>2. Chain(fr) = s.send /\ fr.m.key.n = s.ns
  BY <1>1, KeyFields DEF Chain
<1>3. /\ s.ns \in Nat /\ s.pn \in Nat /\ s.root \in Chains /\ s.send = s.root /\ s.send # Null
      /\ r.nr \in Nat /\ r.ns \in Nat /\ Len(s.root) \in Nat
  BY ChainLength, SessionAssumption DEF Stored, Sessions
<1>4. /\ new.dhs = s.dhs /\ new.dhr = s.dhr /\ new.root = s.root /\ new.send = s.send
      /\ new.recv = s.recv /\ new.ns = s.ns + 1 /\ new.nr = s.nr /\ new.pn = s.pn
      /\ new.skipped = s.skipped
  <2>1. s = [dhs |-> s.dhs, dhr |-> s.dhr, root |-> s.root, send |-> s.send, recv |-> s.recv,
             ns |-> s.ns, nr |-> s.nr, pn |-> s.pn, skipped |-> s.skipped]
    BY DEF Sessions
  <2> QED
    BY <2>1 DEF Encrypting
<1> HIDE DEF new
<1>5. v \in Users /\ v # u /\ Peer(v) = u
  BY PeerOK
<1> HIDE DEF v
<1>6. frames'[u] = frames[u] \cup {fr} /\ frames'[v] = frames[v]
  BY <1>5 DEF Typed
<1>7. Sends(u, s) /\ Gets(u, s, r, b) /\ Sends(v, r) /\ Gets(v, r, s, ~b)
  BY DEF InStep, v
<1>8. gen[u] \in Nat /\ gen[v] \in Nat
  BY <1>5 DEF Typed
<1>9. ASSUME NEW g \in frames[u]
      PROVE  /\ g.m.n \in Nat /\ g.id < fr.id /\ Len(Chain(g)) \in Nat /\ g.id \in Nat
             /\ Len(Chain(g)) <= Len(s.root)
             /\ Chain(g) = s.send => g.m.n < s.ns
             /\ Chain(g) = s.send <=> g.m.dh = s.dhs
  BY <1>7, FrameFields DEF Sends
<1>10. Sends(u, new)'
  <2>1. s.dhs \in {Pair(u, k) : k \in 1..gen[u]}
    <3>1. PICK k \in 0..gen[u] : s.dhs = Pair(u, k)
      BY <1>7 DEF Sends
    <3>2. k # 0
      BY <3>1, <1>3, <1>7 DEF Sends, SignedPrekey
    <3> QED
      BY <3>1, <3>2, <1>8
  <2>2. Full(u, new.send, new.ns)'
    <3>1. ASSUME NEW i \in 0..(new.ns - 1)
          PROVE  \E g \in frames'[u] : g.m.key = MessageKey(s.send, i)
      <4>1. CASE i = s.ns
        BY <4>1, <1>1, <1>6
      <4>2. CASE i # s.ns
        <5>1. i \in 0..(s.ns - 1)
          BY <4>2, <1>3, <1>4
        <5> QED
          BY <5>1, <1>6, <1>7 DEF Sends, Full
      <4> QED
        BY <4>1, <4>2
    <3> QED
      BY <3>1, <1>4 DEF Full
  <2>3. ASSUME NEW f \in frames[u], NEW g \in frames[u]
        PROVE  /\ Chain(g) = Chain(f) <=> g.m.dh = f.m.dh
               /\ Chain(g) = Chain(f) /\ g.m.n < f.m.n => g.id < f.id
               /\ Len(Chain(g)) < Len(Chain(f)) => g.id < f.id
    BY <1>7 DEF Sends
  <2>4. ASSUME NEW f \in frames'[u]
        PROVE  /\ f.m.n = f.m.key.n /\ f.m.dh \in {Pair(u, k) : k \in 1..gen[u]}
               /\ Len(Chain(f)) <= Len(new.root)
               /\ Chain(f) = new.send <=> f.m.dh = new.dhs
               /\ Chain(f) = new.send => f.m.pn = new.pn /\ f.m.n < new.ns
    <3>1. CASE f \in frames[u]
      <4>1. /\ f.m.n = f.m.key.n /\ f.m.dh \in {Pair(u, k) : k \in 1..gen[u]}
            /\ Chain(f) = s.send => f.m.pn = s.pn /\ f.m.n < s.ns
        BY <3>1, <1>7 DEF Sends
      <4>2. f.m.n \in Nat /\ f.m.n < s.ns => f.m.n < new.ns
        BY <1>3, <1>4
      <4> QED
        BY <3>1, <4>1, <4>2, <1>4, <1>9
    <3>2. CASE f = fr
      <4>1. s.ns < new.ns /\ Len(s.root) <= Len(s.root)
        BY <1>3, <1>4
      <4> QED
        BY <3>2, <4>1, <2>1, <1>1, <1>2, <1>3, <1>4
    <3> QED
      BY <3>1, <3>2, <1>6
  <2>5. ASSUME NEW f \in frames'[u], NEW g \in frames'[u]
        PROVE  /\ Chain(g) = Chain(f) <=> g.m.dh = f.m.dh
               /\ Chain(g) = Chain(f) /\ g.m.n < f.m.n => g.id < f.id
               /\ Len(Chain(g)) < Len(Chain(f)) => g.id < f.id
    <3>1. CASE f \in frames[u] /\ g \in frames[u]
      BY <3>1, <2>3
    <3>2. CASE f = fr /\ g \in frames[u]
      BY <3>2, <1>1, <1>2, <1>9
    <3>3. CASE f \in frames[u] /\ g = fr
      <4>1. Chain(g) = Chain(f) <=> g.m.dh = f.m.dh
        BY <3>3, <1>1, <1>2, <1>9
      <4>2. ~(Chain(g) = Chain(f) /\ g.m.n < f.m.n)
        BY <3>3, <1>1, <1>2, <1>3, <1>9
      <4>3. ~(Len(Chain(g)) < Len(Chain(f)))
        BY <3>3, <1>2, <1>3, <1>9
      <4> QED
        BY <4>1, <4>2, <4>3
    <3>4. CASE f = fr /\ g = fr
      BY <3>4, <1>1, <1>2, <1>3
    <3> QED
      BY <3>1, <3>2, <3>3, <3>4, <1>6
  <2>6. new.dhs \in {Pair(u, k) : k \in 0..gen[u]} /\ new.dhs # SignedPrekey(u)
    BY <1>3, <1>4, <1>7 DEF Sends
  <2> QED
    BY <2>2, <2>4, <2>5, <2>6 DEF Sends
<1>11. Sends(v, r)'
  BY <1>5, <1>6, <1>7, <1>8, SendsStays
<1>12. Gets(v, r, new, ~b)'
  <2>1. Gets(v, r, s, ~b)'
    BY <1>5, <1>6, <1>7, GetsStays
  <2> QED
    BY <2>1, <1>4 DEF Gets, Known
<1>13. Gets(u, new, r, b)'
  <2>1. /\ Chain(fr) = r.recv <=> fr.m.dh = r.dhr
        /\ Chain(fr) = r.recv => ~b /\ ~(fr.m.n < r.nr)
        /\ Chain(fr) # r.recv => b
    <3>1. CASE b
      <4>1. Ahead(s, r)
        BY <3>1 DEF InStep
      <4>2. s.send # r.recv /\ s.dhs # r.dhr
        BY <4>1, AheadShape DEF Ahead
      <4> QED
        BY <3>1, <4>2, <1>1, <1>2
    <3>2. CASE ~b
      <4>1. Ahead(r, s)
        BY <3>2 DEF InStep
      <4>2. s.send = r.recv /\ s.dhs = r.dhr
        BY <4>1 DEF Ahead
      <4>3. ~(s.ns < r.nr)
        BY <3>2, <1>3, <1>7 DEF Gets
      <4> QED
        BY <3>2, <4>2, <4>3, <1>1, <1>2
    <3> QED
      BY <3>1, <3>2
  <2>2. ASSUME NEW f \in frames'[u]
        PROVE  /\ Chain(f) = r.recv <=> f.m.dh = r.dhr
               /\ Chain(f) = r.recv /\ f.m.n < r.nr => Known(u, r, f)'
               /\ Chain(f) = r.recv /\ b => f.m.n < new.pn
               /\ Chain(f) # r.recv => (b /\ Chain(f) = new.send) \/ Known(u, r, f)'
    <3>1. CASE f \in frames[u]
      <4>1. Known(u, r, f) => Known(u, r, f)'
        BY DEF Known
      <4> QED
        BY <3>1, <4>1, <1>4, <1>7 DEF Gets
    <3>2. CASE f = fr
      BY <3>2, <2>1, <1>2, <1>4
    <3> QED
      BY <3>1, <3>2, <1>6
  <2>3. \A e \in r.skipped : \E f \in frames'[u] : e = Entry(f.m)
    BY <1>6, <1>7 DEF Gets
  <2>4. b /\ r.recv # Null => Full(u, r.recv, new.pn)'
    BY <1>4, <1>6, <1>7 DEF Gets, Full
  <2>5. ASSUME ~b
        PROVE  r.nr <= new.ns
    <3>1. r.nr <= s.ns
      BY <2>5, <1>7 DEF Gets
    <3> QED
      BY <3>1, <1>3, <1>4
  <2> QED
    BY <2>2, <2>3, <2>4, <2>5 DEF Gets
<1>14. IF b THEN Ahead(new, r) ELSE Ahead(r, new)
  BY <1>4 DEF InStep, Ahead
<1>15. InStep(u, new, r, b)'
  BY <1>10, <1>11, <1>12, <1>13, <1>14 DEF InStep, v
<1> QED
  BY <1>15 DEF new

(* The first frame of a conversation.                                        *)
LEMMA FirstStep ==
    ASSUME Typed, NEW u \in Users, frames[u] = {}, frames[Peer(u)] = {},
           NEW eph, eph = Pair(u, gen[u] + 1), NEW fresh, fresh = Pair(u, gen[u] + 2),
           NEW s, s = InitAsInitiator(Secret(eph, Peer(u)), fresh, SignedPrekey(Peer(u))),
           NEW fr, fr.m = Encrypted(s),
           frames' = [frames EXCEPT ![u] = frames[u] \cup {fr}],
           gen' = [gen EXCEPT ![u] = gen[u] + 2]
    PROVE  InStep(u, Encrypting(s), InitAsResponder(Secret(eph, Peer(u)), SignedPrekey(Peer(u))),
                  TRUE)'
<1> DEFINE v == Peer(u)
           secret == Secret(eph, v)
           root == KdfRk(secret, fresh, SignedPrekey(v))
           new == Encrypting(s)
           r == InitAsResponder(secret, SignedPrekey(v))
<1>1. v \in Users /\ v # u /\ Peer(v) = u
  BY PeerOK
<1>2. gen[u] \in Nat /\ gen'[u] = gen[u] + 2 /\ gen[v] \in Nat /\ gen'[v] = gen[v]
  BY <1>1 DEF Typed
<1>3. Stored(s)
  BY <1>1, <1>2, InitiatorStored
<1>4. /\ s.dhs = fresh /\ s.dhr = SignedPrekey(v) /\ s.root = root /\ s.send = root
      /\ s.recv = Null /\ s.ns = 0 /\ s.nr = 0 /\ s.pn = 0 /\ s.skipped = {}
  BY DEF InitAsInitiator
<1>5. root \in Chains /\ Len(root) \in Nat /\ root # Null
  <2>1. s.root \in Chains
    BY <1>3 DEF Stored, Sessions
  <2> QED
    BY <2>1, <1>4, ChainLength, SessionAssumption
<1>6. /\ new.dhs = fresh /\ new.dhr = SignedPrekey(v) /\ new.root = root /\ new.send = root
      /\ new.recv = Null /\ new.ns = 1 /\ new.nr = 0 /\ new.pn = 0 /\ new.skipped = {}
  BY DEF InitAsInitiator, Encrypting
<1>7. /\ r.dhs = SignedPrekey(v) /\ r.dhr = Null /\ r.root = secret /\ r.send = Null
      /\ r.recv = Null /\ r.ns = 0 /\ r.nr = 0 /\ r.pn = 0 /\ r.skipped = {}
  BY DEF InitAsResponder
<1>8. /\ fr.m.dh = fresh /\ fr.m.pn = 0 /\ fr.m.n = 0 /\ fr.m.key = MessageKey(root, 0)
  BY <1>4 DEF Encrypted
<1>9. Chain(fr) = root /\ fr.m.key.n = 0
  BY <1>8, KeyFields DEF Chain
<1>10. frames'[u] = {fr} /\ frames'[v] = {}
  BY <1>1 DEF Typed
<1>11. fresh \in {Pair(u, k) : k \in 1..gen'[u]} /\ fresh \in {Pair(u, k) : k \in 0..gen'[u]}
  BY <1>2
<1>12. fresh # SignedPrekey(u) /\ fresh \in Pairs /\ fresh # Null
  <2>1. fresh \in Pairs /\ fresh # SignedPrekey(u)
    BY <1>2 DEF Pair, Pairs, SignedPrekey
  <2> QED
    BY <2>1, SessionAssumption
<1>13. SignedPrekey(v) \in {Pair(v, k) : k \in 0..gen'[v]}
  BY <1>2 DEF SignedPrekey
<1> HIDE DEF root, new, r, v, secret
<1>14. Sends(u, new)'
  <2>1. Full(u, new.send, new.ns)'
    BY <1>6, <1>8, <1>10 DEF Full
  <2> QED
    BY <2>1, <1>5, <1>6, <1>8, <1>9, <1>10, <1>11, <1>12 DEF Sends
<1>15. Sends(v, r)'
  <2>1. Full(v, r.send, r.ns)'
    BY <1>7 DEF Full
  <2> QED
    BY <2>1, <1>7, <1>10, <1>13 DEF Sends
<1>16. Gets(u, new, r, TRUE)'
  BY <1>5, <1>6, <1>7, <1>8, <1>9, <1>10, <1>12 DEF Gets
<1>17. Gets(v, r, new, FALSE)'
  BY <1>6, <1>7, <1>10 DEF Gets
<1>18. Ahead(new, r)
  <2>1. new.root = KdfRk(r.root, new.dhs, r.dhs)
    BY <1>6, <1>7 DEF root
  <2> QED
    BY <2>1, <1>6, <1>7, <1>12 DEF Ahead
<1>19. InStep(u, new, r, TRUE)'
  BY <1>14, <1>15, <1>16, <1>17, <1>18 DEF InStep, v
<1> QED
  BY <1>19 DEF new, r, secret, v

-----------------------------------------------------------------------------

(* The frames in hand afterwards.                                            *)
LEMMA OpenedSame ==
    ASSUME NEW u, \A t \in Tasks : /\ work'[u][t].op = "open" <=> work[u][t].op = "open"
                                   /\ work'[u][t].op = "open" => work'[u][t] = work[u][t]
    PROVE  Opened(u)' = Opened(u)
<1>1. ASSUME NEW f
      PROVE  f \in Opened(u)' <=> f \in Opened(u)
  BY OpenedFrames, OpenedFramesNext
<1> QED
  BY <1>1

(* One operation in hand changes.                                            *)
LEMMA OpenedSet ==
    ASSUME Typed, NEW u \in Users, NEW t \in Tasks, NEW x, work' = [work EXCEPT ![u][t] = x]
    PROVE  /\ \A v \in Users : v # u => Opened(v)' = Opened(v)
           /\ x.op # "open" => Opened(u)' \subseteq Opened(u)
           /\ x.op # "open" /\ work[u][t].op # "open" => Opened(u)' = Opened(u)
           /\ x.op = "open" => Opened(u)' \subseteq Opened(u) \cup {x.frame}
<1>1. /\ work'[u][t] = x
      /\ \A v \in Users : \A r \in Tasks : v # u \/ r # t => work'[v][r] = work[v][r]
  <2>1. work \in [Users -> [Tasks -> Ops]]
    BY DEF Typed
  <2> QED
    BY <2>1
<1>2. ASSUME NEW v \in Users, v # u
      PROVE  Opened(v)' = Opened(v)
  BY <1>1, <1>2, OpenedSame
<1>3. ASSUME x.op # "open", NEW f \in Opened(u)'
      PROVE  f \in Opened(u)
  BY <1>1, <1>3, OpenedFrames, OpenedFramesNext
<1>4. ASSUME x.op # "open", work[u][t].op # "open"
      PROVE  Opened(u)' = Opened(u)
  BY <1>1, <1>4, OpenedSame
<1>5. ASSUME x.op = "open", NEW f \in Opened(u)'
      PROVE  f \in Opened(u) \cup {x.frame}
  BY <1>1, <1>5, OpenedFrames, OpenedFramesNext
<1> QED
  BY <1>2, <1>3, <1>4, <1>5

(* What a step does to the frames on their way to a user.                    *)
MailMoves(w) ==
    \/ mailbox'[w] = mailbox[w] /\ Opened(w)' \subseteq Opened(w)
    \/ \E f \in frames'[Peer(w)] :
          /\ f.id = Cardinality(frames[Peer(w)]) + 1
          /\ mailbox'[w] = mailbox[w] \cup {f} /\ Opened(w)' = Opened(w)
    \/ \E f \in mailbox[w] :
          /\ \A g \in mailbox[w] : f.id <= g.id
          /\ mailbox'[w] = mailbox[w] \ {f} /\ Opened(w)' \subseteq Opened(w) \cup {f}
    \/ mailbox'[w] \subseteq mailbox[w] \cup read[w] \cup unread[w] /\ Opened(w)' = Opened(w)
    \/ mailbox'[w] \subseteq mailbox[w] \cup Opened(w) /\ Opened(w)' = {}

(* What a step leaves as it was, and what it adds to.                        *)
ReadMoves(w) ==
    /\ read[w] \subseteq read'[w] /\ unread[w] \subseteq unread'[w]
    /\ read'[w] \cup unread'[w] \subseteq read[w] \cup unread[w] \cup Opened(w)
    /\ missed[w] \subseteq missed'[w]
FramesMove(w) ==
    \/ frames'[w] = frames[w]
    \/ \E f : f.id = Cardinality(frames[w]) + 1 /\ frames'[w] = frames[w] \cup {f}
Moves == /\ \A w \in Users : MailMoves(w) /\ ReadMoves(w) /\ FramesMove(w)
         /\ overlapped \subseteq overlapped' /\ cut \subseteq cut'

(* Action by action.                                                         *)
LEMMA StartSendMoves ==
    ASSUME Typed, NEW u \in Users, NEW t \in Tasks, StartSend(u, t)
    PROVE  Moves
<1> DEFINE x == [op |-> "send", base |-> saved[u]]
<1>1. /\ work[u][t] = Idle /\ work' = [work EXCEPT ![u][t] = x] /\ Started(u)
      /\ UNCHANGED <<saved, mailbox, gen, frames, read, reread, unread, missed, cut>>
  BY DEF StartSend
<1>2. x.op # "open" /\ work[u][t].op # "open"
  BY <1>1 DEF Idle
<1> HIDE DEF x
<1>3. \A w \in Users : Opened(w)' = Opened(w)
  BY <1>1, <1>2, OpenedSet
<1>4. overlapped \subseteq overlapped'
  BY <1>1, StartedAlone
<1> QED
  BY <1>1, <1>3, <1>4 DEF Moves, MailMoves, ReadMoves, FramesMove

LEMMA SaveMoves ==
    ASSUME Typed, NEW u \in Users, NEW t \in Tasks, FinishSend(u, t) \/ FailSend(u, t)
    PROVE  Moves
<1>1. /\ work[u][t].op = "save" /\ work' = [work EXCEPT ![u][t] = Idle]
      /\ UNCHANGED <<mailbox, frames, read, reread, unread, missed, overlapped>>
      /\ cut \subseteq cut'
  BY DEF FinishSend, FailSend
<1>2. Idle.op # "open" /\ work[u][t].op # "open"
  BY <1>1 DEF Idle
<1>3. \A w \in Users : Opened(w)' = Opened(w)
  BY <1>1, <1>2, OpenedSet
<1> QED
  BY <1>1, <1>3 DEF Moves, MailMoves, ReadMoves, FramesMove

LEMMA ArriveMoves ==
    ASSUME Typed, NEW u \in Users, NEW t \in Tasks, Arrive(u, t)
    PROVE  Moves
<1>1. PICK frame \in mailbox[u] :
         /\ work[u][t] = Idle
         /\ \A other \in mailbox[u] : frame.id <= other.id
         /\ mailbox' = [mailbox EXCEPT ![u] = mailbox[u] \ {frame}]
         /\ work' = [work EXCEPT ![u][t] = [op |-> "open", base |-> saved[u], frame |-> frame]]
         /\ Started(u)
         /\ UNCHANGED <<saved, gen, frames, read, reread, unread, missed, cut>>
  BY DEF Arrive
<1> DEFINE x == [op |-> "open", base |-> saved[u], frame |-> frame]
<1>2. x.op = "open" /\ x.frame = frame /\ work' = [work EXCEPT ![u][t] = x]
  BY <1>1
<1> HIDE DEF x
<1>3. /\ \A w \in Users : w # u => Opened(w)' = Opened(w)
      /\ Opened(u)' \subseteq Opened(u) \cup {frame}
  BY <1>2, OpenedSet
<1>4. overlapped \subseteq overlapped'
  BY <1>1, StartedAlone
<1>5. /\ mailbox'[u] = mailbox[u] \ {frame}
      /\ \A w \in Users : w # u => mailbox'[w] = mailbox[w]
  BY <1>1 DEF Typed
<1>6. ASSUME NEW w \in Users
      PROVE  MailMoves(w)
  <2>1. CASE w = u
    BY <2>1, <1>1, <1>3, <1>5 DEF MailMoves
  <2>2. CASE w # u
    BY <2>2, <1>3, <1>5 DEF MailMoves
  <2> QED
    BY <2>1, <2>2
<1> QED
  BY <1>1, <1>4, <1>6 DEF Moves, ReadMoves, FramesMove

(* A frame of a transmission, as it is.                                      *)
LEMMA TransmitFields ==
    ASSUME Typed, NEW u \in Users, NEW t \in Tasks, Transmit(u, t)
    PROVE  \E fr : \E s :
              /\ work[u][t].op = "send"
              /\ fr.id = Cardinality(frames[u]) + 1 /\ fr.m = Encrypted(s)
              /\ fr.x3dh = IF work[u][t].base = Null THEN Pair(u, gen[u] + 1) ELSE Null
              /\ s = IF work[u][t].base # Null THEN work[u][t].base
                     ELSE InitAsInitiator(Secret(Pair(u, gen[u] + 1), Peer(u)),
                                          Pair(u, gen[u] + 2), SignedPrekey(Peer(u)))
              /\ gen' = [gen EXCEPT ![u] = IF work[u][t].base = Null THEN gen[u] + 2 ELSE gen[u]]
              /\ frames' = [frames EXCEPT ![u] = frames[u] \cup {fr}]
              /\ mailbox' = [mailbox EXCEPT ![Peer(u)] = mailbox[Peer(u)] \cup {fr}]
              /\ work' = [work EXCEPT ![u][t] = [op |-> "save", state |-> Encrypting(s)]]
              /\ UNCHANGED <<saved, read, reread, unread, missed, overlapped, cut>>
<1> DEFINE base == work[u][t].base
           s == IF base # Null THEN base
                ELSE InitAsInitiator(Secret(Pair(u, gen[u] + 1), Peer(u)),
                                     Pair(u, gen[u] + 2), SignedPrekey(Peer(u)))
           fr == [id |-> Cardinality(frames[u]) + 1,
                  x3dh |-> IF base = Null THEN Pair(u, gen[u] + 1) ELSE Null,
                  m |-> Encrypted(s)]
<1>1. /\ work[u][t].op = "send"
      /\ gen' = [gen EXCEPT ![u] = IF base = Null THEN gen[u] + 2 ELSE gen[u]]
      /\ frames' = [frames EXCEPT ![u] = frames[u] \cup {fr}]
      /\ mailbox' = [mailbox EXCEPT ![Peer(u)] = mailbox[Peer(u)] \cup {fr}]
      /\ work' = [work EXCEPT ![u][t] = [op |-> "save", state |-> Encrypting(s)]]
      /\ UNCHANGED <<saved, read, reread, unread, missed, overlapped, cut>>
  BY DEF Transmit
<1>2. /\ fr.id = Cardinality(frames[u]) + 1 /\ fr.m = Encrypted(s)
      /\ fr.x3dh = IF base = Null THEN Pair(u, gen[u] + 1) ELSE Null
  OBVIOUS
<1>3. s = IF base # Null THEN base
          ELSE InitAsInitiator(Secret(Pair(u, gen[u] + 1), Peer(u)),
                               Pair(u, gen[u] + 2), SignedPrekey(Peer(u)))
  OBVIOUS
<1> HIDE DEF fr, s
<1> QED
  BY <1>1, <1>2, <1>3

LEMMA TransmitMoves ==
    ASSUME Typed, NEW u \in Users, NEW t \in Tasks, Transmit(u, t)
    PROVE  Moves
<1>1. PICK fr, s :
              /\ work[u][t].op = "send"
              /\ fr.id = Cardinality(frames[u]) + 1
              /\ frames' = [frames EXCEPT ![u] = frames[u] \cup {fr}]
              /\ mailbox' = [mailbox EXCEPT ![Peer(u)] = mailbox[Peer(u)] \cup {fr}]
              /\ work' = [work EXCEPT ![u][t] = [op |-> "save", state |-> Encrypting(s)]]
              /\ UNCHANGED <<saved, read, reread, unread, missed, overlapped, cut>>
  BY TransmitFields
<1> DEFINE x == [op |-> "save", state |-> Encrypting(s)]
           v == Peer(u)
<1>2. x.op # "open" /\ work[u][t].op # "open" /\ work' = [work EXCEPT ![u][t] = x]
  BY <1>1
<1> HIDE DEF x
<1>3. \A w \in Users : Opened(w)' = Opened(w)
  BY <1>2, OpenedSet
<1>4. v \in Users /\ v # u /\ Peer(v) = u /\ \A w \in Users : w = u \/ w = v
  BY PeerOK
<1> HIDE DEF v
<1>5. /\ frames'[u] = frames[u] \cup {fr} /\ frames'[v] = frames[v]
      /\ mailbox'[v] = mailbox[v] \cup {fr} /\ mailbox'[u] = mailbox[u]
  BY <1>1, <1>4 DEF Typed, v
<1>6. MailMoves(u)
  BY <1>3, <1>5 DEF MailMoves
<1>7. MailMoves(v)
  BY <1>1, <1>3, <1>4, <1>5 DEF MailMoves
<1>8. FramesMove(u) /\ FramesMove(v)
  BY <1>1, <1>5 DEF FramesMove
<1>9. ReadMoves(u) /\ ReadMoves(v)
  BY <1>1 DEF ReadMoves
<1> QED
  BY <1>1, <1>4, <1>6, <1>7, <1>8, <1>9 DEF Moves

LEMMA OpenMoves ==
    ASSUME Typed, NEW u \in Users, NEW t \in Tasks, Open(u, t)
    PROVE  Moves
<1> DEFINE frame == work[u][t].frame
<1>1. /\ work[u][t].op = "open" /\ work' = [work EXCEPT ![u][t] = Idle]
      /\ UNCHANGED <<mailbox, frames, missed, overlapped, cut>>
      /\ \/ read' = [read EXCEPT ![u] = read[u] \cup {frame}] /\ UNCHANGED unread
         \/ unread' = [unread EXCEPT ![u] = unread[u] \cup ({frame} \ read[u])] /\ UNCHANGED read
  BY DEF Open
<1>2. Idle.op # "open"
  BY DEF Idle
<1>3. \A w \in Users : Opened(w)' \subseteq Opened(w)
  BY <1>1, <1>2, OpenedSet
<1>4. frame \in Opened(u)
  BY <1>1, OpenedFrames
<1> HIDE DEF frame
<1>5. ASSUME NEW w \in Users
      PROVE  /\ read[w] \subseteq read'[w] /\ unread[w] \subseteq unread'[w]
             /\ read'[w] \cup unread'[w] \subseteq read[w] \cup unread[w] \cup Opened(w)
  <2>1. CASE w = u
    BY <2>1, <1>1, <1>4 DEF Typed
  <2>2. CASE w # u
    BY <2>2, <1>1 DEF Typed
  <2> QED
    BY <2>1, <2>2
<1> QED
  BY <1>1, <1>3, <1>5 DEF Moves, MailMoves, ReadMoves, FramesMove

LEMMA RepeatMoves ==
    ASSUME Typed, NEW u \in Users, Repeat(u)
    PROVE  Moves
<1>1. PICK frame \in read[u] \cup unread[u] :
         mailbox' = [mailbox EXCEPT ![u] = mailbox[u] \cup {frame}]
  BY DEF Repeat
<1>2. UNCHANGED <<work, frames, read, reread, unread, missed, overlapped, cut>>
  BY DEF Repeat
<1>3. \A w \in Users : Opened(w)' = Opened(w)
  BY <1>2 DEF Opened
<1>4. \A w \in Users : mailbox'[w] \subseteq mailbox[w] \cup read[w] \cup unread[w]
  BY <1>1 DEF Typed
<1> QED
  BY <1>2, <1>3, <1>4 DEF Moves, MailMoves, ReadMoves, FramesMove

LEMMA CrashMoves ==
    ASSUME Typed, NEW u \in Users, Crash(u)
    PROVE  Moves
<1>1. /\ cut \subseteq cut'
      /\ work' = [work EXCEPT ![u] = [t \in Tasks |-> Idle]]
      /\ UNCHANGED <<saved, gen, frames, read, reread, unread, overlapped>>
  BY DEF Crash
<1>2. PICK marked \in SUBSET Opened(u) :
         /\ missed' = [missed EXCEPT ![u] = missed[u] \cup marked]
         /\ mailbox' = [mailbox EXCEPT ![u] = mailbox[u] \cup (Opened(u) \ marked)]
  BY DEF Crash, Opened
<1>3. Idle.op # "open"
  BY DEF Idle
<1>4. (\A t \in Tasks : work'[u][t] = Idle) /\ \A w \in Users : w # u => work'[w] = work[w]
  BY <1>1 DEF Typed
<1>5. Opened(u)' = {}
  BY <1>3, <1>4, OpenedFramesNext
<1>6. \A w \in Users : w # u => Opened(w)' = Opened(w)
  BY <1>4, OpenedSame
<1>7. \A w \in Users : missed[w] \subseteq missed'[w]
  BY <1>2 DEF Typed
<1>8. /\ mailbox'[u] \subseteq mailbox[u] \cup Opened(u)
      /\ \A w \in Users : w # u => mailbox'[w] = mailbox[w]
  BY <1>2 DEF Typed
<1>9. ASSUME NEW w \in Users
      PROVE  MailMoves(w)
  BY <1>5, <1>6, <1>8 DEF MailMoves
<1> QED
  BY <1>1, <1>7, <1>9 DEF Moves, ReadMoves, FramesMove

LEMMA NextMoves == Typed /\ [Next]_vars => Moves
<1> SUFFICES ASSUME Typed, [Next]_vars
             PROVE  Moves
  OBVIOUS
<1>1. CASE UNCHANGED vars
  <2>1. UNCHANGED <<work, mailbox, frames, read, unread, missed, overlapped, cut>>
    BY <1>1 DEF vars
  <2>2. \A w \in Users : Opened(w)' = Opened(w)
    BY <2>1 DEF Opened
  <2> QED
    BY <2>1, <2>2 DEF Moves, MailMoves, ReadMoves, FramesMove
<1>2. ASSUME NEW u \in Users, NEW t \in Tasks,
             \/ StartSend(u, t) \/ Transmit(u, t) \/ FinishSend(u, t)
             \/ FailSend(u, t) \/ Arrive(u, t) \/ Open(u, t)
      PROVE  Moves
  BY <1>2, StartSendMoves, TransmitMoves, SaveMoves, ArriveMoves, OpenMoves
<1>3. ASSUME NEW u \in Users, Repeat(u) \/ Crash(u)
      PROVE  Moves
  BY <1>3, RepeatMoves, CrashMoves
<1> QED
  BY <1>1, <1>2, <1>3 DEF Next

(* What happened has happened.                                               *)
LEMMA CalmBefore ==
    ASSUME Moves, Calm'
    PROVE  Calm
<1>1. \A w \in Users : frames[w] \subseteq frames'[w]
  BY DEF Moves, FramesMove
<1>2. ~Crossed
  BY <1>1 DEF Calm, Crossed
<1>3. Disturbed = {}
  BY DEF Calm, Disturbed, Moves
<1> QED
  BY <1>2, <1>3 DEF Calm

(* Frames stay numbered in the order of their sending.                       *)
LEMMA NumbersKeep ==
    ASSUME Typed, Typed', NumbersOK, Moves
    PROVE  NumbersOK'
<1> SUFFICES ASSUME NEW w \in Users, NEW f \in frames'[w]
             PROVE  /\ f.id \in 1..Cardinality(frames'[w])
                    /\ \A g \in frames'[w] : g.id = f.id => g = f
  BY DEF NumbersOK
<1>1. IsFiniteSet(frames[w]) /\ Cardinality(frames[w]) \in Nat
  BY FS_CardinalityType DEF Typed
<1>2. \A g \in frames[w] : g.id \in 1..Cardinality(frames[w])
  BY DEF NumbersOK
<1>3. CASE frames'[w] = frames[w]
  BY <1>3 DEF NumbersOK
<1>4. CASE frames'[w] # frames[w]
  <2>1. PICK fr : fr.id = Cardinality(frames[w]) + 1 /\ frames'[w] = frames[w] \cup {fr}
    BY <1>4 DEF Moves, FramesMove
  <2>2. fr \notin frames[w]
    BY <1>1, <1>2, <2>1
  <2>3. Cardinality(frames'[w]) = Cardinality(frames[w]) + 1
    BY <1>1, <2>1, <2>2, FS_AddElement
  <2>4. f.id \in 1..Cardinality(frames'[w])
    BY <1>1, <1>2, <2>1, <2>3
  <2>5. ASSUME NEW g \in frames'[w], g.id = f.id
        PROVE  g = f
    <3>1. g = fr <=> f = fr
      BY <1>1, <1>2, <2>1, <2>5
    <3>2. CASE f # fr
      BY <3>1, <3>2, <2>1, <2>5 DEF NumbersOK
    <3> QED
      BY <3>1, <3>2
  <2> QED
    BY <2>4, <2>5
<1> QED
  BY <1>3, <1>4

(* Every frame is a frame of the other user, with a number.                  *)
LEMMA InFrames ==
    ASSUME Typed, RouteOK, NumbersOK, NEW w \in Users
    PROVE  /\ mailbox[w] \subseteq frames[Peer(w)] /\ Opened(w) \subseteq frames[Peer(w)]
           /\ Around(w) \subseteq frames[Peer(w)]
           /\ Cardinality(frames[Peer(w)]) \in Nat
           /\ \A f \in frames[Peer(w)] : f.id \in 1..Cardinality(frames[Peer(w)]) /\ f.id \in Nat
<1>1. frames[Peer(w)] = mailbox[w] \cup read[w] \cup unread[w] \cup missed[w] \cup Opened(w)
  BY DEF RouteOK
<1>2. Peer(w) \in Users
  BY PeerOK
<1>3. Cardinality(frames[Peer(w)]) \in Nat
  BY <1>2, FS_CardinalityType DEF Typed
<1>4. \A f \in frames[Peer(w)] : f.id \in 1..Cardinality(frames[Peer(w)])
  BY <1>2 DEF NumbersOK
<1>5. \A f \in frames[Peer(w)] : f.id \in Nat
  BY <1>3, <1>4
<1> QED
  BY <1>1, <1>3, <1>4, <1>5 DEF Around

(* The relay pushes the oldest first.                                        *)
LEMMA OrderKeep ==
    ASSUME Typed, RouteOK, NumbersOK, OrderOK, Moves
    PROVE  OrderOK'
<1> SUFFICES ASSUME NEW w \in Users, NEW f \in Opened(w)', NEW g \in mailbox'[w], g.id < f.id
             PROVE  g \in read'[w] \cup unread'[w]
  BY DEF OrderOK
<1>1. /\ mailbox[w] \subseteq frames[Peer(w)] /\ Opened(w) \subseteq frames[Peer(w)]
      /\ Cardinality(frames[Peer(w)]) \in Nat
      /\ \A h \in frames[Peer(w)] : h.id \in 1..Cardinality(frames[Peer(w)]) /\ h.id \in Nat
  BY InFrames
<1>2. MailMoves(w) /\ read[w] \cup unread[w] \subseteq read'[w] \cup unread'[w]
  BY DEF Moves, ReadMoves
<1>3. f \in Opened(w) /\ g \in mailbox[w] => g \in read[w] \cup unread[w]
  BY DEF OrderOK
<1>4. CASE mailbox'[w] = mailbox[w] /\ Opened(w)' \subseteq Opened(w)
  BY <1>2, <1>3, <1>4
<1>5. ASSUME NEW fr, fr.id = Cardinality(frames[Peer(w)]) + 1,
             mailbox'[w] = mailbox[w] \cup {fr}, Opened(w)' = Opened(w)
      PROVE  g \in read'[w] \cup unread'[w]
  <2>1. g # fr
    BY <1>1, <1>5
  <2> QED
    BY <2>1, <1>2, <1>3, <1>5
<1>6. ASSUME NEW fr \in mailbox[w], \A h \in mailbox[w] : fr.id <= h.id,
             mailbox'[w] = mailbox[w] \ {fr}, Opened(w)' \subseteq Opened(w) \cup {fr}
      PROVE  g \in read'[w] \cup unread'[w]
  <2>1. g \in mailbox[w] /\ fr.id <= g.id
    BY <1>6
  <2>2. f # fr
    BY <2>1, <1>1
  <2> QED
    BY <2>1, <2>2, <1>2, <1>3, <1>6
<1>7. CASE mailbox'[w] \subseteq mailbox[w] \cup read[w] \cup unread[w] /\ Opened(w)' = Opened(w)
  BY <1>2, <1>3, <1>7
<1>8. CASE Opened(w)' = {}
  BY <1>8
<1> QED
  BY <1>2, <1>4, <1>5, <1>6, <1>7, <1>8 DEF MailMoves

(* A frame that is lost stays so.                                            *)
LEMMA LostKeep ==
    ASSUME Typed, RouteOK, NumbersOK, Moves, NEW w \in Users, NEW f
    PROVE  LostBefore(w, f) \subseteq LostBefore(w, f)'
<1> SUFFICES ASSUME NEW g \in LostBefore(w, f)
             PROVE  g \in LostBefore(w, f)'
  OBVIOUS
<1>1. g \in frames[Peer(w)] /\ g \notin Around(w) /\ g.id < f.id
  BY DEF LostBefore
<1>2. Peer(w) \in Users
  BY PeerOK
<1>3. g \in frames'[Peer(w)]
  BY <1>1, <1>2 DEF Moves, FramesMove
<1>4. g \notin read'[w] \cup unread'[w]
  BY <1>1 DEF Moves, ReadMoves, Around
<1>5. g.id # Cardinality(frames[Peer(w)]) + 1
  BY <1>1, InFrames
<1>6. g \notin mailbox'[w] /\ g \notin Opened(w)'
  <2>1. MailMoves(w) /\ g \notin mailbox[w] \cup read[w] \cup unread[w] \cup Opened(w)
    BY <1>1 DEF Moves, Around
  <2> QED
    BY <2>1, <1>5 DEF MailMoves
<1>7. g \notin Around(w)'
  BY <1>4, <1>6 DEF Around
<1> QED
  BY <1>1, <1>3, <1>7 DEF LostBefore

(* Who lost enough before a frame still has.                                 *)
LEMMA ManyStay ==
    ASSUME Typed', NEW w \in Users, NEW S \in SUBSET frames'[Peer(w)], NEW T \in SUBSET S,
           Cardinality(T) > MaxSkip
    PROVE  Cardinality(S) > MaxSkip
<1>1. Peer(w) \in Users
  BY PeerOK
<1>2. IsFiniteSet(S)
  BY <1>1, FS_Subset DEF Typed
<1>3. IsFiniteSet(T) /\ Cardinality(T) <= Cardinality(S)
  BY <1>2, FS_Subset
<1>4. Cardinality(T) \in Nat /\ Cardinality(S) \in Nat /\ MaxSkip \in Nat
  BY <1>2, <1>3, FS_CardinalityType, RatchetAssumption
<1> QED
  BY <1>3, <1>4

-----------------------------------------------------------------------------

(* Who sends without a session has none, and sent nothing yet.               *)
LEMMA FirstFrame ==
    ASSUME IInv, NEW u \in Users \ Disturbed, NEW t \in Tasks, work[u][t].op = "send"
    PROVE  /\ work[u][t].base = saved[u]
           /\ \A r \in Tasks \ {t} : work[u][r] = Idle
           /\ \A r \in Tasks : work[u][r].op # "save"
           /\ saved[u] = Null => frames[u] = {}
<1>1. AloneOK /\ SentOK /\ u \notin overlapped
  BY DEF IInv, Disturbed
<1>2. Idle.op = "idle"
  BY DEF Idle
<1>3. work[u][t].base = saved[u] /\ \A r \in Tasks \ {t} : work[u][r] = Idle
  BY <1>1, <1>2 DEF AloneOK
<1>4. \A r \in Tasks : work[u][r].op # "save"
  BY <1>2, <1>3
<1>5. saved[u] = Null => frames[u] = {}
  BY <1>1, <1>4 DEF SentOK
<1> QED
  BY <1>3, <1>4, <1>5

(* A step that adds no operation about to save.                              *)
LEMMA FirstSame ==
    ASSUME FirstOK, Moves, saved' = saved, frames' = frames,
           \A w \in Users : \A t \in Tasks : work'[w][t].op = "save" => work[w][t].op = "save"
    PROVE  FirstOK'
<1>1. Calm' => Calm
  BY CalmBefore
<1> QED
  BY <1>1 DEF FirstOK

(* Who opens the conversation still does so with its first frame.            *)
LEMMA FirstKeep ==
    ASSUME IInv, Typed', FirstOK, NumbersOK, [Next]_vars
    PROVE  FirstOK'
<1>1. Typed /\ RouteOK
  BY DEF IInv
<1>2. Moves
  BY <1>1, NextMoves
<1>3. Idle.op = "idle"
  BY DEF Idle
<1>4. (\A w \in Users : frames[w] = {}) => \A w \in Users : Around(w) = {}
  BY <1>1, InFrames, PeerOK
<1>5. (\A w \in Users : frames[w] = {}) =>
          \A w \in Users : saved[w] = Null /\ \A t \in Tasks : work[w][t].op # "save"
  BY DEF FirstOK
<1>6. CASE UNCHANGED vars
  BY <1>6, <1>2, FirstSame DEF vars
<1>7. ASSUME NEW u \in Users, NEW t \in Tasks, StartSend(u, t)
      PROVE  FirstOK'
  <2> DEFINE x == [op |-> "send", base |-> saved[u]]
  <2>1. work' = [work EXCEPT ![u][t] = x] /\ saved' = saved /\ frames' = frames
    BY <1>7 DEF StartSend
  <2>2. x.op = "send"
    OBVIOUS
  <2> HIDE DEF x
  <2>3. /\ work'[u][t] = x
        /\ \A v \in Users : \A r \in Tasks : v # u \/ r # t => work'[v][r] = work[v][r]
    BY <1>1, <2>1 DEF Typed
  <2>4. \A w \in Users : \A r \in Tasks : work'[w][r].op = "save" => work[w][r].op = "save"
    BY <2>2, <2>3
  <2> QED
    BY <2>1, <2>4, <1>2, FirstSame
<1>8. ASSUME NEW u \in Users, NEW t \in Tasks, Transmit(u, t)
      PROVE  FirstOK'
  <2>1. PICK fr, s :
           /\ work[u][t].op = "send"
           /\ fr.id = Cardinality(frames[u]) + 1
           /\ fr.x3dh = IF work[u][t].base = Null THEN Pair(u, gen[u] + 1) ELSE Null
           /\ frames' = [frames EXCEPT ![u] = frames[u] \cup {fr}]
    BY <1>1, <1>8, TransmitFields
  <2>2. frames'[u] = frames[u] \cup {fr} /\ \A w \in Users : w # u => frames'[w] = frames[w]
    BY <1>1, <2>1 DEF Typed
  <2>3. ASSUME Calm', NEW w \in Users, NEW f \in frames'[w], f.x3dh # Null
        PROVE  f.id = 1
    <3>1. Calm
      BY <2>3, <1>2, CalmBefore
    <3>2. CASE f \in frames[w]
      BY <3>1, <3>2, <2>3 DEF FirstOK
    <3>3. CASE f \notin frames[w]
      <4>1. w = u /\ f = fr /\ work[u][t].base = Null
        BY <3>3, <2>1, <2>2, <2>3
      <4>2. u \notin Disturbed
        BY <3>1 DEF Calm
      <4>3. frames[u] = {}
        BY <4>1, <4>2, <2>1, FirstFrame
      <4> QED
        BY <4>1, <4>3, <2>1, FS_EmptySet
    <3> QED
      BY <3>2, <3>3
  <2> QED
    BY <2>2, <2>3 DEF FirstOK
<1>9. ASSUME NEW u \in Users, NEW t \in Tasks, FinishSend(u, t) \/ FailSend(u, t)
      PROVE  FirstOK'
  <2>1. work[u][t].op = "save" /\ frames' = frames
    BY <1>9 DEF FinishSend, FailSend
  <2>2. ~ \A w \in Users : frames[w] = {}
    BY <1>5, <2>1
  <2>3. Calm' => Calm
    BY <1>2, CalmBefore
  <2> QED
    BY <2>1, <2>2, <2>3 DEF FirstOK
<1>10. ASSUME NEW u \in Users, NEW t \in Tasks, Arrive(u, t) \/ Open(u, t)
       PROVE  FirstOK'
  <2>1. frames' = frames
    BY <1>10 DEF Arrive, Open
  <2>2. Around(u) # {}
    <3>1. CASE Arrive(u, t)
      BY <3>1 DEF Arrive, Around
    <3>2. CASE Open(u, t)
      BY <3>2, OpenedFrames DEF Open, Around
    <3> QED
      BY <1>10, <3>1, <3>2
  <2>3. Calm' => Calm
    BY <1>2, CalmBefore
  <2> QED
    BY <1>4, <2>1, <2>2, <2>3 DEF FirstOK
<1>11. ASSUME NEW u \in Users, Repeat(u)
       PROVE  FirstOK'
  BY <1>11, <1>2, FirstSame DEF Repeat
<1>12. ASSUME NEW u \in Users, Crash(u)
       PROVE  FirstOK'
  <2>1. saved' = saved /\ frames' = frames /\ work' = [work EXCEPT ![u] = [t \in Tasks |-> Idle]]
    BY <1>12 DEF Crash
  <2>2. \A w \in Users : \A t \in Tasks : work'[w][t] = work[w][t] \/ work'[w][t] = Idle
    BY <1>1, <2>1 DEF Typed
  <2>3. \A w \in Users : \A t \in Tasks : work'[w][t].op = "save" => work[w][t].op = "save"
    BY <2>2, <1>3
  <2> QED
    BY <2>1, <2>3, <1>2, FirstSame
<1> QED
  BY <1>6, <1>7, <1>8, <1>9, <1>10, <1>11, <1>12 DEF Next

-----------------------------------------------------------------------------

(* The two may be named in either order.                                     *)
LEMMA InStepTurns ==
    ASSUME NEW u \in Users, NEW s, NEW r, NEW b \in BOOLEAN
    PROVE  /\ InStep(u, s, r, b) => InStep(Peer(u), r, s, ~b)
           /\ InStep(u, s, r, b)' => InStep(Peer(u), r, s, ~b)'
<1>1. Peer(Peer(u)) = u
  BY PeerOK
<1>2. InStep(u, s, r, b) => InStep(Peer(u), r, s, ~b)
  BY <1>1 DEF InStep
<1>3. InStep(u, s, r, b)' => InStep(Peer(u), r, s, ~b)'
  BY <1>1 DEF InStep
<1> QED
  BY <1>2, <1>3

(* ... from the side of either.                                              *)
LEMMA StepAny ==
    ASSUME StepOK, Calm, NEW w \in Users, frames[w] # {}, NEW u \in Users
    PROVE  \E s \in Standing(u), r \in Standing(Peer(u)), b \in BOOLEAN : InStep(u, s, r, b)
<1>1. PICK v \in Users : \E s \in Standing(v), r \in Standing(Peer(v)) : InStep(v, s, r, TRUE)
  BY DEF StepOK
<1>2. PICK s \in Standing(v), r \in Standing(Peer(v)) : InStep(v, s, r, TRUE)
  BY <1>1
<1>3. CASE u = v
  BY <1>2, <1>3
<1>4. CASE u # v
  <2>1. u = Peer(v) /\ Peer(u) = v
    BY <1>4, PeerOK
  <2>2. InStep(u, r, s, ~TRUE)
    BY <1>2, <2>1, InStepTurns
  <2> QED
    BY <1>2, <2>1, <2>2
<1> QED
  BY <1>3, <1>4

LEMMA StepFrom ==
    ASSUME NEW u \in Users, NEW s \in Standing(u)', NEW r \in Standing(Peer(u))',
           NEW b \in BOOLEAN, InStep(u, s, r, b)'
    PROVE  StepOK'
<1>1. Peer(u) \in Users /\ Peer(Peer(u)) = u
  BY PeerOK
<1>2. CASE b
  <2>1. InStep(u, s, r, TRUE)'
    BY <1>2
  <2> QED
    BY <2>1 DEF StepOK
<1>3. CASE ~b
  <2>1. InStep(Peer(u), r, s, ~b)' /\ (~b) = TRUE
    BY <1>3, InStepTurns
  <2>2. InStep(Peer(u), r, s, TRUE)'
    BY <2>1
  <2> QED
    BY <1>1, <2>2 DEF StepOK
<1> QED
  BY <1>2, <1>3

(* The sessions at which a user stands.                                      *)
LEMMA StandingWell ==
    ASSUME IInv, NEW w \in Users, NEW s \in Standing(w)
    PROVE  /\ s \in Sessions /\ Well(s) /\ Fit(s)
<1>1. Typed /\ SessionsOK
  BY DEF IInv
<1>2. CASE \E t \in Tasks : work[w][t].op = "save"
  <2>1. PICK t \in Tasks : work[w][t].op = "save" /\ s = work[w][t].state
    BY <1>2 DEF Standing
  <2>2. Stored(s)
    BY <1>1, <2>1 DEF SessionsOK
  <2> QED
    BY <2>2 DEF Stored, Fit
<1>3. CASE (\A t \in Tasks : work[w][t].op # "save") /\ saved[w] # Null
  <2>1. Stored(s)
    BY <1>1, <1>3 DEF SessionsOK, Standing
  <2> QED
    BY <2>1 DEF Stored, Fit
<1>4. CASE (\A t \in Tasks : work[w][t].op # "save") /\ saved[w] = Null
  <2>1. PICK f \in frames[Peer(w)] :
           f.x3dh # Null /\ s = InitAsResponder(Secret(f.x3dh, w), SignedPrekey(w))
    BY <1>4 DEF Standing
  <2>2. f.x3dh \in Pairs
    <3>1. f \in Frames
      BY <1>1, PeerOK DEF Typed
    <3> QED
      BY <2>1, <3>1 DEF Frames
  <2> QED
    BY <2>1, <2>2, ResponderFit
<1> QED
  BY <1>2, <1>3, <1>4

(* Where a user stands changes with its session, the one it is about to      *)
(* save, and the opening frames.                                             *)
LEMMA StandingSame ==
    ASSUME NEW w \in Users, saved'[w] = saved[w],
           {f \in frames'[Peer(w)] : f.x3dh # Null} = {f \in frames[Peer(w)] : f.x3dh # Null},
           \A t \in Tasks : /\ work'[w][t].op = "save" <=> work[w][t].op = "save"
                            /\ work[w][t].op = "save" => work'[w][t] = work[w][t]
    PROVE  Standing(w)' = Standing(w)
<1>1. CASE \E t \in Tasks : work[w][t].op = "save"
  <2>1. /\ Standing(w) = {work[w][t].state : t \in {r \in Tasks : work[w][r].op = "save"}}
        /\ Standing(w)' = {work'[w][t].state : t \in {r \in Tasks : work'[w][r].op = "save"}}
    BY <1>1 DEF Standing
  <2>2. ASSUME NEW s
        PROVE  s \in Standing(w)' <=> s \in Standing(w)
    <3>1. s \in Standing(w) <=> \E t \in Tasks : work[w][t].op = "save" /\ s = work[w][t].state
      BY <2>1
    <3>2. s \in Standing(w)' <=> \E t \in Tasks : work'[w][t].op = "save" /\ s = work'[w][t].state
      BY <2>1
    <3> QED
      BY <3>1, <3>2
  <2> QED
    BY <2>2
<1>2. CASE ~ \E t \in Tasks : work[w][t].op = "save"
  BY <1>2 DEF Standing
<1> QED
  BY <1>1, <1>2

LEMMA StandingSaving ==
    ASSUME NEW w \in Users, NEW t \in Tasks
    PROVE  /\ work[w][t].op = "save" /\ (\A r \in Tasks \ {t} : work[w][r].op # "save")
                => Standing(w) = {work[w][t].state}
           /\ work'[w][t].op = "save" /\ (\A r \in Tasks \ {t} : work'[w][r].op # "save")
                => Standing(w)' = {work'[w][t].state}
BY DEF Standing

LEMMA StandingSaved ==
    ASSUME NEW w \in Users
    PROVE  /\ (\A t \in Tasks : work[w][t].op # "save") /\ saved[w] # Null
                => Standing(w) = {saved[w]}
           /\ (\A t \in Tasks : work'[w][t].op # "save") /\ saved'[w] # Null
                => Standing(w)' = {saved'[w]}
BY DEF Standing

(* A step that moves no session.                                             *)
LEMMA InStepSame ==
    ASSUME NEW u, NEW s, NEW r, NEW b, InStep(u, s, r, b), UNCHANGED <<frames, gen, read>>
    PROVE  InStep(u, s, r, b)'
BY DEF InStep, Ahead, Sends, Gets, Full, Known

LEMMA StepStays ==
    ASSUME StepOK, Moves, UNCHANGED <<frames, gen, read>>,
           Calm' => \A w \in Users : Standing(w)' = Standing(w)
    PROVE  StepOK'
<1> SUFFICES ASSUME Calm', NEW w \in Users, frames'[w] # {}
             PROVE  \E u \in Users : \E s \in Standing(u)', r \in Standing(Peer(u))' :
                       InStep(u, s, r, TRUE)'
  BY DEF StepOK
<1>1. Calm
  BY CalmBefore
<1>2. PICK u \in Users : \E s \in Standing(u), r \in Standing(Peer(u)) : InStep(u, s, r, TRUE)
  BY <1>1 DEF StepOK
<1>3. PICK s \in Standing(u), r \in Standing(Peer(u)) : InStep(u, s, r, TRUE)
  BY <1>2
<1>4. InStep(u, s, r, TRUE)'
  BY <1>3, InStepSame
<1>5. s \in Standing(u)' /\ r \in Standing(Peer(u))'
  BY <1>3, PeerOK
<1> QED
  BY <1>4, <1>5

-----------------------------------------------------------------------------

(* The steps that move no session.                                           *)
LEMMA QuietStep ==
    ASSUME Typed, StepOK, Moves, NEW u \in Users,
           \/ \E t \in Tasks : StartSend(u, t) \/ Arrive(u, t)
           \/ Repeat(u) \/ Crash(u)
    PROVE  StepOK'
<1>1. UNCHANGED <<saved, frames, gen, read>>
  BY DEF StartSend, Arrive, Repeat, Crash
<1>2. Idle.op = "idle"
  BY DEF Idle
<1>3. ASSUME Calm', NEW w \in Users, NEW r \in Tasks
      PROVE  /\ work'[w][r].op = "save" <=> work[w][r].op = "save"
             /\ work[w][r].op = "save" => work'[w][r] = work[w][r]
  <2>1. CASE Repeat(u)
    BY <2>1 DEF Repeat
  <2>2. CASE Crash(u)
    <3>1. work' = [work EXCEPT ![u] = [t \in Tasks |-> Idle]]
      BY <2>2 DEF Crash
    <3>2. \A t \in Tasks : work[u][t].op # "save"
      <4>1. cut' = {}
        BY <1>3 DEF Calm, Disturbed
      <4> QED
        BY <2>2, <4>1 DEF Crash
    <3>3. CASE w = u
      <4>1. work'[u][r] = Idle
        BY <3>1 DEF Typed
      <4> QED
        BY <3>2, <3>3, <4>1, <1>2
    <3>4. CASE w # u
      BY <3>1, <3>4 DEF Typed
    <3> QED
      BY <3>3, <3>4
  <2>3. ASSUME NEW t \in Tasks, StartSend(u, t) \/ Arrive(u, t)
        PROVE  /\ work'[w][r].op = "save" <=> work[w][r].op = "save"
               /\ work[w][r].op = "save" => work'[w][r] = work[w][r]
    <3>1. PICK x : x.op # "save" /\ work[u][t] = Idle /\ work' = [work EXCEPT ![u][t] = x]
      BY <2>3 DEF StartSend, Arrive
    <3>2. /\ work'[u][t] = x
          /\ \A v \in Users : \A q \in Tasks : v # u \/ q # t => work'[v][q] = work[v][q]
      BY <3>1 DEF Typed
    <3> QED
      BY <3>1, <3>2, <1>2
  <2> QED
    BY <2>1, <2>2, <2>3
<1>4. Calm' => \A w \in Users : Standing(w)' = Standing(w)
  BY <1>1, <1>3, StandingSame
<1> QED
  BY <1>1, <1>4, StepStays

(* A session that is stored was already where its user stood; one that is    *)
(* not stored is remembered.                                                 *)
LEMMA SaveStep ==
    ASSUME IInv, StepOK, Moves, NEW u \in Users, NEW t \in Tasks,
           FinishSend(u, t) \/ FailSend(u, t)
    PROVE  StepOK'
<1>1. Typed /\ AloneOK
  BY DEF IInv
<1>2. CASE FailSend(u, t)
  <2>1. ~ Calm'
    BY <1>2 DEF FailSend, Calm, Disturbed
  <2> QED
    BY <2>1 DEF StepOK
<1>3. CASE FinishSend(u, t)
  <2>1. /\ work[u][t].op = "save"
        /\ saved' = [saved EXCEPT ![u] = work[u][t].state]
        /\ work' = [work EXCEPT ![u][t] = Idle]
        /\ UNCHANGED <<gen, frames, read>>
    BY <1>3 DEF FinishSend
  <2>2. Idle.op = "idle"
    BY DEF Idle
  <2>3. /\ work'[u][t] = Idle
        /\ \A v \in Users : \A q \in Tasks : v # u \/ q # t => work'[v][q] = work[v][q]
    BY <2>1, <1>1 DEF Typed
  <2>4. saved'[u] = work[u][t].state /\ \A w \in Users : w # u => saved'[w] = saved[w]
    BY <2>1, <1>1 DEF Typed
  <2>5. work[u][t].state # Null
    <3>1. work[u][t] \in Ops
      BY <1>1 DEF Typed
    <3> QED
      BY <3>1, <2>1, OpFields, SessionAssumption
  <2>6. ASSUME Calm'
        PROVE  Standing(u)' = Standing(u)
    <3>1. u \notin overlapped
      BY <2>6, CalmBefore DEF Calm, Disturbed
    <3>2. \A r \in Tasks \ {t} : work[u][r] = Idle
      BY <3>1, <1>1, <2>1, <2>2 DEF AloneOK
    <3>3. Standing(u) = {work[u][t].state}
      BY <3>2, <2>1, <2>2, StandingSaving
    <3>4. \A r \in Tasks : work'[u][r].op # "save"
      BY <3>2, <2>2, <2>3
    <3>5. Standing(u)' = {saved'[u]}
      BY <3>4, <2>4, <2>5, StandingSaved
    <3> QED
      BY <3>3, <3>5, <2>4
  <2>7. ASSUME NEW w \in Users, w # u
        PROVE  Standing(w)' = Standing(w)
    BY <2>1, <2>3, <2>4, <2>7, StandingSame
  <2> QED
    BY <2>1, <2>6, <2>7, StepStays
<1> QED
  BY <1>2, <1>3

(* The session that sent moved on, and the other can read what it sent.      *)
LEMMA TransmitStep ==
    ASSUME IInv, StepOK, FirstOK, NumbersOK, Moves, NEW u \in Users, NEW t \in Tasks,
           Transmit(u, t)
    PROVE  StepOK'
<1> SUFFICES ASSUME Calm'
             PROVE  StepOK'
  BY DEF StepOK
<1> DEFINE v == Peer(u)
<1>1. Typed /\ SessionsOK
  BY DEF IInv
<1>2. Calm /\ u \notin Disturbed
  BY CalmBefore DEF Calm
<1>3. PICK fr, s :
           /\ work[u][t].op = "send"
           /\ fr.id = Cardinality(frames[u]) + 1 /\ fr.m = Encrypted(s)
           /\ fr.x3dh = IF work[u][t].base = Null THEN Pair(u, gen[u] + 1) ELSE Null
           /\ s = IF work[u][t].base # Null THEN work[u][t].base
                  ELSE InitAsInitiator(Secret(Pair(u, gen[u] + 1), Peer(u)),
                                       Pair(u, gen[u] + 2), SignedPrekey(Peer(u)))
           /\ gen' = [gen EXCEPT ![u] = IF work[u][t].base = Null THEN gen[u] + 2 ELSE gen[u]]
           /\ frames' = [frames EXCEPT ![u] = frames[u] \cup {fr}]
           /\ work' = [work EXCEPT ![u][t] = [op |-> "save", state |-> Encrypting(s)]]
           /\ UNCHANGED <<saved, read>>
  BY <1>1, TransmitFields
<1>4. /\ work[u][t].base = saved[u]
      /\ \A r \in Tasks \ {t} : work[u][r] = Idle
      /\ \A r \in Tasks : work[u][r].op # "save"
      /\ saved[u] = Null => frames[u] = {}
  BY <1>2, <1>3, FirstFrame
<1>5. v \in Users /\ v # u /\ Peer(v) = u
  BY PeerOK
<1> HIDE DEF v
<1>6. /\ frames'[u] = frames[u] \cup {fr} /\ frames'[v] = frames[v]
      /\ \A r \in Tasks : work'[v][r] = work[v][r]
  BY <1>1, <1>3, <1>5 DEF Typed
<1>7. Standing(u)' = {Encrypting(s)}
  <2> DEFINE x == [op |-> "save", state |-> Encrypting(s)]
  <2>1. work' = [work EXCEPT ![u][t] = x] /\ x.op = "save" /\ x.state = Encrypting(s)
    BY <1>3
  <2> HIDE DEF x
  <2>2. /\ work'[u][t] = x
        /\ \A q \in Tasks : q # t => work'[u][q] = work[u][q]
    BY <2>1, <1>1 DEF Typed
  <2>3. \A q \in Tasks \ {t} : work'[u][q].op # "save"
    BY <2>2, <1>4
  <2> QED
    BY <2>1, <2>2, <2>3, StandingSaving
<1>8. CASE saved[u] # Null
  <2>1. s = saved[u] /\ fr.x3dh = Null /\ Standing(u) = {saved[u]}
    BY <1>3, <1>4, <1>8, StandingSaved
  <2>2. PICK w \in Users : frames[w] # {}
    BY <1>8 DEF FirstOK
  <2>3. PICK q \in Standing(u), r \in Standing(Peer(u)), b \in BOOLEAN : InStep(u, q, r, b)
    BY <1>2, <2>2, StepAny
  <2>4. r \in Standing(v) /\ r \in Sessions /\ Well(r) /\ q = s
    BY <2>1, <2>3, <1>5, StandingWell DEF v
  <2>5. Stored(s) /\ s \in Sessions
    BY <2>1, <1>1, <1>8 DEF SessionsOK, Stored
  <2>6. \A g \in frames[u] : g.id < fr.id
    <3>1. Cardinality(frames[u]) \in Nat
      BY <1>1, FS_CardinalityType DEF Typed
    <3>2. ASSUME NEW g \in frames[u]
          PROVE  g.id < fr.id
      <4>1. g.id \in 1..Cardinality(frames[u])
        BY DEF NumbersOK
      <4> QED
        BY <4>1, <3>1, <1>3
    <3> QED
      BY <3>2
  <2>7. gen' = gen
    <3>1. gen' = [gen EXCEPT ![u] = gen[u]]
      BY <1>3, <1>4, <1>8
    <3> QED
      BY <3>1, <1>1 DEF Typed
  <2>8. InStep(u, s, r, b)
    BY <2>3, <2>4
  <2>9. InStep(u, Encrypting(s), r, b)'
    BY <1>1, <1>3, <2>4, <2>5, <2>6, <2>7, <2>8, SendStep
  <2>10. Standing(v)' = Standing(v)
    <3>1. {f \in frames'[Peer(v)] : f.x3dh # Null} = {f \in frames[Peer(v)] : f.x3dh # Null}
      BY <1>5, <1>6, <2>1
    <3> QED
      BY <3>1, <1>3, <1>5, <1>6, StandingSame
  <2>11. Encrypting(s) \in Standing(u)' /\ r \in Standing(Peer(u))'
    BY <1>7, <2>4, <2>10 DEF v
  <2> QED
    BY <2>9, <2>11, StepFrom
<1>9. CASE saved[u] = Null
  <2>1. PICK eph, fresh : eph = Pair(u, gen[u] + 1) /\ fresh = Pair(u, gen[u] + 2)
    OBVIOUS
  <2>2. /\ s = InitAsInitiator(Secret(eph, Peer(u)), fresh, SignedPrekey(Peer(u)))
        /\ fr.x3dh = eph /\ gen' = [gen EXCEPT ![u] = gen[u] + 2]
    BY <1>3, <1>4, <1>9, <2>1
  <2>3. eph # Null
    <3>1. eph \in Pairs
      BY <1>1, <2>1 DEF Typed, Pair, Pairs
    <3> QED
      BY <3>1, SessionAssumption
  <2>4. frames[u] = {}
    BY <1>4, <1>9
  <2>5. frames[v] = {}
    <3> SUFFICES ASSUME frames[v] # {}
                 PROVE  FALSE
      OBVIOUS
    <3>1. PICK q \in Standing(u) : TRUE
      BY <1>2, <1>5, StepAny
    <3>2. PICK g \in frames[v] : g.x3dh # Null
      BY <3>1, <1>4, <1>9 DEF Standing, v
    <3>3. Crossed'
      <4>1. ASSUME NEW w \in Users
            PROVE  \E f \in frames'[w] : f.x3dh # Null
        <5>1. CASE w = u
          BY <5>1, <1>6, <2>2, <2>3
        <5>2. CASE w # u
          BY <5>2, <1>6, <3>2, PeerOK DEF v
        <5> QED
          BY <5>1, <5>2
      <4> QED
        BY <4>1 DEF Crossed
    <3> QED
      BY <3>3 DEF Calm
  <2>6. PICK r : r = InitAsResponder(Secret(eph, Peer(u)), SignedPrekey(Peer(u)))
    OBVIOUS
  <2>7. Standing(v)' = {r}
    <3>1. \A w \in Users : frames[w] = {}
      BY <2>4, <2>5, PeerOK DEF v
    <3>2. saved'[v] = Null /\ \A q \in Tasks : work'[v][q].op # "save"
      BY <3>1, <1>3, <1>5, <1>6 DEF FirstOK
    <3>3. frames'[Peer(v)] = {fr}
      BY <1>5, <1>6, <2>4
    <3>4. fr.x3dh # Null
      BY <2>2, <2>3
    <3>5. Standing(v)' = {InitAsResponder(Secret(f.x3dh, v), SignedPrekey(v)) :
                            f \in {g \in frames'[Peer(v)] : g.x3dh # Null}}
      BY <3>2 DEF Standing
    <3>6. {g \in frames'[Peer(v)] : g.x3dh # Null} = {fr}
      BY <3>3, <3>4
    <3>7. Standing(v)' = {InitAsResponder(Secret(fr.x3dh, v), SignedPrekey(v))}
      BY <3>5, <3>6
    <3> QED
      BY <3>7, <2>2, <2>6 DEF v
  <2>8. InStep(u, Encrypting(s), r, TRUE)'
    <3>1. frames[Peer(u)] = {}
      BY <2>5 DEF v
    <3> QED
      BY <1>1, <1>3, <2>1, <2>2, <2>6, <2>4, <3>1, FirstStep
  <2>9. Encrypting(s) \in Standing(u)' /\ r \in Standing(Peer(u))'
    BY <1>7, <2>7 DEF v
  <2> QED
    BY <2>8, <2>9, StepFrom
<1> QED
  BY <1>8, <1>9

-----------------------------------------------------------------------------

(* The session a frame is decrypted with is the one its user stands at, or   *)
(* there is none because the opening frame was not read yet.                 *)
LEMMA OpensStanding ==
    ASSUME IInv, StepOK, FirstOK, NumbersOK, Calm, NEW v \in Users, NEW t \in Tasks,
           work[v][t].op = "open", NEW f, f = work[v][t].frame
    PROVE  /\ f \in frames[Peer(v)] /\ Opened(v) = {f} /\ work[v][t].base = saved[v]
           /\ \A r \in Tasks \ {t} : work[v][r] = Idle
           /\ \A r \in Tasks : work[v][r].op # "save"
           /\ \E s \in Standing(Peer(v)), r \in Standing(v), b \in BOOLEAN :
                 /\ InStep(Peer(v), s, r, b)
                 /\ \/ Opening(v, saved[v], f) = r
                    \/ /\ Opening(v, saved[v], f) = Null /\ saved[v] = Null
                       /\ \E g \in frames[Peer(v)] \ {f} : g.x3dh # Null /\ g.id = 1
<1> DEFINE u == Peer(v)
<1>1. Typed /\ RouteOK /\ v \in Users \ overlapped
  BY DEF IInv, Calm, Disturbed
<1>2. /\ work[v][t].base = saved[v] /\ \A r \in Tasks \ {t} : work[v][r] = Idle
      /\ \A r \in Tasks : work[v][r].op # "save"
  BY <1>1, AloneOpens
<1>3. Opened(v) = {f}
  <2>1. Idle.op = "idle"
    BY DEF Idle
  <2>2. ASSUME NEW g
        PROVE  g \in Opened(v) <=> g = f
    BY <2>1, <1>2, OpenedFrames
  <2> QED
    BY <2>2
<1>4. f \in frames[u]
  BY <1>1, <1>3, InFrames
<1>5. u \in Users /\ Peer(u) = v
  BY PeerOK
<1>6. PICK s \in Standing(u), r \in Standing(Peer(u)), b \in BOOLEAN : InStep(u, s, r, b)
  BY <1>4, <1>5, StepAny
<1> HIDE DEF u
<1>7. CASE saved[v] # Null
  <2>1. Standing(v) = {saved[v]}
    BY <1>2, <1>7, StandingSaved
  <2>2. Opening(v, saved[v], f) = r
    BY <1>5, <1>6, <1>7, <2>1 DEF Opening
  <2> QED
    BY <1>2, <1>3, <1>4, <1>5, <1>6, <2>2 DEF u
<1>8. CASE saved[v] = Null
  <2>1. PICK g \in frames[u] :
           g.x3dh # Null /\ r = InitAsResponder(Secret(g.x3dh, v), SignedPrekey(v))
    BY <1>2, <1>5, <1>6, <1>8 DEF Standing, u
  <2>2. g.id = 1
    BY <2>1, <1>5 DEF FirstOK
  <2>3. CASE f = g
    <3>1. Opening(v, saved[v], f) = r
      BY <1>8, <2>1, <2>3 DEF Opening
    <3> QED
      BY <1>2, <1>3, <1>4, <1>5, <1>6, <3>1 DEF u
  <2>4. CASE f # g
    <3>1. f.x3dh = Null
      <4>1. f.x3dh # Null => f.id = 1
        BY <1>4, <1>5 DEF FirstOK
      <4> QED
        BY <4>1, <2>2, <2>4, <1>4, <1>5 DEF NumbersOK
    <3>2. Opening(v, saved[v], f) = Null
      BY <1>8, <3>1 DEF Opening
    <3> QED
      BY <1>2, <1>3, <1>4, <1>5, <1>6, <1>8, <2>1, <2>2, <2>4, <3>2 DEF u
  <2> QED
    BY <2>3, <2>4
<1> QED
  BY <1>7, <1>8

(* What Open does, in the words of the two users.                            *)
LEMMA OpenFields ==
    ASSUME Typed, NEW v \in Users, NEW t \in Tasks, Open(v, t),
           NEW f, f = work[v][t].frame, NEW state, state = Opening(v, work[v][t].base, f),
           NEW fresh, fresh = Pair(v, gen[v] + 1)
    PROVE  /\ work[v][t].op = "open" /\ frames' = frames /\ work'[v][t] = Idle
           /\ \A r \in Tasks : r # t => work'[v][r] = work[v][r]
           /\ \A w \in Users : w # v => /\ saved'[w] = saved[w] /\ work'[w] = work[w]
                                        /\ unread'[w] = unread[w]
           /\ \/ /\ state # Null /\ Decrypts(state, f.m, fresh)
                 /\ saved'[v] = Decrypting(state, f.m, fresh)
                 /\ gen' = [gen EXCEPT ![v] = gen[v] + 1]
                 /\ read' = [read EXCEPT ![v] = read[v] \cup {f}]
                 /\ unread' = unread
              \/ /\ state = Null \/ ~Decrypts(state, f.m, fresh)
                 /\ unread'[v] = unread[v] \cup ({f} \ read[v])
                 /\ UNCHANGED <<saved, gen, read>>
<1>1. /\ work[v][t].op = "open" /\ work' = [work EXCEPT ![v][t] = Idle] /\ frames' = frames
      /\ \/ /\ state # Null /\ Decrypts(state, f.m, fresh)
            /\ saved' = [saved EXCEPT ![v] = Decrypting(state, f.m, fresh)]
            /\ gen' = [gen EXCEPT ![v] = gen[v] + 1]
            /\ read' = [read EXCEPT ![v] = read[v] \cup {f}]
            /\ unread' = unread
         \/ /\ state = Null \/ ~Decrypts(state, f.m, fresh)
            /\ unread' = [unread EXCEPT ![v] = unread[v] \cup ({f} \ read[v])]
            /\ UNCHANGED <<saved, gen, read>>
  BY DEF Open
<1>2. /\ work'[v][t] = Idle /\ \A r \in Tasks : r # t => work'[v][r] = work[v][r]
      /\ \A w \in Users : w # v => work'[w] = work[w]
  BY <1>1 DEF Typed
<1>3. \A w \in Users : w # v => saved'[w] = saved[w] /\ unread'[w] = unread[w]
  BY <1>1 DEF Typed
<1>4. \/ /\ state # Null /\ Decrypts(state, f.m, fresh)
         /\ saved'[v] = Decrypting(state, f.m, fresh)
         /\ gen' = [gen EXCEPT ![v] = gen[v] + 1]
         /\ read' = [read EXCEPT ![v] = read[v] \cup {f}]
         /\ unread' = unread
      \/ /\ state = Null \/ ~Decrypts(state, f.m, fresh)
         /\ unread'[v] = unread[v] \cup ({f} \ read[v])
         /\ UNCHANGED <<saved, gen, read>>
  BY <1>1 DEF Typed
<1> QED
  BY <1>1, <1>2, <1>3, <1>4

(* A frame that was not read yet is read in step; one that cannot be read    *)
(* moves nobody.                                                             *)
LEMMA OpenStep ==
    ASSUME IInv, StepOK, FirstOK, NumbersOK, Moves, NEW v \in Users, NEW t \in Tasks, Open(v, t)
    PROVE  StepOK'
<1> SUFFICES ASSUME Calm'
             PROVE  StepOK'
  BY DEF StepOK
<1>1. Typed /\ SessionsOK /\ ReadOK /\ SentOK
  BY DEF IInv
<1>2. Calm
  BY CalmBefore
<1>3. PICK f, state, fresh : /\ f = work[v][t].frame /\ fresh = Pair(v, gen[v] + 1)
                             /\ state = Opening(v, work[v][t].base, f)
  OBVIOUS
<1>4. /\ work[v][t].op = "open" /\ frames' = frames /\ work'[v][t] = Idle
      /\ \A r \in Tasks : r # t => work'[v][r] = work[v][r]
      /\ \A w \in Users : w # v => saved'[w] = saved[w] /\ work'[w] = work[w]
      /\ \/ /\ state # Null /\ Decrypts(state, f.m, fresh)
            /\ saved'[v] = Decrypting(state, f.m, fresh)
            /\ gen' = [gen EXCEPT ![v] = gen[v] + 1]
            /\ read' = [read EXCEPT ![v] = read[v] \cup {f}]
         \/ UNCHANGED <<saved, gen, read>>
  BY <1>1, <1>3, OpenFields
<1>5. /\ f \in frames[Peer(v)] /\ work[v][t].base = saved[v]
      /\ \A r \in Tasks \ {t} : work[v][r] = Idle
      /\ \A r \in Tasks : work[v][r].op # "save"
      /\ \E s \in Standing(Peer(v)), r \in Standing(v), b \in BOOLEAN :
            /\ InStep(Peer(v), s, r, b)
            /\ Opening(v, saved[v], f) = r \/ Opening(v, saved[v], f) = Null
  BY <1>2, <1>3, <1>4, OpensStanding
<1>6. Idle.op = "idle" /\ \A r \in Tasks : work'[v][r].op # "save"
  BY <1>4, <1>5 DEF Idle
<1>7. ASSUME NEW w \in Users, w # v
      PROVE  Standing(w)' = Standing(w)
  BY <1>4, <1>7, StandingSame
<1>8. CASE UNCHANGED <<saved, gen, read>>
  <2>1. Standing(v)' = Standing(v)
    BY <1>4, <1>5, <1>6, <1>8, StandingSame
  <2> QED
    BY <1>4, <1>7, <1>8, <2>1, StepStays
<1>9. CASE /\ state # Null /\ Decrypts(state, f.m, fresh)
           /\ saved'[v] = Decrypting(state, f.m, fresh)
           /\ gen' = [gen EXCEPT ![v] = gen[v] + 1]
           /\ read' = [read EXCEPT ![v] = read[v] \cup {f}]
  <2>1. PICK u \in Users : u = Peer(v) /\ Peer(u) = v /\ u # v
    BY PeerOK
  <2>2. PICK s \in Standing(u), r \in Standing(v), b \in BOOLEAN : InStep(u, s, r, b) /\ state = r
    BY <1>3, <1>5, <1>9, <2>1
  <2>3. /\ s \in Sessions /\ Well(s) /\ r \in Sessions /\ Well(r) /\ Fit(r)
    BY <2>2, <1>1, StandingWell
  <2>4. f \in Frames /\ f.m \in Messages /\ fresh \in Pairs
    <3>1. f \in Frames
      BY <1>1, <1>5, <2>1 DEF Typed
    <3>2. gen[v] \in Nat
      BY <1>1 DEF Typed
    <3> QED
      BY <3>1, <3>2, <1>3 DEF Frames, Pair, Pairs
  <2>5. Stored(Decrypting(r, f.m, fresh)) /\ ~Consumed(r, f.m.key)
    BY <1>9, <2>2, <2>3, <2>4, DecryptingWorks
  <2>6. f \notin read[v]
    <3> SUFFICES ASSUME f \in read[v]
                 PROVE  FALSE
      OBVIOUS
    <3>1. v \in Users \ overlapped
      BY <1>2 DEF Calm, Disturbed
    <3>2. saved[v] # Null /\ Consumed(saved[v], f.m.key)
      BY <3>1, <1>1 DEF ReadOK
    <3>3. r = saved[v]
      BY <3>2, <1>5, <2>2, StandingSaved
    <3> QED
      BY <3>2, <3>3, <2>5
  <2>7. \A g, h \in frames[u] : g.m.key = h.m.key => g = h
    BY <1>1, <1>2 DEF SentOK, Calm
  <2>8. PICK c \in BOOLEAN : InStep(u, s, Decrypting(r, f.m, fresh), c)'
    <3>1. /\ f \in frames[u] /\ v = Peer(u) /\ fresh = Pair(v, gen[v] + 1) /\ frames' = frames
          /\ gen' = [gen EXCEPT ![v] = gen[v] + 1]
          /\ read' = [read EXCEPT ![v] = read[v] \cup {f}]
          /\ InStep(u, s, r, b) /\ Typed
      BY <1>1, <1>3, <1>4, <1>5, <1>9, <2>1, <2>2
    <3>2. \/ InStep(u, s, Decrypting(r, f.m, fresh), TRUE)'
          \/ InStep(u, s, Decrypting(r, f.m, fresh), FALSE)'
      BY <3>1, <2>3, <2>6, <2>7, ReadStep
    <3> QED
      BY <3>2
  <2>9. Decrypting(r, f.m, fresh) \in Standing(v)'
    <3>1. saved'[v] = Decrypting(r, f.m, fresh)
      BY <1>9, <2>2
    <3>2. saved'[v] # Null
      BY <3>1, <2>5, SessionAssumption DEF Stored
    <3> QED
      BY <3>1, <3>2, <1>6, StandingSaved
  <2>10. s \in Standing(u)'
    BY <1>7, <2>1, <2>2
  <2>11. PICK new : new = Decrypting(r, f.m, fresh)
    OBVIOUS
  <2>12. InStep(u, s, new, c)' /\ new \in Standing(Peer(u))'
    BY <2>1, <2>8, <2>9, <2>11
  <2> QED
    BY <2>10, <2>12, StepFrom
<1> QED
  BY <1>4, <1>8, <1>9

-----------------------------------------------------------------------------

(* Without a session there is one frame to begin with; while it is on its    *)
(* way, no frame after it is opened.                                         *)
LEMMA OpenerComesFirst ==
    ASSUME IInv, NumbersOK, OrderOK, GivenUpOK, Calm, NEW v \in Users, ~MissedOpener(v),
           saved[v] = Null, NEW f \in frames[Peer(v)], Opened(v) = {f},
           NEW g \in frames[Peer(v)] \ {f}, g.x3dh # Null, g.id = 1
    PROVE  FALSE
<1>1. Typed /\ RouteOK /\ ReadOK
  BY DEF IInv
<1>2. Peer(v) \in Users
  BY PeerOK
<1>3. /\ Cardinality(frames[Peer(v)]) \in Nat
      /\ \A h \in frames[Peer(v)] : h.id \in 1..Cardinality(frames[Peer(v)]) /\ h.id \in Nat
  BY <1>1, InFrames
<1>4. g.id < f.id
  <2>1. f.id # g.id
    BY <1>2 DEF NumbersOK
  <2> QED
    BY <2>1, <1>3
<1>5. g \notin read[v]
  <2>1. v \in Users \ overlapped
    BY DEF Calm, Disturbed
  <2> QED
    BY <2>1, <1>1 DEF ReadOK
<1>6. g \notin unread[v]
  <2> SUFFICES ASSUME g \in unread[v]
               PROVE  FALSE
    OBVIOUS
  <2>1. Cardinality(LostBefore(v, g)) > MaxSkip
    BY DEF GivenUpOK
  <2>2. LostBefore(v, g) = {}
    BY <1>3 DEF LostBefore
  <2> QED
    BY <2>1, <2>2, FS_EmptySet, RatchetAssumption
<1>7. g \notin mailbox[v]
  BY <1>4, <1>5, <1>6 DEF OrderOK
<1>8. g \notin missed[v]
  BY DEF MissedOpener
<1>9. g \in mailbox[v] \cup read[v] \cup unread[v] \cup missed[v] \cup Opened(v)
  BY <1>1 DEF RouteOK
<1> QED
  BY <1>5, <1>6, <1>7, <1>8, <1>9

(* What cannot be read has more lost before it than may be skipped.          *)
LEMMA LostEnough ==
    ASSUME IInv, NumbersOK, OrderOK, GivenUpOK, Calm, NEW v \in Users, ~MissedOpener(v),
           NEW f \in frames[Peer(v)], Opened(v) = {f},
           Cardinality({g \in frames[Peer(v)] : g.id < f.id /\ g \notin read[v]}) > MaxSkip
    PROVE  Cardinality(LostBefore(v, f)) > MaxSkip
<1> DEFINE gap == {g \in frames[Peer(v)] : g.id < f.id /\ g \notin read[v]}
<1>1. Typed /\ RouteOK
  BY DEF IInv
<1>2. /\ IsFiniteSet(frames[Peer(v)]) /\ LostBefore(v, f) \subseteq frames[Peer(v)]
      /\ \A h \in frames[Peer(v)] : h.id \in Nat
  BY <1>1, PeerOK, InFrames DEF Typed, LostBefore
<1>3. ASSUME NEW S \in SUBSET LostBefore(v, f), Cardinality(S) > MaxSkip
      PROVE  Cardinality(LostBefore(v, f)) > MaxSkip
  <2>1. IsFiniteSet(LostBefore(v, f))
    BY <1>2, FS_Subset
  <2>2. IsFiniteSet(S) /\ Cardinality(S) <= Cardinality(LostBefore(v, f))
    BY <2>1, FS_Subset
  <2>3. Cardinality(S) \in Nat /\ Cardinality(LostBefore(v, f)) \in Nat /\ MaxSkip \in Nat
    BY <2>1, <2>2, FS_CardinalityType, RatchetAssumption
  <2> QED
    BY <2>2, <2>3, <1>3
<1>4. CASE \E g \in gap : g \in unread[v]
  <2>1. PICK g \in frames[Peer(v)] : g.id < f.id /\ g \in unread[v]
    BY <1>4
  <2>2. Cardinality(LostBefore(v, g)) > MaxSkip
    BY <2>1 DEF GivenUpOK
  <2>3. LostBefore(v, g) \subseteq LostBefore(v, f)
    BY <1>2, <2>1 DEF LostBefore
  <2> QED
    BY <1>3, <2>2, <2>3
<1>5. CASE ~ \E g \in gap : g \in unread[v]
  <2>1. ASSUME NEW g \in gap
        PROVE  g \in LostBefore(v, f)
    <3>1. g \in frames[Peer(v)] /\ g.id < f.id /\ g \notin read[v] /\ g \notin unread[v]
      BY <1>5
    <3>2. g \notin mailbox[v]
      BY <3>1 DEF OrderOK
    <3>3. g # f
      BY <3>1, <1>2
    <3> QED
      BY <3>1, <3>2, <3>3 DEF LostBefore, Around
  <2>2. gap \subseteq LostBefore(v, f)
    BY <2>1
  <2> HIDE DEF gap
  <2>3. Cardinality(gap) > MaxSkip
    BY DEF gap
  <2> QED
    BY <1>3, <2>2, <2>3
<1> QED
  BY <1>4, <1>5

(* A frame that is given up cannot be read.                                  *)
LEMMA OpenGivesUp ==
    ASSUME RInv, Calm, NEW v \in Users, ~MissedOpener(v), NEW t \in Tasks, Open(v, t),
           NEW f \in unread'[v], f \notin unread[v]
    PROVE  Cardinality(LostBefore(v, f)) > MaxSkip
<1>1. IInv /\ StepOK /\ FirstOK /\ NumbersOK /\ OrderOK /\ GivenUpOK
  BY DEF RInv
<1>2. Typed /\ ReadOK
  BY <1>1 DEF IInv
<1>3. PICK h, state, fresh : /\ h = work[v][t].frame /\ fresh = Pair(v, gen[v] + 1)
                             /\ state = Opening(v, work[v][t].base, h)
  OBVIOUS
<1>4. /\ work[v][t].op = "open"
      /\ state = Null \/ ~Decrypts(state, h.m, fresh)
      /\ unread'[v] = unread[v] \cup ({h} \ read[v])
  BY <1>2, <1>3, OpenFields
<1>5. h = f /\ f \notin read[v]
  BY <1>4
<1>6. f = work[v][t].frame
  BY <1>3, <1>5
<1>7. /\ f \in frames[Peer(v)] /\ Opened(v) = {f} /\ work[v][t].base = saved[v]
      /\ \A r \in Tasks : work[v][r].op # "save"
      /\ \E s \in Standing(Peer(v)), r \in Standing(v), b \in BOOLEAN :
            /\ InStep(Peer(v), s, r, b)
            /\ \/ Opening(v, saved[v], f) = r
               \/ /\ Opening(v, saved[v], f) = Null /\ saved[v] = Null
                  /\ \E g \in frames[Peer(v)] \ {f} : g.x3dh # Null /\ g.id = 1
  BY <1>1, <1>4, <1>6, OpensStanding
<1>8. PICK u \in Users : u = Peer(v) /\ Peer(u) = v
  BY PeerOK
<1>9. PICK s \in Standing(u), r \in Standing(v), b \in BOOLEAN :
         /\ InStep(u, s, r, b)
         /\ \/ state = r
            \/ saved[v] = Null /\ \E g \in frames[Peer(v)] \ {f} : g.x3dh # Null /\ g.id = 1
  BY <1>3, <1>5, <1>7, <1>8
<1>10. CASE saved[v] = Null /\ \E g \in frames[Peer(v)] \ {f} : g.x3dh # Null /\ g.id = 1
  BY <1>1, <1>7, <1>10, OpenerComesFirst
<1>11. CASE state = r
  <2>1. s \in Sessions /\ Well(s) /\ r \in Sessions /\ Well(r)
    BY <1>1, <1>8, <1>9, StandingWell
  <2>2. fresh \in Pairs
    BY <1>2, <1>3 DEF Typed, Pair, Pairs
  <2>3. r # Null
    BY <2>1, SessionAssumption
  <2>4. \A g \in read[v] : Consumed(r, g.m.key)
    <3>1. v \in Users \ overlapped
      BY DEF Calm, Disturbed
    <3>2. ASSUME NEW g \in read[v]
          PROVE  Consumed(r, g.m.key)
      <4>1. saved[v] # Null /\ Consumed(saved[v], g.m.key)
        BY <3>1, <1>2 DEF ReadOK
      <4>2. r = saved[v]
        BY <4>1, <1>7, <1>9, StandingSaved
      <4> QED
        BY <4>1, <4>2
    <3> QED
      BY <3>2
  <2>5. ~Decrypts(r, f.m, fresh)
    BY <1>4, <1>5, <1>11, <2>3
  <2>6. f \in frames[u] /\ f \notin read[Peer(u)] /\ \A g \in read[Peer(u)] : Consumed(r, g.m.key)
    BY <1>5, <1>7, <1>8, <2>4
  <2>7. Cardinality({g \in frames[u] : g.id < f.id /\ g \notin read[Peer(u)]}) > MaxSkip
    BY <1>2, <1>9, <2>1, <2>2, <2>5, <2>6, Refused
  <2>8. Cardinality({g \in frames[Peer(v)] : g.id < f.id /\ g \notin read[v]}) > MaxSkip
    BY <1>8, <2>7
  <2> QED
    BY <1>1, <1>7, <2>8, LostEnough
<1> QED
  BY <1>9, <1>10, <1>11

(* Open gives up no other frame, and what is lost stays lost.                *)
LEMMA GivenUpKeep ==
    ASSUME RInv, Typed', Moves, [Next]_vars
    PROVE  GivenUpOK'
<1> SUFFICES ASSUME Calm', NEW w \in Users, ~MissedOpener(w)', NEW f \in unread'[w]
             PROVE  Cardinality(LostBefore(w, f)') > MaxSkip
  BY DEF GivenUpOK
<1>1. IInv /\ NumbersOK /\ GivenUpOK
  BY DEF RInv
<1>2. Typed /\ RouteOK
  BY <1>1 DEF IInv
<1>3. Calm /\ ~MissedOpener(w)
  BY CalmBefore DEF MissedOpener, Moves, ReadMoves
<1>4. /\ LostBefore(w, f) \subseteq LostBefore(w, f)'
      /\ LostBefore(w, f)' \subseteq frames'[Peer(w)]
  BY <1>1, <1>2, LostKeep DEF LostBefore
<1>5. Cardinality(LostBefore(w, f)) > MaxSkip
  <2>1. CASE f \in unread[w]
    BY <2>1, <1>1, <1>3 DEF GivenUpOK
  <2>2. CASE f \notin unread[w]
    <3>1. ASSUME NEW u \in Users, NEW t \in Tasks, Open(u, t)
          PROVE  Cardinality(LostBefore(w, f)) > MaxSkip
      <4>1. u = w
        BY <2>2, <3>1, <1>2, OpenFields
      <4> QED
        BY <4>1, <2>2, <3>1, <1>3, OpenGivesUp
    <3>2. unread' # unread
      BY <2>2
    <3>3. ~ UNCHANGED vars
      BY <3>2 DEF vars
    <3>4. \E u \in Users : \E t \in Tasks : Open(u, t)
      BY <3>2, <3>3 DEF Next, StartSend, Transmit, FinishSend, FailSend, Arrive, Repeat, Crash
    <3> QED
      BY <3>1, <3>4
  <2> QED
    BY <2>1, <2>2
<1> QED
  BY <1>4, <1>5, ManyStay

-----------------------------------------------------------------------------

(* The invariant holds at first, and every step keeps it.                    *)
LEMMA InitRInv == Init => RInv
<1> SUFFICES ASSUME Init
             PROVE  RInv
  OBVIOUS
<1>1. IInv
  BY InitIInv
<1>2. \A u \in Users : /\ saved[u] = Null /\ frames[u] = {} /\ mailbox[u] = {} /\ unread[u] = {}
                       /\ \A t \in Tasks : work[u][t] = Idle
  BY DEF Init
<1>3. Idle.op = "idle"
  BY DEF Idle
<1>4. StepOK
  BY <1>2 DEF StepOK
<1>5. FirstOK
  BY <1>2, <1>3 DEF FirstOK
<1>6. NumbersOK /\ OrderOK /\ GivenUpOK
  BY <1>2 DEF NumbersOK, OrderOK, GivenUpOK
<1> QED
  BY <1>1, <1>4, <1>5, <1>6 DEF RInv

LEMMA NextRInv == RInv /\ [Next]_vars => RInv'
<1> SUFFICES ASSUME RInv, [Next]_vars
             PROVE  RInv'
  OBVIOUS
<1>1. IInv /\ StepOK /\ FirstOK /\ NumbersOK /\ OrderOK
  BY DEF RInv
<1>2. IInv'
  BY <1>1, NextIInv
<1>3. Typed /\ RouteOK /\ Typed'
  BY <1>1, <1>2 DEF IInv
<1>4. Moves
  BY <1>3, NextMoves
<1>5. FirstOK'
  BY <1>1, <1>3, FirstKeep
<1>6. NumbersOK' /\ OrderOK'
  BY <1>1, <1>3, <1>4, NumbersKeep, OrderKeep
<1>7. GivenUpOK'
  BY <1>3, <1>4, GivenUpKeep
<1>8. StepOK'
  <2>1. CASE UNCHANGED vars
    <3>1. UNCHANGED <<saved, work, frames, gen, read>>
      BY <2>1 DEF vars
    <3>2. \A w \in Users : Standing(w)' = Standing(w)
      BY <3>1, StandingSame
    <3> QED
      BY <3>1, <3>2, <1>1, <1>4, StepStays
  <2>2. ASSUME NEW u \in Users, NEW t \in Tasks, StartSend(u, t) \/ Arrive(u, t)
        PROVE  StepOK'
    BY <2>2, <1>1, <1>3, <1>4, QuietStep
  <2>3. ASSUME NEW u \in Users, NEW t \in Tasks, Transmit(u, t)
        PROVE  StepOK'
    BY <2>3, <1>1, <1>4, TransmitStep
  <2>4. ASSUME NEW u \in Users, NEW t \in Tasks, FinishSend(u, t) \/ FailSend(u, t)
        PROVE  StepOK'
    BY <2>4, <1>1, <1>4, SaveStep
  <2>5. ASSUME NEW u \in Users, NEW t \in Tasks, Open(u, t)
        PROVE  StepOK'
    BY <2>5, <1>1, <1>4, OpenStep
  <2>6. ASSUME NEW u \in Users, Repeat(u) \/ Crash(u)
        PROVE  StepOK'
    BY <2>6, <1>1, <1>3, <1>4, QuietStep
  <2> QED
    BY <2>1, <2>2, <2>3, <2>4, <2>5, <2>6 DEF Next
<1> QED
  BY <1>1, <1>2, <1>5, <1>6, <1>7, <1>8 DEF RInv

(* A frame is given up only if the two opened the conversation at once, one  *)
(* of them had overlapping operations or was cut off between the send and    *)
(* the save, a crash swallowed the opening frame, or more than MAX_SKIP      *)
(* frames before it were swallowed (sessionManager.ts:113-146, 294-327,      *)
(* ratchet.ts:141-186), for any number of messages, crashes and repeats.     *)
THEOREM SessionUnread == Spec => []UnreadOnlyIfDisturbed
<1>1. ASSUME RInv
      PROVE  UnreadOnlyIfDisturbed
  <2> SUFFICES ASSUME NEW u \in Users, NEW f \in unread[u],
                      ~Crossed, Disturbed = {}, ~ \E g \in missed[u] : g.x3dh # Null
               PROVE  Cardinality(Gap(u, f)) > MaxSkip
    BY DEF UnreadOnlyIfDisturbed
  <2>1. Typed
    BY <1>1 DEF RInv, IInv
  <2>2. Cardinality(LostBefore(u, f)) > MaxSkip
    BY <1>1 DEF RInv, GivenUpOK, Calm, MissedOpener
  <2>3. LostBefore(u, f) \subseteq Gap(u, f)
    BY DEF LostBefore, Gap, Around
  <2>4. IsFiniteSet(Gap(u, f))
    BY <2>1, PeerOK, FS_Subset DEF Typed, Gap
  <2>5. /\ IsFiniteSet(LostBefore(u, f))
        /\ Cardinality(LostBefore(u, f)) <= Cardinality(Gap(u, f))
    BY <2>3, <2>4, FS_Subset
  <2>6. /\ Cardinality(LostBefore(u, f)) \in Nat /\ Cardinality(Gap(u, f)) \in Nat
        /\ MaxSkip \in Nat
    BY <2>4, <2>5, FS_CardinalityType, RatchetAssumption
  <2> QED
    BY <2>2, <2>5, <2>6
<1> QED
  BY <1>1, InitRInv, NextRInv, PTL DEF Spec
=============================================================================
