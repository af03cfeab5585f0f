--------------------------- MODULE SessionProofs ---------------------------
(***************************************************************************)
(* Proofs about Session, for any bounds, any number of operations in hand  *)
(* and any MAX_SKIP: forward secrecy, no frame read twice, a key of its    *)
(* own for each frame sent.                                                *)
(*                                                                         *)
(* The argument never asks which key pair went into a chain, only how many *)
(* Diffie-Hellman steps did.  A session is past a key when the key's chain *)
(* is shorter than the root key, or is a chain of the session whose        *)
(* counter is beyond the key; the ratchet only moves on, so a session that *)
(* is past a key stays so and can neither decrypt with it nor encrypt      *)
(* under it.                                                               *)
(***************************************************************************)
EXTENDS Session, SequenceTheorems, FiniteSetTheorems, TLAPS

(* Messages, frames on their way, and operations in hand.                    *)
Messages == [dh : Pairs, pn : Nat, n : Nat, key : Keys]

Frames == [id : Nat, x3dh : Pairs \cup {Null}, m : Messages]

Ops ==
    {Idle}
    \cup [op : {"send"}, base : Sessions \cup {Null}]
    \cup [op : {"save"}, state : Sessions]
    \cup [op : {"open"}, base : Sessions \cup {Null}, frame : Frames]

(* The values of the variables.                                              *)
Typed ==
    /\ saved \in [Users -> Sessions \cup {Null}]
    /\ work \in [Users -> [Tasks -> Ops]]
    /\ mailbox \in [Users -> SUBSET Frames]
    /\ gen \in [Users -> Nat]
    /\ frames \in [Users -> SUBSET Frames]
    /\ \A u \in Users : IsFiniteSet(frames[u])
    /\ read \in [Users -> SUBSET Frames] /\ reread \in [Users -> SUBSET Frames]
    /\ unread \in [Users -> SUBSET Frames] /\ missed \in [Users -> SUBSET Frames]
    /\ overlapped \in SUBSET Users /\ cut \in SUBSET Users

(* Chains grow with every Diffie-Hellman step, so that their lengths say in  *)
(* which order they came: the root key is the longest, the receiving chain   *)
(* and those of the cached keys are shorter.  Of the receiving chain the     *)
(* cache has keys from before the counter only, and each chain in it is the  *)
(* chain of one key of the other user.                                       *)
Well(s) ==
    /\ s.recv # Null => Len(s.recv) < Len(s.root)
    /\ \A e \in s.skipped :
          /\ e.n = e.key.n /\ Len(e.key.chain) < Len(s.root)
          /\ e.key.chain = s.recv => e.dh = s.dhr /\ e.n < s.nr
          /\ \A d \in s.skipped : d.key.chain = e.key.chain => d.dh = e.dh

(* A session that was used: its sending chain is named by its root key.      *)
Stored(s) == s \in Sessions /\ Well(s) /\ s.send = s.root

(* The session is past a key it received with, and past one it sent with.    *)
Consumed(s, key) ==
    /\ Len(key.chain) < Len(s.root)
    /\ s.recv = key.chain => key.n < s.nr
    /\ \A e \in s.skipped : e.key # key

Spent(s, key) ==
    /\ Len(key.chain) <= Len(s.root)
    /\ s.send = key.chain => key.n < s.ns
    /\ s.recv # key.chain
    /\ \A e \in s.skipped : e.key.chain # key.chain

(* A state that can decrypt: it has sent, or it is the responder's first.    *)
Fit(s) == s.send = s.root \/ (s.recv = Null /\ s.skipped = {})

(* What decrypting a message changes: the root key grows, the counter of a   *)
(* chain only goes on, and a key is put in the cache only from a position    *)
(* the receiving chain had not come to.                                      *)
Progress(s, r) ==
    /\ Len(r.root) >= Len(s.root)
    /\ (r.send = s.send /\ r.ns >= s.ns) \/ (r.send \in Chains /\ Len(r.send) > Len(s.root))
    /\ (r.recv = s.recv /\ r.nr >= s.nr) \/ (r.recv \in Chains /\ Len(r.recv) > Len(s.root))
    /\ \A e \in r.skipped :
          \/ e \in s.skipped
          \/ s.recv # Null /\ e.key.chain = s.recv /\ e.key.n >= s.nr
          \/ Len(e.key.chain) > Len(s.root)

(* All sessions, stored and in hand, have been used.                         *)
SessionsOK ==
    /\ \A u \in Users : saved[u] # Null => Stored(saved[u])
    /\ \A u \in Users : \A t \in Tasks :
          /\ work[u][t].op \in {"send", "open"} /\ work[u][t].base # Null
                => Stored(work[u][t].base)
          /\ work[u][t].op = "save" => Stored(work[u][t].state)

(* Who never had two operations in hand works on what is stored.             *)
AloneOK ==
    \A u \in Users \ overlapped : \A t \in Tasks :
        work[u][t] # Idle =>
            /\ \A r \in Tasks \ {t} : work[u][r] = Idle
            /\ work[u][t].op \in {"send", "open"} => work[u][t].base = saved[u]

(* What was read stays consumed.                                             *)
ReadOK ==
    \A u \in Users \ overlapped :
        /\ reread[u] = {}
        /\ \A f \in read[u] :
              /\ saved[u] # Null /\ Consumed(saved[u], f.m.key)
              /\ \A t \in Tasks : work[u][t].op = "save" =>
                     Consumed(work[u][t].state, f.m.key)

(* What was sent stays spent, in the session that is about to be stored if   *)
(* there is one.                                                             *)
SentOK ==
    \A u \in Users \ Disturbed :
        /\ \A f, g \in frames[u] : f.m.key = g.m.key => f = g
        /\ \A f \in frames[u] : \A t \in Tasks :
              work[u][t].op = "save" => Spent(work[u][t].state, f.m.key)
        /\ (\A t \in Tasks : work[u][t].op # "save") =>
              \A f \in frames[u] : saved[u] # Null /\ Spent(saved[u], f.m.key)

(* Every frame is somewhere.                                                 *)
Opened(u) == {w.frame : w \in {x \in {work[u][t] : t \in Tasks} : x.op = "open"}}

RouteOK ==
    /\ \A u \in Users :
          frames[Peer(u)] = mailbox[u] \cup read[u] \cup unread[u] \cup missed[u] \cup Opened(u)
    /\ \A u \in Users : reread[u] \subseteq read[u]

IInv ==
    /\ Typed
    /\ SessionsOK
    /\ AloneOK
    /\ ReadOK
    /\ SentOK
    /\ RouteOK

-----------------------------------------------------------------------------

(* A Diffie-Hellman step is a longer chain.                                  *)
LEMMA KdfRkLonger ==
    ASSUME NEW root \in Chains, NEW p \in Pairs, NEW q \in Pairs
    PROVE  KdfRk(root, p, q) \in Chains /\ Len(KdfRk(root, p, q)) = Len(root) + 1
<1>1. {p, q} \in SUBSET Pairs
  OBVIOUS
<1> QED
  BY <1>1, AppendProperties DEF KdfRk, Chains

(* Lengths are numbers.                                                      *)
LEMMA ChainLength ==
    ASSUME NEW c \in Chains
    PROVE  Len(c) \in Nat
BY LenProperties DEF Chains

(* The fields of a state that skipped keys.                                  *)
LEMMA SkipFields ==
    ASSUME NEW s \in Sessions, NEW until \in Nat
    PROVE  /\ Skip(s, until) \in Sessions
           /\ Skip(s, until).dhs = s.dhs /\ Skip(s, until).dhr = s.dhr
           /\ Skip(s, until).root = s.root /\ Skip(s, until).send = s.send
           /\ Skip(s, until).recv = s.recv /\ Skip(s, until).ns = s.ns
           /\ Skip(s, until).pn = s.pn
           /\ Skip(s, until).nr >= s.nr
           /\ s.recv # Null => Skip(s, until).nr >= until
           /\ \A e \in Skip(s, until).skipped :
                 \/ e \in s.skipped
                 \/ /\ s.recv # Null
                    /\ e.n \in s.nr..(until - 1)
                    /\ e = [dh |-> s.dhr, n |-> e.n, key |-> MessageKey(s.recv, e.n)]
           /\ s.recv = Null => Skip(s, until) = s
<1> DEFINE new == {[dh |-> s.dhr, n |-> i, key |-> MessageKey(s.recv, i)] : i \in s.nr..(until - 1)}
<1>1. CASE s.recv = Null \/ until <= s.nr
  <2>1. Skip(s, until) = s
    BY <1>1 DEF Skip
  <2>2. s.nr \in Nat
    BY DEF Sessions
  <2> QED
    BY <1>1, <2>1, <2>2
<1>2. CASE ~ (s.recv = Null \/ until <= s.nr)
  <2>1. Skip(s, until) = [s EXCEPT !.nr = until, !.skipped = s.skipped \cup new]
    BY <1>2 DEF Skip
  <2>2. /\ s.nr \in Nat /\ s.dhs \in Pairs /\ s.dhr \in Pairs \cup {Null} /\ s.root \in Chains
        /\ s.send \in Chains \cup {Null} /\ s.recv \in Chains /\ s.ns \in Nat /\ s.pn \in Nat
        /\ s.skipped \in SUBSET Entries
    BY <1>2 DEF Sessions
  <2>3. new \in SUBSET Entries
    BY <2>2 DEF Entries, Keys, MessageKey
  <2>4. \A e \in new : /\ e.n \in s.nr..(until - 1)
                       /\ e = [dh |-> s.dhr, n |-> e.n, key |-> MessageKey(s.recv, e.n)]
    OBVIOUS
  <2>5. s = [dhs |-> s.dhs, dhr |-> s.dhr, root |-> s.root, send |-> s.send, recv |-> s.recv,
             ns |-> s.ns, nr |-> s.nr, pn |-> s.pn, skipped |-> s.skipped]
    BY DEF Sessions
  <2>6. Skip(s, until) = [dhs |-> s.dhs, dhr |-> s.dhr, root |-> s.root, send |-> s.send,
                          recv |-> s.recv, ns |-> s.ns, nr |-> until, pn |-> s.pn,
                          skipped |-> s.skipped \cup new]
    BY <2>1, <2>5
  <2>7. s.skipped \cup new \in SUBSET Entries
    BY <2>2, <2>3
  <2> HIDE DEF new
  <2>8. Skip(s, until) \in Sessions
    BY <2>2, <2>6, <2>7 DEF Sessions
  <2>9. until >= s.nr
    BY <1>2, <2>2
  <2> QED
    BY <1>2, <2>2, <2>4, <2>6, <2>8, <2>9
<1> QED
  BY <1>1, <1>2

(* Skipping keeps a state in shape.                                          *)
LEMMA SkipWell ==
    ASSUME NEW s \in Sessions, NEW until \in Nat, Well(s)
    PROVE  Well(Skip(s, until))
<1> DEFINE r == Skip(s, until)
<1>1. /\ r \in Sessions /\ r.dhr = s.dhr /\ r.root = s.root /\ r.recv = s.recv
      /\ r.nr >= s.nr
      /\ s.recv # Null => r.nr >= until
      /\ \A e \in r.skipped :
            \/ e \in s.skipped
            \/ /\ s.recv # Null
               /\ e.n \in s.nr..(until - 1)
               /\ e = [dh |-> s.dhr, n |-> e.n, key |-> MessageKey(s.recv, e.n)]
  BY SkipFields
<1>2. /\ s.nr \in Nat /\ r.nr \in Nat /\ s.skipped \subseteq Entries /\ r.skipped \subseteq Entries
  BY <1>1 DEF Sessions
<1> HIDE DEF r
<1>3. ASSUME NEW e \in r.skipped
      PROVE  \/ e \in s.skipped
             \/ /\ s.recv # Null /\ e.n \in Nat /\ e.n < until /\ e.n = e.key.n
                /\ e.key.chain = s.recv /\ e.dh = s.dhr
  BY <1>1, <1>2 DEF MessageKey
<1>4. r.recv # Null => Len(r.recv) < Len(r.root)
  BY <1>1 DEF Well
<1>5. ASSUME NEW e \in r.skipped
      PROVE  /\ e.n = e.key.n /\ Len(e.key.chain) < Len(r.root)
             /\ e.key.chain = r.recv => e.dh = r.dhr /\ e.n < r.nr
  <2>1. CASE e \in s.skipped
    <3>1. e.n \in Nat
      BY <2>1, <1>2 DEF Entries
    <3>2. /\ e.n = e.key.n /\ Len(e.key.chain) < Len(s.root)
          /\ e.key.chain = s.recv => e.dh = s.dhr /\ e.n < s.nr
      BY <2>1 DEF Well
    <3> QED
      BY <1>1, <1>2, <3>1, <3>2
  <2>2. CASE e \notin s.skipped
    <3>1. s.recv # Null /\ e.n \in Nat /\ e.n < until /\ e.n = e.key.n /\ e.key.chain = s.recv /\ e.dh = s.dhr
      BY <1>3, <2>2
    <3>2. Len(s.recv) < Len(s.root)
      BY <3>1 DEF Well
    <3> QED
      BY <1>1, <1>2, <3>1, <3>2
  <2> QED
    BY <2>1, <2>2
<1>6. ASSUME NEW e \in r.skipped, NEW d \in r.skipped, d.key.chain = e.key.chain
      PROVE  d.dh = e.dh
  <2>1. CASE e \in s.skipped /\ d \in s.skipped
    BY <2>1, <1>6 DEF Well
  <2>2. CASE e \notin s.skipped /\ d \notin s.skipped
    BY <2>2, <1>3
  <2>3. CASE e \in s.skipped /\ d \notin s.skipped
    BY <2>3, <1>3, <1>6 DEF Well
  <2>4. CASE e \notin s.skipped /\ d \in s.skipped
    BY <2>4, <1>3, <1>6 DEF Well
  <2> QED
    BY <2>1, <2>2, <2>3, <2>4
<1> QED
  BY <1>4, <1>5, <1>6 DEF Well, r

(* The fields of a state that took a Diffie-Hellman step, and its shape.     *)
LEMMA DhRatchetFields ==
    ASSUME NEW s \in Sessions, NEW remote \in Pairs, NEW fresh \in Pairs
    PROVE  /\ DhRatchet(s, remote, fresh) \in Sessions
           /\ DhRatchet(s, remote, fresh).send = DhRatchet(s, remote, fresh).root
           /\ DhRatchet(s, remote, fresh).recv \in Chains
           /\ Len(DhRatchet(s, remote, fresh).recv) = Len(s.root) + 1
           /\ Len(DhRatchet(s, remote, fresh).root) = Len(s.root) + 2
           /\ DhRatchet(s, remote, fresh).dhr = remote
           /\ DhRatchet(s, remote, fresh).nr = 0
           /\ DhRatchet(s, remote, fresh).skipped = s.skipped
<1> DEFINE root == KdfRk(s.root, s.dhs, remote)
           next == KdfRk(root, fresh, remote)
<1>1. /\ s.dhs \in Pairs /\ s.root \in Chains /\ s.ns \in Nat /\ s.skipped \in SUBSET Entries
  BY DEF Sessions
<1>2. root \in Chains /\ Len(root) = Len(s.root) + 1
  BY <1>1, KdfRkLonger
<1>3. next \in Chains /\ Len(next) = Len(root) + 1
  BY <1>2, KdfRkLonger
<1>4. s = [dhs |-> s.dhs, dhr |-> s.dhr, root |-> s.root, send |-> s.send, recv |-> s.recv,
           ns |-> s.ns, nr |-> s.nr, pn |-> s.pn, skipped |-> s.skipped]
  BY DEF Sessions
<1>5. DhRatchet(s, remote, fresh) =
        [s EXCEPT !.pn = s.ns, !.ns = 0, !.nr = 0, !.dhr = remote, !.recv = root, !.dhs = fresh,
                  !.root = next, !.send = next]
  BY DEF DhRatchet
<1>6. Len(s.root) \in Nat
  BY <1>1, ChainLength
<1> HIDE DEF root, next
<1>7. DhRatchet(s, remote, fresh) =
        [dhs |-> fresh, dhr |-> remote, root |-> next, send |-> next, recv |-> root,
         ns |-> 0, nr |-> 0, pn |-> s.ns, skipped |-> s.skipped]
  BY <1>4, <1>5
<1>8. DhRatchet(s, remote, fresh) \in Sessions
  BY <1>1, <1>2, <1>3, <1>7 DEF Sessions
<1>9. Len(next) = Len(s.root) + 2
  BY <1>2, <1>3, <1>6
<1> QED
  BY <1>2, <1>7, <1>8, <1>9

(* The state that ratchetDecrypt holds at the message's own chain.           *)
LEMMA TurnedFields ==
    ASSUME NEW s \in Sessions, Well(s), NEW m \in Messages, NEW fresh \in Pairs
    PROVE  /\ Turned(s, m, fresh) \in Sessions
           /\ Well(Turned(s, m, fresh))
           /\ \/ Turned(s, m, fresh) = s
              \/ /\ Turned(s, m, fresh).send = Turned(s, m, fresh).root
                 /\ Turned(s, m, fresh).recv \in Chains
                 /\ Len(Turned(s, m, fresh).recv) = Len(s.root) + 1
                 /\ Len(Turned(s, m, fresh).root) = Len(s.root) + 2
                 /\ \A e \in Turned(s, m, fresh).skipped :
                       \/ e \in s.skipped
                       \/ s.recv # Null /\ e.key.chain = s.recv /\ e.key.n >= s.nr
<1> DEFINE t == Turned(s, m, fresh)
           q == Skip(s, m.pn)
<1>1. CASE m.dh = s.dhr
  BY <1>1 DEF Turned
<1>2. CASE m.dh # s.dhr
  <2>1. m.pn \in Nat /\ m.dh \in Pairs
    BY DEF Messages
  <2>2. /\ q \in Sessions /\ q.root = s.root /\ Well(q)
        /\ \A e \in q.skipped :
              \/ e \in s.skipped
              \/ /\ s.recv # Null /\ e.n \in s.nr..(m.pn - 1)
                 /\ e = [dh |-> s.dhr, n |-> e.n, key |-> MessageKey(s.recv, e.n)]
    BY <2>1, SkipFields, SkipWell
  <2>3. t = DhRatchet(q, m.dh, fresh)
    BY <1>2 DEF Turned
  <2> HIDE DEF t, q
  <2>4. /\ t \in Sessions /\ t.send = t.root /\ t.recv \in Chains
        /\ Len(t.recv) = Len(q.root) + 1 /\ Len(t.root) = Len(q.root) + 2
        /\ t.skipped = q.skipped
    BY <2>1, <2>2, <2>3, DhRatchetFields
  <2>5. s.nr \in Nat /\ s.root \in Chains /\ q.skipped \in SUBSET Entries
    BY <2>2 DEF Sessions
  <2>6. Len(s.root) \in Nat
    BY <2>5, ChainLength
  <2>7. ASSUME NEW e \in t.skipped
        PROVE  \/ e \in s.skipped
               \/ s.recv # Null /\ e.key.chain = s.recv /\ e.key.n >= s.nr
    <3>1. CASE e \notin s.skipped
      <4>1. /\ s.recv # Null /\ e.n \in s.nr..(m.pn - 1)
            /\ e = [dh |-> s.dhr, n |-> e.n, key |-> MessageKey(s.recv, e.n)]
        BY <3>1, <2>2, <2>4
      <4>2. e.key.chain = s.recv /\ e.key.n = e.n
        BY <4>1 DEF MessageKey
      <4>3. e.n >= s.nr
        BY <4>1, <2>1, <2>5
      <4> QED
        BY <4>1, <4>2, <4>3
    <3> QED
      BY <3>1
  <2>8. ASSUME NEW e \in t.skipped
        PROVE  /\ e.n = e.key.n /\ Len(e.key.chain) < Len(t.root)
               /\ e.key.chain # t.recv
               /\ \A d \in t.skipped : d.key.chain = e.key.chain => d.dh = e.dh
    <3>1. /\ e.n = e.key.n /\ Len(e.key.chain) < Len(q.root)
          /\ \A d \in q.skipped : d.key.chain = e.key.chain => d.dh = e.dh
      BY <2>2, <2>4 DEF Well
    <3>2. e.key.chain \in Chains
      BY <2>4, <2>5 DEF Entries, Keys
    <3>3. Len(e.key.chain) \in Nat
      BY <3>2, ChainLength
    <3> QED
      BY <3>1, <3>3, <2>2, <2>4, <2>6
  <2>9. t.recv # Null => Len(t.recv) < Len(t.root)
    BY <2>2, <2>4, <2>6
  <2>10. Well(t)
    BY <2>8, <2>9 DEF Well
  <2> QED
    BY <2>2, <2>4, <2>7, <2>10 DEF t
<1> QED
  BY <1>1, <1>2

(* The state after a message whose key was in the cache.                     *)
LEMMA DecryptingCached ==
    ASSUME NEW s \in Sessions, Well(s), Fit(s), NEW m \in Messages, NEW fresh \in Pairs,
           Decrypts(s, m, fresh), Cached(s, m) # {}
    PROVE  /\ Stored(Decrypting(s, m, fresh)) /\ Progress(s, Decrypting(s, m, fresh))
           /\ Consumed(Decrypting(s, m, fresh), m.key)
           /\ \E e \in s.skipped : e.key = m.key
<1> DEFINE r == Decrypting(s, m, fresh)
<1>1. PICK e \in Cached(s, m) : e.key = m.key
  BY DEF Decrypts
<1>2. e \in s.skipped /\ e.dh = m.dh /\ e.n = m.n
  BY DEF Cached
<1>3. s.send = s.root
  BY <1>2 DEF Fit
<1>4. s = [dhs |-> s.dhs, dhr |-> s.dhr, root |-> s.root, send |-> s.send, recv |-> s.recv,
           ns |-> s.ns, nr |-> s.nr, pn |-> s.pn, skipped |-> s.skipped]
  BY DEF Sessions
<1>5. r = [s EXCEPT !.skipped = s.skipped \ Cached(s, m)]
  BY DEF Decrypting
<1>6. r = [dhs |-> s.dhs, dhr |-> s.dhr, root |-> s.root, send |-> s.send, recv |-> s.recv,
           ns |-> s.ns, nr |-> s.nr, pn |-> s.pn, skipped |-> s.skipped \ Cached(s, m)]
  BY <1>4, <1>5
<1> HIDE DEF r
<1>7. s.skipped \ Cached(s, m) \in SUBSET Entries /\ s.nr \in Nat /\ s.ns \in Nat /\ s.root \in Chains
  BY DEF Sessions
<1>8. r \in Sessions
  BY <1>6, <1>7 DEF Sessions
<1>9. Well(r)
  BY <1>6 DEF Well
<1>10. Stored(r)
  BY <1>3, <1>6, <1>8, <1>9 DEF Stored
<1>11. Len(s.root) \in Nat
  BY <1>7, ChainLength
<1>12. Progress(s, r)
  BY <1>6, <1>7, <1>11 DEF Progress
<1>13. /\ e.n = e.key.n /\ Len(e.key.chain) < Len(s.root)
       /\ e.key.chain = s.recv => e.n < s.nr
  BY <1>2 DEF Well
<1>14. ASSUME NEW d \in r.skipped, d.key = e.key
       PROVE  FALSE
  <2>1. d \in s.skipped /\ d \notin Cached(s, m)
    BY <1>6
  <2>2. d.dh = e.dh /\ d.n = d.key.n
    BY <2>1, <1>2, <1>14 DEF Well
  <2> QED
    BY <2>1, <2>2, <1>2, <1>13, <1>14 DEF Cached
<1>15. Consumed(r, m.key)
  BY <1>1, <1>6, <1>13, <1>14 DEF Consumed
<1> QED
  BY <1>1, <1>2, <1>10, <1>12, <1>15 DEF r

(* The state after a message whose key was not in the cache.                 *)
LEMMA DecryptingNext ==
    ASSUME NEW s \in Sessions, Well(s), Fit(s), NEW m \in Messages, NEW fresh \in Pairs,
           Decrypts(s, m, fresh), Cached(s, m) = {}
    PROVE  /\ Stored(Decrypting(s, m, fresh)) /\ Progress(s, Decrypting(s, m, fresh))
           /\ Consumed(Decrypting(s, m, fresh), m.key)
           /\ \/ m.key.chain = s.recv /\ m.key.n >= s.nr
              \/ Len(m.key.chain) > Len(s.root)
<1> DEFINE t == Turned(s, m, fresh)
           q == Skip(t, m.n)
           r == Decrypting(s, m, fresh)
<1>1. m.n \in Nat /\ m.key \in Keys
  BY DEF Messages
<1>2. /\ t \in Sessions /\ Well(t)
      /\ \/ t = s
         \/ /\ t.send = t.root /\ t.recv \in Chains
            /\ Len(t.recv) = Len(s.root) + 1 /\ Len(t.root) = Len(s.root) + 2
            /\ \A e \in t.skipped :
                  \/ e \in s.skipped
                  \/ s.recv # Null /\ e.key.chain = s.recv /\ e.key.n >= s.nr
  BY TurnedFields
<1>3. MessageKey(t.recv, q.nr) = m.key
  BY DEF Decrypts
<1>4. r = [q EXCEPT !.nr = q.nr + 1]
  BY DEF Decrypting
<1> HIDE DEF t
<1>5. /\ q \in Sessions /\ Well(q)
      /\ q.root = t.root /\ q.send = t.send /\ q.recv = t.recv /\ q.ns = t.ns
      /\ q.nr >= t.nr
      /\ \A e \in q.skipped :
            \/ e \in t.skipped
            \/ /\ t.recv # Null
               /\ e.n \in t.nr..(m.n - 1)
               /\ e = [dh |-> t.dhr, n |-> e.n, key |-> MessageKey(t.recv, e.n)]
  BY <1>1, <1>2, SkipFields, SkipWell
<1> HIDE DEF q, r
<1>6. m.key.chain = t.recv /\ m.key.n = q.nr
  BY <1>3 DEF MessageKey
<1>7. t.recv \in Chains /\ t.recv # Null
  BY <1>1, <1>6, SessionAssumption DEF Keys
<1>8. t.send = t.root
  BY <1>2, <1>7 DEF Fit
<1>9. q = [dhs |-> q.dhs, dhr |-> q.dhr, root |-> q.root, send |-> q.send, recv |-> q.recv,
           ns |-> q.ns, nr |-> q.nr, pn |-> q.pn, skipped |-> q.skipped]
  BY <1>5 DEF Sessions
<1>10. r = [dhs |-> q.dhs, dhr |-> q.dhr, root |-> q.root, send |-> q.send, recv |-> q.recv,
            ns |-> q.ns, nr |-> q.nr + 1, pn |-> q.pn, skipped |-> q.skipped]
  BY <1>4, <1>9
<1>11. /\ q.nr \in Nat /\ t.nr \in Nat /\ s.nr \in Nat /\ s.ns \in Nat /\ q.skipped \subseteq Entries
       /\ s.root \in Chains /\ t.root \in Chains
  BY <1>2, <1>5 DEF Sessions
<1>12. Len(s.root) \in Nat /\ Len(t.root) \in Nat /\ Len(t.recv) \in Nat
  BY <1>7, <1>11, ChainLength
<1>13. r \in Sessions
  BY <1>5, <1>10, <1>11 DEF Sessions
<1>14. ASSUME NEW e \in q.skipped
       PROVE  e.n \in Nat
  BY <1>11 DEF Entries
<1>15. Well(r)
  <2>1. ASSUME NEW e \in r.skipped, e.key.chain = r.recv
        PROVE  e.dh = r.dhr /\ e.n < r.nr
    <3>1. e \in q.skipped /\ e.key.chain = q.recv
      BY <1>10, <2>1
    <3>2. e.dh = q.dhr /\ e.n < q.nr
      BY <3>1, <1>5 DEF Well
    <3> QED
      BY <3>1, <3>2, <1>10, <1>11, <1>14
  <2>2. r.recv # Null => Len(r.recv) < Len(r.root)
    BY <1>5, <1>10 DEF Well
  <2>3. ASSUME NEW e \in r.skipped
        PROVE  /\ e.n = e.key.n /\ Len(e.key.chain) < Len(r.root)
               /\ \A d \in r.skipped : d.key.chain = e.key.chain => d.dh = e.dh
    BY <1>5, <1>10 DEF Well
  <2> QED
    BY <2>1, <2>2, <2>3 DEF Well
<1>16. Stored(r)
  BY <1>5, <1>8, <1>10, <1>13, <1>15 DEF Stored
<1>17. ASSUME NEW e \in q.skipped
       PROVE  \/ e \in t.skipped
              \/ e.key.chain = t.recv /\ e.key.n >= t.nr
  <2>1. CASE e \notin t.skipped
    <3>1. e.n \in t.nr..(m.n - 1) /\ e = [dh |-> t.dhr, n |-> e.n, key |-> MessageKey(t.recv, e.n)]
      BY <2>1, <1>5
    <3>2. e.key.chain = t.recv /\ e.key.n = e.n
      BY <3>1 DEF MessageKey
    <3>3. e.n >= t.nr
      BY <3>1, <1>1, <1>11
    <3> QED
      BY <3>2, <3>3
  <2> QED
    BY <2>1
<1>18. /\ Progress(s, r)
       /\ \/ m.key.chain = s.recv /\ m.key.n >= s.nr
          \/ Len(m.key.chain) > Len(s.root)
  <2>1. CASE t = s
    <3>1. Len(r.root) >= Len(s.root) /\ r.send = s.send /\ r.ns >= s.ns
      BY <2>1, <1>5, <1>10, <1>11, <1>12
    <3>2. r.recv = s.recv /\ r.nr >= s.nr
      BY <2>1, <1>5, <1>10, <1>11
    <3>3. \A e \in r.skipped :
             \/ e \in s.skipped
             \/ s.recv # Null /\ e.key.chain = s.recv /\ e.key.n >= s.nr
      BY <2>1, <1>7, <1>10, <1>17
    <3>4. m.key.chain = s.recv /\ m.key.n >= s.nr
      BY <2>1, <1>5, <1>6
    <3> QED
      BY <3>1, <3>2, <3>3, <3>4 DEF Progress
  <2>2. CASE t # s
    <3>1. /\ t.send = t.root /\ t.recv \in Chains
          /\ Len(t.recv) = Len(s.root) + 1 /\ Len(t.root) = Len(s.root) + 2
          /\ \A e \in t.skipped :
                \/ e \in s.skipped
                \/ s.recv # Null /\ e.key.chain = s.recv /\ e.key.n >= s.nr
      BY <2>2, <1>2
    <3>2. Len(r.root) >= Len(s.root) /\ r.send \in Chains /\ Len(r.send) > Len(s.root)
      BY <3>1, <1>5, <1>10, <1>11, <1>12
    <3>3. r.recv \in Chains /\ Len(r.recv) > Len(s.root)
      BY <3>1, <1>5, <1>10, <1>12
    <3>4. \A e \in r.skipped :
             \/ e \in s.skipped
             \/ s.recv # Null /\ e.key.chain = s.recv /\ e.key.n >= s.nr
             \/ Len(e.key.chain) > Len(s.root)
      <4>1. Len(t.recv) > Len(s.root)
        BY <3>1, <1>12
      <4>2. ASSUME NEW e \in q.skipped
            PROVE  \/ e \in s.skipped
                   \/ s.recv # Null /\ e.key.chain = s.recv /\ e.key.n >= s.nr
                   \/ Len(e.key.chain) > Len(s.root)
        BY <3>1, <4>1, <1>17
      <4> QED
        BY <4>2, <1>10
    <3>5. Len(m.key.chain) > Len(s.root)
      BY <3>1, <1>6, <1>12
    <3> QED
      BY <3>2, <3>3, <3>4, <3>5 DEF Progress
  <2> QED
    BY <2>1, <2>2
<1>19. Consumed(r, m.key)
  <2>1. Len(m.key.chain) < Len(r.root)
    BY <1>2, <1>5, <1>6, <1>7, <1>10 DEF Well
  <2>2. m.key.n < r.nr
    BY <1>6, <1>10, <1>11
  <2>3. ASSUME NEW e \in r.skipped, e.key = m.key
        PROVE  FALSE
    <3>1. e \in q.skipped /\ e.key.chain = q.recv /\ e.key.n = q.nr
      BY <2>3, <1>5, <1>6, <1>10
    <3>2. e.n = e.key.n /\ e.n < q.nr
      BY <3>1, <1>5 DEF Well
    <3> QED
      BY <3>1, <3>2, <1>11
  <2> QED
    BY <2>1, <2>2, <2>3 DEF Consumed
<1> QED
  BY <1>16, <1>18, <1>19 DEF r

(* What decrypting does: the new state has been used, is further on, and     *)
(* past the message's key, which the old one was not.                        *)
LEMMA DecryptingWorks ==
    ASSUME NEW s \in Sessions, Well(s), Fit(s), NEW m \in Messages, NEW fresh \in Pairs,
           Decrypts(s, m, fresh)
    PROVE  /\ Stored(Decrypting(s, m, fresh)) /\ Progress(s, Decrypting(s, m, fresh))
           /\ Consumed(Decrypting(s, m, fresh), m.key)
           /\ ~ Consumed(s, m.key)
<1>1. CASE Cached(s, m) # {}
  BY <1>1, DecryptingCached DEF Consumed
<1>2. CASE Cached(s, m) = {}
  <2>1. /\ Stored(Decrypting(s, m, fresh)) /\ Progress(s, Decrypting(s, m, fresh))
        /\ Consumed(Decrypting(s, m, fresh), m.key)
        /\ \/ m.key.chain = s.recv /\ m.key.n >= s.nr
           \/ Len(m.key.chain) > Len(s.root)
    BY <1>2, DecryptingNext
  <2>2. m.key \in Keys /\ s.nr \in Nat /\ s.root \in Chains
    BY DEF Messages, Sessions
  <2>3. m.key.chain \in Chains /\ m.key.n \in Nat
    BY <2>2 DEF Keys
  <2>4. Len(m.key.chain) \in Nat /\ Len(s.root) \in Nat
    BY <2>2, <2>3, ChainLength
  <2>5. ~ Consumed(s, m.key)
    BY <2>1, <2>2, <2>3, <2>4 DEF Consumed
  <2> QED
    BY <2>1, <2>5
<1> QED
  BY <1>1, <1>2

(* A consumed key stays consumed, a spent one spent, as the state goes on.   *)
LEMMA ProgressKeeps ==
    ASSUME NEW s \in Sessions, NEW r \in Sessions, NEW key \in Keys, Progress(s, r)
    PROVE  /\ Consumed(s, key) => Consumed(r, key)
           /\ Spent(s, key) => Spent(r, key)
<1>1. /\ key.chain \in Chains /\ key.n \in Nat /\ s.root \in Chains /\ r.root \in Chains
      /\ s.nr \in Nat /\ r.nr \in Nat /\ s.ns \in Nat /\ r.ns \in Nat /\ r.skipped \subseteq Entries
  BY DEF Keys, Sessions
<1>2. Len(key.chain) \in Nat /\ Len(s.root) \in Nat /\ Len(r.root) \in Nat
  BY <1>1, ChainLength
<1>3. ASSUME NEW e \in r.skipped
      PROVE  e.key.chain \in Chains /\ Len(e.key.chain) \in Nat
  <2>1. e.key.chain \in Chains
    BY <1>1 DEF Entries, Keys
  <2> QED
    BY <2>1, ChainLength
<1>4. ASSUME Consumed(s, key)
      PROVE  Consumed(r, key)
  <2>1. Len(key.chain) < Len(s.root) /\ (s.recv = key.chain => key.n < s.nr)
    BY <1>4 DEF Consumed
  <2>2. Len(key.chain) < Len(r.root)
    BY <1>2, <2>1 DEF Progress
  <2>3. r.recv = key.chain => key.n < r.nr
    BY <1>1, <1>2, <2>1 DEF Progress
  <2>4. ASSUME NEW e \in r.skipped, e.key = key
        PROVE  FALSE
    <3>1. e \notin s.skipped
      BY <1>4, <2>4 DEF Consumed
    <3> QED
      BY <3>1, <1>1, <1>2, <2>1, <2>4 DEF Progress
  <2> QED
    BY <2>2, <2>3, <2>4 DEF Consumed
<1>5. ASSUME Spent(s, key)
      PROVE  Spent(r, key)
  <2>1. /\ Len(key.chain) <= Len(s.root) /\ (s.send = key.chain => key.n < s.ns)
        /\ s.recv # key.chain
    BY <1>5 DEF Spent
  <2>2. Len(key.chain) <= Len(r.root)
    BY <1>2, <2>1 DEF Progress
  <2>3. r.send = key.chain => key.n < r.ns
    BY <1>1, <1>2, <2>1 DEF Progress
  <2>4. r.recv # key.chain
    BY <1>1, <1>2, <2>1 DEF Progress
  <2>5. ASSUME NEW e \in r.skipped, e.key.chain = key.chain
        PROVE  FALSE
    <3>1. e \notin s.skipped
      BY <1>5, <2>5 DEF Spent
    <3> QED
      BY <3>1, <1>2, <2>1, <2>5 DEF Progress
  <2> QED
    BY <2>2, <2>3, <2>4, <2>5 DEF Spent
<1> QED
  BY <1>4, <1>5

(* What encrypting does: the key of the message is a new one, and spent.     *)
LEMMA EncryptingWorks ==
    ASSUME NEW s \in Sessions, Stored(s)
    PROVE  /\ Stored(Encrypting(s)) /\ Progress(s, Encrypting(s)) /\ Encrypted(s) \in Messages
           /\ Spent(Encrypting(s), Encrypted(s).key) /\ ~ Spent(s, Encrypted(s).key)
<1> DEFINE r == Encrypting(s)
           key == Encrypted(s).key
<1>1. s \in Sessions /\ Well(s) /\ s.send = s.root
  BY DEF Stored
<1>2. s = [dhs |-> s.dhs, dhr |-> s.dhr, root |-> s.root, send |-> s.send, recv |-> s.recv,
           ns |-> s.ns, nr |-> s.nr, pn |-> s.pn, skipped |-> s.skipped]
  BY <1>1 DEF Sessions
<1>3. /\ s.dhs \in Pairs /\ s.root \in Chains /\ s.ns \in Nat /\ s.nr \in Nat /\ s.pn \in Nat
      /\ s.skipped \in SUBSET Entries /\ s.recv \in Chains \cup {Null}
  BY <1>1 DEF Sessions
<1>4. Encrypted(s) = [dh |-> s.dhs, pn |-> s.pn, n |-> s.ns, key |-> [chain |-> s.send, n |-> s.ns]]
  BY DEF Encrypted, MessageKey
<1>5. Encrypted(s) \in Messages /\ key.chain = s.send /\ key.n = s.ns
  BY <1>1, <1>3, <1>4 DEF Messages, Keys
<1>6. r = [dhs |-> s.dhs, dhr |-> s.dhr, root |-> s.root, send |-> s.send, recv |-> s.recv,
           ns |-> s.ns + 1, nr |-> s.nr, pn |-> s.pn, skipped |-> s.skipped]
  BY <1>2 DEF Encrypting
<1>7. Len(s.root) \in Nat
  BY <1>3, ChainLength
<1> HIDE DEF r, key
<1>8. r \in Sessions
  BY <1>1, <1>3, <1>6 DEF Sessions
<1>9. Well(r)
  BY <1>1, <1>6 DEF Well
<1>10. Stored(r)
  BY <1>1, <1>6, <1>8, <1>9 DEF Stored
<1>11. s.recv # s.root
  BY <1>1, <1>3, <1>7, SessionAssumption DEF Well
<1>12. \A e \in s.skipped : e.key.chain # s.root
  BY <1>1, <1>7 DEF Well
<1>13. key.n < s.ns + 1 /\ ~ key.n < s.ns /\ Len(key.chain) <= Len(s.root)
  BY <1>1, <1>3, <1>5, <1>7
<1>14. Spent(r, key) /\ ~ Spent(s, key)
  BY <1>1, <1>5, <1>6, <1>11, <1>12, <1>13 DEF Spent
<1>15. Progress(s, r)
  BY <1>3, <1>6, <1>7 DEF Progress
<1> QED
  BY <1>5, <1>10, <1>14, <1>15 DEF r, key

(* A used session yields no key that it has consumed or spent.               *)
LEMMA PastKeysAreGone ==
    ASSUME NEW s \in Sessions, Stored(s), NEW key \in Keys, Consumed(s, key) \/ Spent(s, key)
    PROVE  ~ Derivable(s, key)
<1>1. s \in Sessions /\ s.send = s.root
  BY DEF Stored
<1>2. /\ key.chain \in Chains /\ key.n \in Nat /\ s.root \in Chains
      /\ s.nr \in Nat /\ s.ns \in Nat
  BY <1>1 DEF Keys, Sessions
<1>3. Len(key.chain) \in Nat /\ Len(s.root) \in Nat
  BY <1>2, ChainLength
<1>4. Len(key.chain) <= Len(s.root)
  BY <1>3 DEF Consumed, Spent
<1>5. \A i \in 1..Len(key.chain) : i # Len(s.root) + 1
  BY <1>3, <1>4
<1>6. ~ (\E e \in s.skipped : e.key = key)
  BY DEF Consumed, Spent
<1>7. ~ (s.recv = key.chain /\ s.nr <= key.n)
  BY <1>2 DEF Consumed, Spent
<1>8. ~ (s.send = key.chain /\ s.ns <= key.n)
  <2>1. CASE Consumed(s, key)
    BY <2>1, <1>1, <1>2, <1>3 DEF Consumed
  <2>2. CASE Spent(s, key)
    BY <2>2, <1>2 DEF Spent
  <2> QED
    BY <2>1, <2>2
<1> QED
  BY <1>5, <1>6, <1>7, <1>8 DEF Derivable

-----------------------------------------------------------------------------

(* The two users are each other's peers.                                     *)
LEMMA PeerOK ==
    ASSUME NEW u \in Users
    PROVE  /\ Peer(u) \in Users /\ Peer(u) # u /\ Peer(Peer(u)) = u
           /\ \A v \in Users : v = u \/ v = Peer(u)
<1>1. PICK a \in Users : \E b \in Users \ {a} : Users = {a, b}
  BY SessionAssumption
<1>2. PICK b \in Users \ {a} : Users = {a, b}
  BY <1>1
<1>3. \A x \in Users : Peer(x) \in Users /\ Peer(x) # x
  BY <1>2 DEF Peer
<1> QED
  BY <1>2, <1>3

(* The four forms of an operation in hand.                                   *)
LEMMA OpFields ==
    ASSUME NEW w \in Ops
    PROVE  /\ w.op \in {"idle", "send", "save", "open"}
           /\ w.op = "idle" <=> w = Idle
           /\ w.op = "send" => w.base \in Sessions \cup {Null}
           /\ w.op = "save" => w.state \in Sessions
           /\ w.op = "open" => w.base \in Sessions \cup {Null} /\ w.frame \in Frames
<1>1. CASE w = Idle
  BY <1>1 DEF Idle
<1>2. CASE w \in [op : {"send"}, base : Sessions \cup {Null}]
  BY <1>2 DEF Idle
<1>3. CASE w \in [op : {"save"}, state : Sessions]
  BY <1>3 DEF Idle
<1>4. CASE w \in [op : {"open"}, base : Sessions \cup {Null}, frame : Frames]
  BY <1>4 DEF Idle
<1> QED
  BY <1>1, <1>2, <1>3, <1>4 DEF Ops

(* The frames being handled, task by task.                                   *)
LEMMA OpenedFrames ==
    ASSUME NEW u, NEW f
    PROVE  f \in Opened(u) <=> \E t \in Tasks : work[u][t].op = "open" /\ f = work[u][t].frame
BY DEF Opened

LEMMA OpenedFramesNext ==
    ASSUME NEW u, NEW f
    PROVE  f \in Opened(u)' <=> \E t \in Tasks : work'[u][t].op = "open" /\ f = work'[u][t].frame
BY DEF Opened

(* Who begins an operation has no other in hand, or is counted.              *)
LEMMA StartedAlone ==
    ASSUME Typed, NEW u \in Users, Started(u)
    PROVE  /\ overlapped' \in SUBSET Users /\ overlapped \subseteq overlapped'
           /\ u \notin overlapped' => \A r \in Tasks : work[u][r] = Idle
BY DEF Typed, Started, Busy

(* The two ways a session begins.                                            *)
LEMMA InitiatorStored ==
    ASSUME NEW u \in Users, NEW v \in Users, NEW n \in Nat
    PROVE  Stored(InitAsInitiator(Secret(Pair(u, n + 1), v), Pair(u, n + 2), SignedPrekey(v)))
<1> DEFINE secret == Secret(Pair(u, n + 1), v)
           root == KdfRk(secret, Pair(u, n + 2), SignedPrekey(v))
           s == InitAsInitiator(secret, Pair(u, n + 2), SignedPrekey(v))
<1>1. Pair(u, n + 1) \in Pairs /\ Pair(u, n + 2) \in Pairs /\ SignedPrekey(v) \in Pairs
  BY DEF Pair, SignedPrekey, Pairs
<1>2. secret \in Chains
  BY <1>1 DEF Secret, Chains
<1>3. root \in Chains
  BY <1>1, <1>2, KdfRkLonger
<1>4. s = [dhs |-> Pair(u, n + 2), dhr |-> SignedPrekey(v), root |-> root, send |-> root,
           recv |-> Null, ns |-> 0, nr |-> 0, pn |-> 0, skipped |-> {}]
  BY DEF InitAsInitiator
<1> HIDE DEF secret, root, s
<1>5. s \in Sessions
  BY <1>1, <1>3, <1>4 DEF Sessions
<1>6. Stored(s)
  BY <1>4, <1>5 DEF Stored, Well
<1> QED
  BY <1>6 DEF s, secret

LEMMA ResponderFit ==
    ASSUME NEW u \in Users, NEW p \in Pairs
    PROVE  /\ InitAsResponder(Secret(p, u), SignedPrekey(u)) \in Sessions
           /\ Well(InitAsResponder(Secret(p, u), SignedPrekey(u)))
           /\ Fit(InitAsResponder(Secret(p, u), SignedPrekey(u)))
<1> DEFINE s == InitAsResponder(Secret(p, u), SignedPrekey(u))
<1>1. SignedPrekey(u) \in Pairs
  BY DEF Pair, SignedPrekey, Pairs
<1>2. Secret(p, u) \in Chains
  BY <1>1 DEF Secret, Chains
<1>3. s = [dhs |-> SignedPrekey(u), dhr |-> Null, root |-> Secret(p, u), send |-> Null,
           recv |-> Null, ns |-> 0, nr |-> 0, pn |-> 0, skipped |-> {}]
  BY DEF InitAsResponder
<1> HIDE DEF s
<1>4. s \in Sessions
  BY <1>1, <1>2, <1>3 DEF Sessions
<1>5. Well(s) /\ Fit(s)
  BY <1>3 DEF Well, Fit
<1> QED
  BY <1>4, <1>5 DEF s

-----------------------------------------------------------------------------

LEMMA InitIInv == Init => IInv
<1> SUFFICES ASSUME Init
             PROVE  IInv
  OBVIOUS
<1>1. \A u \in Users : \A t \in Tasks : work[u][t] = Idle
  BY DEF Init
<1>2. Idle \in Ops /\ Idle.op = "idle"
  BY DEF Ops, Idle
<1>3. Typed
  <2>1. work \in [Users -> [Tasks -> Ops]]
    BY <1>2 DEF Init
  <2>2. \A u \in Users : IsFiniteSet(frames[u])
    BY FS_EmptySet DEF Init
  <2> QED
    BY <2>1, <2>2 DEF Init, Typed
<1>4. SessionsOK
  BY <1>1, <1>2 DEF Init, SessionsOK
<1>5. AloneOK
  BY <1>1 DEF AloneOK
<1>6. ReadOK
  BY DEF Init, ReadOK
<1>7. SentOK
  BY DEF Init, SentOK
<1>8. RouteOK
  <2>1. ASSUME NEW u \in Users
        PROVE  /\ frames[Peer(u)] = {} /\ mailbox[u] = {} /\ read[u] = {} /\ unread[u] = {}
               /\ missed[u] = {} /\ reread[u] = {}
    BY PeerOK DEF Init
  <2>2. ASSUME NEW u \in Users
        PROVE  Opened(u) = {}
    BY <1>1, <1>2, OpenedFrames
  <2> QED
    BY <2>1, <2>2 DEF RouteOK
<1> QED
  BY <1>3, <1>4, <1>5, <1>6, <1>7, <1>8 DEF IInv

(* An operation begins with what is stored, and changes nothing else.        *)
LEMMA BeginKeeps ==
    ASSUME IInv, NEW u \in Users, NEW t \in Tasks, NEW x \in Ops,
           x.op \in {"send", "open"}, x.base = saved[u],
           work[u][t] = Idle, work' = [work EXCEPT ![u][t] = x], Started(u),
           UNCHANGED <<saved, frames, read, reread, cut>>
    PROVE  SessionsOK' /\ AloneOK' /\ ReadOK' /\ SentOK'
<1>1. Typed /\ SessionsOK /\ AloneOK /\ ReadOK /\ SentOK
  BY DEF IInv
<1>2. Idle.op = "idle"
  BY DEF Idle
<1>3. /\ work'[u][t] = x
      /\ \A v \in Users : \A r \in Tasks : v # u \/ r # t => work'[v][r] = work[v][r]
  <2>1. work \in [Users -> [Tasks -> Ops]]
    BY <1>1 DEF Typed
  <2>2. work' = [work EXCEPT ![u][t] = x]
    OBVIOUS
  <2> QED
    BY <2>1, <2>2
<1>4. /\ overlapped \subseteq overlapped'
      /\ u \notin overlapped' => \A r \in Tasks : work[u][r] = Idle
  BY <1>1, StartedAlone
<1>5. SessionsOK'
  <2>1. \A v \in Users : saved'[v] # Null => Stored(saved'[v])
    BY <1>1 DEF SessionsOK
  <2>2. ASSUME NEW v \in Users, NEW r \in Tasks
        PROVE  /\ work'[v][r].op \in {"send", "open"} /\ work'[v][r].base # Null
                     => Stored(work'[v][r].base)
               /\ work'[v][r].op = "save" => Stored(work'[v][r].state)
    <3>1. CASE v = u /\ r = t
      BY <3>1, <1>1, <1>3 DEF SessionsOK
    <3>2. CASE v # u \/ r # t
      BY <3>2, <1>1, <1>3 DEF SessionsOK
    <3> QED
      BY <3>1, <3>2
  <2> QED
    BY <2>1, <2>2 DEF SessionsOK
<1>6. AloneOK'
  <2>1. ASSUME NEW v \in Users \ overlapped', NEW r \in Tasks, work'[v][r] # Idle
        PROVE  /\ \A q \in Tasks \ {r} : work'[v][q] = Idle
               /\ work'[v][r].op \in {"send", "open"} => work'[v][r].base = saved'[v]
    <3>1. CASE v = u
      <4>1. r = t
        BY <3>1, <2>1, <1>3, <1>4
      <4> QED
        BY <3>1, <4>1, <1>3, <1>4
    <3>2. CASE v # u
      BY <3>2, <2>1, <1>1, <1>3, <1>4 DEF AloneOK
    <3> QED
      BY <3>1, <3>2
  <2> QED
    BY <2>1 DEF AloneOK
<1>7. ASSUME NEW v \in Users, NEW r \in Tasks
      PROVE  /\ work'[v][r].op = "save" <=> work[v][r].op = "save"
             /\ work'[v][r].op = "save" => work'[v][r] = work[v][r]
  BY <1>2, <1>3
<1>8. ReadOK'
  <2>1. ASSUME NEW v \in Users \ overlapped'
        PROVE  /\ reread'[v] = {}
               /\ \A f \in read'[v] :
                     /\ saved'[v] # Null /\ Consumed(saved'[v], f.m.key)
                     /\ \A r \in Tasks : work'[v][r].op = "save" =>
                            Consumed(work'[v][r].state, f.m.key)
    <3>1. v \in Users \ overlapped
      BY <1>4
    <3> QED
      BY <3>1, <1>1, <1>7 DEF ReadOK
  <2> QED
    BY <2>1 DEF ReadOK
<1>9. SentOK'
  <2>1. ASSUME NEW v \in Users \ Disturbed'
        PROVE  /\ \A f, g \in frames'[v] : f.m.key = g.m.key => f = g
               /\ \A f \in frames'[v] : \A r \in Tasks :
                     work'[v][r].op = "save" => Spent(work'[v][r].state, f.m.key)
               /\ (\A r \in Tasks : work'[v][r].op # "save") =>
                     \A f \in frames'[v] : saved'[v] # Null /\ Spent(saved'[v], f.m.key)
    <3>1. v \in Users \ Disturbed
      BY <1>4 DEF Disturbed
    <3> QED
      BY <3>1, <1>1, <1>7 DEF SentOK
  <2> QED
    BY <2>1 DEF SentOK
<1> QED
  BY <1>5, <1>6, <1>8, <1>9

LEMMA StartSendKeeps ==
    ASSUME IInv, NEW u \in Users, NEW t \in Tasks, StartSend(u, t)
    PROVE  IInv'
<1> DEFINE x == [op |-> "send", base |-> saved[u]]
<1>1. Typed /\ RouteOK
  BY DEF IInv
<1>2. /\ work[u][t] = Idle /\ work' = [work EXCEPT ![u][t] = x] /\ Started(u)
      /\ UNCHANGED <<saved, mailbox, gen, frames, read, reread, unread, missed, cut, repeats>>
  BY DEF StartSend
<1>3. x \in Ops /\ x.op = "send" /\ x.base = saved[u] /\ Idle.op = "idle"
  BY <1>1 DEF Typed, Ops, Idle
<1> HIDE DEF x
<1>4. /\ work' \in [Users -> [Tasks -> Ops]] /\ work'[u][t] = x
      /\ \A v \in Users : \A r \in Tasks : v # u \/ r # t => work'[v][r] = work[v][r]
  <2>1. work \in [Users -> [Tasks -> Ops]]
    BY <1>1 DEF Typed
  <2>2. work' = [work EXCEPT ![u][t] = x] /\ x \in Ops
    BY <1>2, <1>3
  <2> QED
    BY <2>1, <2>2
<1>5. Typed'
  <2>1. overlapped' \in SUBSET Users
    BY <1>1, <1>2, StartedAlone
  <2> QED
    BY <2>1, <1>1, <1>2, <1>4 DEF Typed
<1>6. SessionsOK' /\ AloneOK' /\ ReadOK' /\ SentOK'
  BY <1>2, <1>3, BeginKeeps
<1>7. RouteOK'
  <2>1. ASSUME NEW v \in Users
        PROVE  Opened(v)' = Opened(v)
    <3>1. ASSUME NEW r \in Tasks
          PROVE  /\ work'[v][r].op = "open" <=> work[v][r].op = "open"
                 /\ work'[v][r].op = "open" => work'[v][r] = work[v][r]
      BY <1>2, <1>3, <1>4
    <3>2. ASSUME NEW f
          PROVE  f \in Opened(v)' <=> f \in Opened(v)
      BY <3>1, OpenedFrames, OpenedFramesNext
    <3> QED
      BY <3>2
  <2> QED
    BY <2>1, <1>1, <1>2 DEF RouteOK
<1> QED
  BY <1>5, <1>6, <1>7 DEF IInv

(* A frame is taken from the mailbox by an operation that works on what is   *)
(* stored.                                                                   *)
LEMMA ArriveKeeps ==
    ASSUME IInv, NEW u \in Users, NEW t \in Tasks, Arrive(u, t)
    PROVE  IInv'
<1>1. Typed /\ RouteOK
  BY DEF IInv
<1>2. PICK frame \in mailbox[u] :
         /\ work[u][t] = Idle
         /\ mailbox' = [mailbox EXCEPT ![u] = mailbox[u] \ {frame}]
         /\ work' = [work EXCEPT ![u][t] = [op |-> "open", base |-> saved[u], frame |-> frame]]
         /\ Started(u)
         /\ UNCHANGED <<saved, gen, frames, read, reread, unread, missed, cut>>
  BY DEF Arrive
<1> DEFINE x == [op |-> "open", base |-> saved[u], frame |-> frame]
<1>3. /\ x \in Ops /\ x.op = "open" /\ x.base = saved[u] /\ x.frame = frame /\ Idle.op = "idle"
      /\ work' = [work EXCEPT ![u][t] = x]
  BY <1>1, <1>2 DEF Typed, Ops, Idle
<1> HIDE DEF x
<1>4. /\ work' \in [Users -> [Tasks -> Ops]] /\ work'[u][t] = x
      /\ \A v \in Users : \A r \in Tasks : v # u \/ r # t => work'[v][r] = work[v][r]
  <2>1. work \in [Users -> [Tasks -> Ops]]
    BY <1>1 DEF Typed
  <2>2. work' = [work EXCEPT ![u][t] = x] /\ x \in Ops
    BY <1>3
  <2> QED
    BY <2>1, <2>2
<1>5. /\ mailbox' \in [Users -> SUBSET Frames] /\ mailbox'[u] = mailbox[u] \ {frame}
      /\ \A v \in Users : v # u => mailbox'[v] = mailbox[v]
  BY <1>1, <1>2 DEF Typed
<1>6. Typed'
  <2>1. overlapped' \in SUBSET Users
    BY <1>1, <1>2, StartedAlone
  <2> QED
    BY <2>1, <1>1, <1>2, <1>4, <1>5 DEF Typed
<1>7. SessionsOK' /\ AloneOK' /\ ReadOK' /\ SentOK'
  BY <1>2, <1>3, BeginKeeps
<1>8. RouteOK'
  <2>1. Opened(u)' = Opened(u) \cup {frame}
    <3>1. ASSUME NEW f
          PROVE  f \in Opened(u)' <=> f \in Opened(u) \/ f = frame
      BY <1>2, <1>3, <1>4, OpenedFrames, OpenedFramesNext
    <3> QED
      BY <3>1
  <2>2. ASSUME NEW v \in Users, v # u
        PROVE  Opened(v)' = Opened(v)
    <3>1. \A r \in Tasks : work'[v][r] = work[v][r]
      BY <2>2, <1>4
    <3>2. ASSUME NEW f
          PROVE  f \in Opened(v)' <=> f \in Opened(v)
      BY <3>1, OpenedFrames, OpenedFramesNext
    <3> QED
      BY <3>2
  <2>3. ASSUME NEW v \in Users
        PROVE  frames'[Peer(v)] = mailbox'[v] \cup read'[v] \cup unread'[v] \cup missed'[v]
                                  \cup Opened(v)'
    <3>1. frames[Peer(v)] = mailbox[v] \cup read[v] \cup unread[v] \cup missed[v] \cup Opened(v)
      BY <1>1 DEF RouteOK
    <3>2. CASE v = u
      BY <3>1, <3>2, <2>1, <1>2, <1>5
    <3>3. CASE v # u
      BY <3>1, <3>3, <2>2, <1>2, <1>5
    <3> QED
      BY <3>2, <3>3
  <2> QED
    BY <2>3, <1>1, <1>2 DEF RouteOK
<1> QED
  BY <1>6, <1>7, <1>8 DEF IInv

(* A new session, or the loaded one, encrypts: the frame's key is unused.    *)
LEMMA TransmitKeeps ==
    ASSUME IInv, NEW u \in Users, NEW t \in Tasks, Transmit(u, t)
    PROVE  IInv'
<1> DEFINE base == work[u][t].base
           v == Peer(u)
           ephemeral == Pair(u, gen[u] + 1)
           state == IF base # Null THEN base
                    ELSE InitAsInitiator(Secret(ephemeral, v), Pair(u, gen[u] + 2),
                                         SignedPrekey(v))
           frame == [id |-> Cardinality(frames[u]) + 1,
                     x3dh |-> IF base = Null THEN ephemeral ELSE Null,
                     m |-> Encrypted(state)]
           x == [op |-> "save", state |-> Encrypting(state)]
<1>1. Typed /\ SessionsOK /\ AloneOK /\ ReadOK /\ SentOK /\ RouteOK
  BY DEF IInv
<1>2. /\ work[u][t].op = "send" /\ work' = [work EXCEPT ![u][t] = x]
      /\ gen' = [gen EXCEPT ![u] = IF base = Null THEN gen[u] + 2 ELSE gen[u]]
      /\ frames' = [frames EXCEPT ![u] = frames[u] \cup {frame}]
      /\ mailbox' = [mailbox EXCEPT ![v] = mailbox[v] \cup {frame}]
      /\ UNCHANGED <<saved, read, reread, unread, missed, overlapped, cut>>
  BY DEF Transmit
<1>3. v \in Users /\ v # u /\ Peer(v) = u /\ \A w \in Users : w = u \/ w = v
  BY PeerOK
<1>4. gen[u] \in Nat /\ work[u][t] \in Ops /\ IsFiniteSet(frames[u]) /\ frames[u] \subseteq Frames
  BY <1>1 DEF Typed
<1>5. ephemeral \in Pairs
  BY <1>4 DEF Pair, Pairs
<1>6. Stored(state) /\ (base # Null => state = base)
  <2>1. CASE base # Null
    BY <2>1, <1>1, <1>2 DEF SessionsOK
  <2>2. CASE base = Null
    BY <2>2, <1>3, <1>4, InitiatorStored
  <2> QED
    BY <2>1, <2>2
<1> HIDE DEF state, base, v, ephemeral
<1>7. /\ Stored(Encrypting(state)) /\ Encrypted(state) \in Messages
      /\ \A k \in Keys : /\ Consumed(state, k) => Consumed(Encrypting(state), k)
                         /\ Spent(state, k) => Spent(Encrypting(state), k)
      /\ Spent(Encrypting(state), Encrypted(state).key) /\ ~ Spent(state, Encrypted(state).key)
  <2>1. state \in Sessions /\ Stored(state)
    BY <1>6 DEF Stored
  <2>2. /\ Stored(Encrypting(state)) /\ Progress(state, Encrypting(state))
        /\ Encrypted(state) \in Messages
        /\ Spent(Encrypting(state), Encrypted(state).key) /\ ~ Spent(state, Encrypted(state).key)
    BY <2>1, EncryptingWorks
  <2>3. Encrypting(state) \in Sessions
    BY <2>2 DEF Stored
  <2>4. ASSUME NEW k \in Keys
        PROVE  /\ Consumed(state, k) => Consumed(Encrypting(state), k)
               /\ Spent(state, k) => Spent(Encrypting(state), k)
    BY <2>1, <2>2, <2>3, ProgressKeeps
  <2> QED
    BY <2>2, <2>4
<1>8. frame \in Frames /\ frame.m = Encrypted(state)
  <2>1. Cardinality(frames[u]) \in Nat
    BY <1>4, FS_CardinalityType
  <2>2. Cardinality(frames[u]) + 1 \in Nat
    BY <2>1
  <2> QED
    BY <2>2, <1>5, <1>7 DEF Frames
<1>9. x \in Ops /\ x.op = "save" /\ x.state = Encrypting(state) /\ Idle.op = "idle"
  BY <1>7 DEF Ops, Idle, Stored
<1> HIDE DEF x, frame
<1>10. /\ work' \in [Users -> [Tasks -> Ops]] /\ work'[u][t] = x
       /\ \A w \in Users : \A r \in Tasks : w # u \/ r # t => work'[w][r] = work[w][r]
  <2>1. work \in [Users -> [Tasks -> Ops]]
    BY <1>1 DEF Typed
  <2>2. work' = [work EXCEPT ![u][t] = x] /\ x \in Ops
    BY <1>2, <1>9
  <2> QED
    BY <2>1, <2>2
<1>11. /\ frames'[u] = frames[u] \cup {frame} /\ frames'[v] = frames[v]
       /\ mailbox'[v] = mailbox[v] \cup {frame} /\ mailbox'[u] = mailbox[u]
  BY <1>1, <1>2, <1>3 DEF Typed
<1>12. Typed'
  <2>1. gen' \in [Users -> Nat]
    BY <1>1, <1>2, <1>4 DEF Typed
  <2>2. frames' \in [Users -> SUBSET Frames] /\ mailbox' \in [Users -> SUBSET Frames]
    BY <1>1, <1>2, <1>3, <1>8 DEF Typed
  <2>3. ASSUME NEW w \in Users
        PROVE  IsFiniteSet(frames'[w])
    <3>1. CASE w = u
      BY <3>1, <1>4, <1>11, FS_AddElement
    <3>2. CASE w = v
      BY <3>2, <1>1, <1>11 DEF Typed
    <3> QED
      BY <3>1, <3>2, <1>3
  <2> QED
    BY <2>1, <2>2, <2>3, <1>1, <1>2, <1>10 DEF Typed
<1>13. SessionsOK'
  <2>1. \A w \in Users : saved'[w] # Null => Stored(saved'[w])
    BY <1>1, <1>2 DEF SessionsOK
  <2>2. ASSUME NEW w \in Users, NEW r \in Tasks
        PROVE  /\ work'[w][r].op \in {"send", "open"} /\ work'[w][r].base # Null
                     => Stored(work'[w][r].base)
               /\ work'[w][r].op = "save" => Stored(work'[w][r].state)
    <3>1. CASE w = u /\ r = t
      BY <3>1, <1>7, <1>9, <1>10
    <3>2. CASE w # u \/ r # t
      BY <3>2, <1>1, <1>10 DEF SessionsOK
    <3> QED
      BY <3>1, <3>2
  <2> QED
    BY <2>1, <2>2 DEF SessionsOK
<1>14. work[u][t] # Idle
  BY <1>2, <1>9
<1>15. u \notin overlapped => base = saved[u] /\ \A r \in Tasks \ {t} : work[u][r] = Idle
  BY <1>1, <1>2, <1>14 DEF AloneOK, base
<1>16. AloneOK'
  <2>1. ASSUME NEW w \in Users \ overlapped', NEW r \in Tasks, work'[w][r] # Idle
        PROVE  /\ \A q \in Tasks \ {r} : work'[w][q] = Idle
               /\ work'[w][r].op \in {"send", "open"} => work'[w][r].base = saved'[w]
    <3>1. CASE w = u
      <4>1. \A q \in Tasks \ {t} : work'[u][q] = Idle
        BY <3>1, <2>1, <1>2, <1>10, <1>15
      <4>2. r = t
        BY <3>1, <2>1, <4>1
      <4> QED
        BY <3>1, <4>1, <4>2, <1>9, <1>10
    <3>2. CASE w # u
      BY <3>2, <2>1, <1>1, <1>2, <1>10 DEF AloneOK
    <3> QED
      BY <3>1, <3>2
  <2> QED
    BY <2>1 DEF AloneOK
<1>17. ASSUME NEW w \in Users, NEW f \in frames[w] \cup read[w]
       PROVE  f.m.key \in Keys
  <2>1. f \in Frames
    BY <1>1 DEF Typed
  <2> QED
    BY <2>1 DEF Frames, Messages
<1>18. ReadOK'
  <2>1. ASSUME NEW w \in Users \ overlapped'
        PROVE  /\ reread'[w] = {}
               /\ \A f \in read'[w] :
                     /\ saved'[w] # Null /\ Consumed(saved'[w], f.m.key)
                     /\ \A r \in Tasks : work'[w][r].op = "save" =>
                            Consumed(work'[w][r].state, f.m.key)
    <3>1. w \in Users \ overlapped
      BY <1>2
    <3>2. /\ reread'[w] = {}
          /\ \A f \in read'[w] : saved'[w] # Null /\ Consumed(saved'[w], f.m.key)
      BY <3>1, <1>1, <1>2 DEF ReadOK
    <3>3. ASSUME NEW f \in read'[w], NEW r \in Tasks, work'[w][r].op = "save"
          PROVE  Consumed(work'[w][r].state, f.m.key)
      <4>1. CASE w = u /\ r = t
        <5>1. state = saved[u]
          BY <4>1, <3>1, <3>2, <1>2, <1>6, <1>15
        <5>2. Consumed(Encrypting(state), f.m.key)
          BY <5>1, <4>1, <3>2, <1>2, <1>7, <1>17
        <5> QED
          BY <5>2, <4>1, <1>9, <1>10
      <4>2. CASE w # u \/ r # t
        BY <4>2, <3>1, <3>3, <1>1, <1>2, <1>10 DEF ReadOK
      <4> QED
        BY <4>1, <4>2
    <3> QED
      BY <3>2, <3>3
  <2> QED
    BY <2>1 DEF ReadOK
<1>19. SentOK'
  <2>1. ASSUME NEW w \in Users \ Disturbed'
        PROVE  /\ \A f, g \in frames'[w] : f.m.key = g.m.key => f = g
               /\ \A f \in frames'[w] : \A r \in Tasks :
                     work'[w][r].op = "save" => Spent(work'[w][r].state, f.m.key)
               /\ (\A r \in Tasks : work'[w][r].op # "save") =>
                     \A f \in frames'[w] : saved'[w] # Null /\ Spent(saved'[w], f.m.key)
    <3>1. w \in Users \ Disturbed /\ w \notin overlapped
      BY <1>2 DEF Disturbed
    <3>2. CASE w = u
      <4>1. \A r \in Tasks : work[u][r].op # "save"
        BY <3>1, <3>2, <1>2, <1>9, <1>15
      <4>2. \A f \in frames[u] : saved[u] # Null /\ Spent(saved[u], f.m.key)
        BY <4>1, <3>1, <3>2, <1>1 DEF SentOK
      <4>3. ASSUME NEW f \in frames[u]
            PROVE  Spent(state, f.m.key) /\ Spent(Encrypting(state), f.m.key)
        <5>1. Spent(state, f.m.key)
          BY <4>2, <3>1, <3>2, <1>6, <1>15
        <5> QED
          BY <5>1, <1>7, <1>17
      <4>4. \A f \in frames[u] : f.m.key # frame.m.key
        BY <4>3, <1>7, <1>8
      <4>5. \A f, g \in frames[u] : f.m.key = g.m.key => f = g
        BY <3>1, <3>2, <1>1 DEF SentOK
      <4>6. \A f, g \in frames'[u] : f.m.key = g.m.key => f = g
        BY <4>4, <4>5, <1>11
      <4>7. \A f \in frames'[u] : Spent(Encrypting(state), f.m.key)
        BY <4>3, <1>7, <1>8, <1>11
      <4>8. \A r \in Tasks : work'[u][r].op = "save" => work'[u][r].state = Encrypting(state)
        BY <3>1, <3>2, <1>9, <1>10, <1>15
      <4> QED
        BY <3>2, <4>6, <4>7, <4>8, <1>9, <1>10
    <3>3. CASE w # u
      <4>1. frames'[w] = frames[w] /\ \A r \in Tasks : work'[w][r] = work[w][r]
        BY <3>3, <1>3, <1>10, <1>11
      <4> QED
        BY <4>1, <3>1, <1>1, <1>2 DEF SentOK
    <3> QED
      BY <3>2, <3>3
  <2> QED
    BY <2>1 DEF SentOK
<1>20. RouteOK'
  <2>1. ASSUME NEW w \in Users
        PROVE  Opened(w)' = Opened(w)
    <3>1. ASSUME NEW r \in Tasks
          PROVE  /\ work'[w][r].op = "open" <=> work[w][r].op = "open"
                 /\ work'[w][r].op = "open" => work'[w][r] = work[w][r]
      BY <1>2, <1>9, <1>10
    <3>2. ASSUME NEW f
          PROVE  f \in Opened(w)' <=> f \in Opened(w)
      BY <3>1, OpenedFrames, OpenedFramesNext
    <3> QED
      BY <3>2
  <2>2. Peer(u) = v
    BY DEF v
  <2>3. ASSUME NEW w \in Users
        PROVE  frames'[Peer(w)] = mailbox'[w] \cup read'[w] \cup unread'[w] \cup missed'[w]
                                  \cup Opened(w)'
    <3>1. frames[Peer(w)] = mailbox[w] \cup read[w] \cup unread[w] \cup missed[w] \cup Opened(w)
      BY <1>1 DEF RouteOK
    <3>2. CASE w = u
      BY <3>1, <3>2, <2>1, <2>2, <1>2, <1>11
    <3>3. CASE w = v
      BY <3>1, <3>3, <2>1, <1>2, <1>3, <1>11
    <3> QED
      BY <3>2, <3>3, <1>3
  <2> QED
    BY <2>3, <1>1, <1>2 DEF RouteOK
<1> QED
  BY <1>12, <1>13, <1>16, <1>18, <1>19, <1>20 DEF IInv

(* The state stored by a send knows of all that the stored one knew.         *)
LEMMA FinishSendKeeps ==
    ASSUME IInv, NEW u \in Users, NEW t \in Tasks, FinishSend(u, t)
    PROVE  IInv'
<1> DEFINE state == work[u][t].state
<1>1. Typed /\ SessionsOK /\ AloneOK /\ ReadOK /\ SentOK /\ RouteOK
  BY DEF IInv
<1>2. /\ work[u][t].op = "save" /\ work' = [work EXCEPT ![u][t] = Idle]
      /\ saved' = [saved EXCEPT ![u] = state]
      /\ UNCHANGED <<mailbox, gen, frames, read, reread, unread, missed, overlapped, cut>>
  BY DEF FinishSend
<1>3. Idle \in Ops /\ Idle.op = "idle"
  BY DEF Ops, Idle
<1>4. Stored(state) /\ state \in Sessions /\ state # Null
  BY <1>1, <1>2, SessionAssumption DEF SessionsOK, Stored
<1> HIDE DEF state
<1>5. /\ work' \in [Users -> [Tasks -> Ops]] /\ work'[u][t] = Idle
      /\ \A w \in Users : \A r \in Tasks : w # u \/ r # t => work'[w][r] = work[w][r]
  <2>1. work \in [Users -> [Tasks -> Ops]]
    BY <1>1 DEF Typed
  <2>2. work' = [work EXCEPT ![u][t] = Idle] /\ Idle \in Ops
    BY <1>2 DEF Ops, Idle
  <2> QED
    BY <2>1, <2>2
<1>6. /\ saved' \in [Users -> Sessions \cup {Null}] /\ saved'[u] = state
      /\ \A w \in Users : w # u => saved'[w] = saved[w]
  BY <1>1, <1>2, <1>4 DEF Typed
<1>7. Typed'
  BY <1>1, <1>2, <1>5, <1>6 DEF Typed
<1>8. SessionsOK'
  <2>1. \A w \in Users : saved'[w] # Null => Stored(saved'[w])
    BY <1>1, <1>4, <1>6 DEF SessionsOK
  <2>2. ASSUME NEW w \in Users, NEW r \in Tasks
        PROVE  /\ work'[w][r].op \in {"send", "open"} /\ work'[w][r].base # Null
                     => Stored(work'[w][r].base)
               /\ work'[w][r].op = "save" => Stored(work'[w][r].state)
    <3>1. CASE w = u /\ r = t
      BY <3>1, <1>3, <1>5
    <3>2. CASE w # u \/ r # t
      BY <3>2, <1>1, <1>5 DEF SessionsOK
    <3> QED
      BY <3>1, <3>2
  <2> QED
    BY <2>1, <2>2 DEF SessionsOK
<1>9. u \notin overlapped => \A r \in Tasks : work'[u][r] = Idle
  BY <1>1, <1>2, <1>3, <1>5 DEF AloneOK
<1>10. AloneOK'
  <2>1. ASSUME NEW w \in Users \ overlapped', NEW r \in Tasks, work'[w][r] # Idle
        PROVE  /\ \A q \in Tasks \ {r} : work'[w][q] = Idle
               /\ work'[w][r].op \in {"send", "open"} => work'[w][r].base = saved'[w]
    <3>1. w # u
      BY <2>1, <1>2, <1>9
    <3> QED
      BY <3>1, <2>1, <1>1, <1>2, <1>5, <1>6 DEF AloneOK
  <2> QED
    BY <2>1 DEF AloneOK
<1>11. ReadOK'
  <2>1. ASSUME NEW w \in Users \ overlapped'
        PROVE  /\ reread'[w] = {}
               /\ \A f \in read'[w] :
                     /\ saved'[w] # Null /\ Consumed(saved'[w], f.m.key)
                     /\ \A r \in Tasks : work'[w][r].op = "save" =>
                            Consumed(work'[w][r].state, f.m.key)
    <3>1. CASE w = u
      <4>1. reread'[u] = {} /\ \A f \in read'[u] : Consumed(state, f.m.key)
        BY <2>1, <3>1, <1>1, <1>2 DEF ReadOK, state
      <4> QED
        BY <2>1, <3>1, <4>1, <1>2, <1>3, <1>4, <1>6, <1>9
    <3>2. CASE w # u
      BY <2>1, <3>2, <1>1, <1>2, <1>5, <1>6 DEF ReadOK
    <3> QED
      BY <3>1, <3>2
  <2> QED
    BY <2>1 DEF ReadOK
<1>12. SentOK'
  <2>1. ASSUME NEW w \in Users \ Disturbed'
        PROVE  /\ \A f, g \in frames'[w] : f.m.key = g.m.key => f = g
               /\ \A f \in frames'[w] : \A r \in Tasks :
                     work'[w][r].op = "save" => Spent(work'[w][r].state, f.m.key)
               /\ (\A r \in Tasks : work'[w][r].op # "save") =>
                     \A f \in frames'[w] : saved'[w] # Null /\ Spent(saved'[w], f.m.key)
    <3>1. w \in Users \ Disturbed /\ w \notin overlapped
      BY <1>2 DEF Disturbed
    <3>2. \A f, g \in frames'[w] : f.m.key = g.m.key => f = g
      BY <3>1, <1>1, <1>2 DEF SentOK
    <3>3. CASE w = u
      <4>1. \A f \in frames'[u] : Spent(state, f.m.key)
        BY <3>1, <3>3, <1>1, <1>2 DEF SentOK, state
      <4>2. \A r \in Tasks : work'[u][r].op # "save"
        BY <3>1, <3>3, <1>3, <1>9
      <4> QED
        BY <3>2, <3>3, <4>1, <4>2, <1>4, <1>6
    <3>4. CASE w # u
      <4>1. \A r \in Tasks : work'[w][r] = work[w][r]
        BY <3>4, <1>5
      <4> QED
        BY <4>1, <3>1, <3>4, <1>1, <1>2, <1>6 DEF SentOK
    <3> QED
      BY <3>3, <3>4
  <2> QED
    BY <2>1 DEF SentOK
<1>13. RouteOK'
  <2>1. ASSUME NEW w \in Users
        PROVE  Opened(w)' = Opened(w)
    <3>1. ASSUME NEW r \in Tasks
          PROVE  /\ work'[w][r].op = "open" <=> work[w][r].op = "open"
                 /\ work'[w][r].op = "open" => work'[w][r] = work[w][r]
      BY <1>2, <1>3, <1>5
    <3>2. ASSUME NEW f
          PROVE  f \in Opened(w)' <=> f \in Opened(w)
      BY <3>1, OpenedFrames, OpenedFramesNext
    <3> QED
      BY <3>2
  <2> QED
    BY <2>1, <1>1, <1>2 DEF RouteOK
<1> QED
  BY <1>7, <1>8, <1>10, <1>11, <1>12, <1>13 DEF IInv

(* A send that throws leaves the stored session behind the frame it sent.    *)
LEMMA FailSendKeeps ==
    ASSUME IInv, NEW u \in Users, NEW t \in Tasks, FailSend(u, t)
    PROVE  IInv'
<1>1. Typed /\ SessionsOK /\ AloneOK /\ ReadOK /\ SentOK /\ RouteOK
  BY DEF IInv
<1>2. /\ work[u][t].op = "save" /\ work' = [work EXCEPT ![u][t] = Idle] /\ cut' = cut \cup {u}
      /\ UNCHANGED <<saved, mailbox, gen, frames, read, reread, unread, missed, overlapped>>
  BY DEF FailSend
<1>3. Idle \in Ops /\ Idle.op = "idle"
  BY DEF Ops, Idle
<1>4. /\ work' \in [Users -> [Tasks -> Ops]] /\ work'[u][t] = Idle
      /\ \A w \in Users : \A r \in Tasks : w # u \/ r # t => work'[w][r] = work[w][r]
  <2>1. work \in [Users -> [Tasks -> Ops]]
    BY <1>1 DEF Typed
  <2>2. work' = [work EXCEPT ![u][t] = Idle] /\ Idle \in Ops
    BY <1>2 DEF Ops, Idle
  <2> QED
    BY <2>1, <2>2
<1>5. Typed'
  BY <1>1, <1>2, <1>4 DEF Typed
<1>6. ASSUME NEW w \in Users, NEW r \in Tasks
      PROVE  work'[w][r] = Idle \/ work'[w][r] = work[w][r]
  BY <1>4
<1>7. SessionsOK'
  <2>1. \A w \in Users : saved'[w] # Null => Stored(saved'[w])
    BY <1>1, <1>2 DEF SessionsOK
  <2>2. ASSUME NEW w \in Users, NEW r \in Tasks
        PROVE  /\ work'[w][r].op \in {"send", "open"} /\ work'[w][r].base # Null
                     => Stored(work'[w][r].base)
               /\ work'[w][r].op = "save" => Stored(work'[w][r].state)
    <3>1. CASE work'[w][r] = Idle
      BY <3>1, <1>3
    <3>2. CASE work'[w][r] = work[w][r]
      BY <3>2, <1>1 DEF SessionsOK
    <3> QED
      BY <3>1, <3>2, <1>6
  <2> QED
    BY <2>1, <2>2 DEF SessionsOK
<1>8. AloneOK'
  <2>1. ASSUME NEW w \in Users \ overlapped', NEW r \in Tasks, work'[w][r] # Idle
        PROVE  /\ \A q \in Tasks \ {r} : work'[w][q] = Idle
               /\ work'[w][r].op \in {"send", "open"} => work'[w][r].base = saved'[w]
    <3>1. work'[w][r] = work[w][r]
      BY <2>1, <1>6
    <3>2. /\ \A q \in Tasks \ {r} : work[w][q] = Idle
          /\ work[w][r].op \in {"send", "open"} => work[w][r].base = saved[w]
      BY <3>1, <2>1, <1>1, <1>2 DEF AloneOK
    <3> QED
      BY <3>1, <3>2, <1>2, <1>6
  <2> QED
    BY <2>1 DEF AloneOK
<1>9. ReadOK'
  <2>1. ASSUME NEW w \in Users \ overlapped'
        PROVE  /\ reread'[w] = {}
               /\ \A f \in read'[w] :
                     /\ saved'[w] # Null /\ Consumed(saved'[w], f.m.key)
                     /\ \A r \in Tasks : work'[w][r].op = "save" =>
                            Consumed(work'[w][r].state, f.m.key)
    <3>1. ASSUME NEW r \in Tasks, work'[w][r].op = "save"
          PROVE  work'[w][r] = work[w][r]
      BY <3>1, <1>3, <1>6
    <3> QED
      BY <2>1, <3>1, <1>1, <1>2 DEF ReadOK
  <2> QED
    BY <2>1 DEF ReadOK
<1>10. SentOK'
  <2>1. ASSUME NEW w \in Users \ Disturbed'
        PROVE  /\ \A f, g \in frames'[w] : f.m.key = g.m.key => f = g
               /\ \A f \in frames'[w] : \A r \in Tasks :
                     work'[w][r].op = "save" => Spent(work'[w][r].state, f.m.key)
               /\ (\A r \in Tasks : work'[w][r].op # "save") =>
                     \A f \in frames'[w] : saved'[w] # Null /\ Spent(saved'[w], f.m.key)
    <3>1. w \in Users \ Disturbed /\ w # u
      BY <1>2 DEF Disturbed
    <3>2. \A r \in Tasks : work'[w][r] = work[w][r]
      BY <3>1, <1>4
    <3> QED
      BY <3>1, <3>2, <1>1, <1>2 DEF SentOK
  <2> QED
    BY <2>1 DEF SentOK
<1>11. RouteOK'
  <2>1. ASSUME NEW w \in Users
        PROVE  Opened(w)' = Opened(w)
    <3>1. ASSUME NEW r \in Tasks
          PROVE  /\ work'[w][r].op = "open" <=> work[w][r].op = "open"
                 /\ work'[w][r].op = "open" => work'[w][r] = work[w][r]
      BY <1>2, <1>3, <1>4
    <3>2. ASSUME NEW f
          PROVE  f \in Opened(w)' <=> f \in Opened(w)
      BY <3>1, OpenedFrames, OpenedFramesNext
    <3> QED
      BY <3>2
  <2> QED
    BY <2>1, <1>1, <1>2 DEF RouteOK
<1> QED
  BY <1>5, <1>7, <1>8, <1>9, <1>10, <1>11 DEF IInv

(* The operation of a user who has no other in hand: nothing is about to be  *)
(* stored, and what it loaded is what is stored.                             *)
LEMMA AloneOpens ==
    ASSUME IInv, NEW u \in Users \ overlapped, NEW t \in Tasks, work[u][t].op = "open"
    PROVE  /\ work[u][t].base = saved[u]
           /\ \A r \in Tasks \ {t} : work[u][r] = Idle
           /\ \A r \in Tasks : work[u][r].op # "save"
<1>1. AloneOK
  BY DEF IInv
<1>2. Idle.op = "idle"
  BY DEF Idle
<1>3. work[u][t] # Idle
  BY <1>2
<1>4. work[u][t].base = saved[u] /\ \A r \in Tasks \ {t} : work[u][r] = Idle
  BY <1>1, <1>3 DEF AloneOK
<1> QED
  BY <1>2, <1>4

(* A frame is decrypted and the new state stored, or it is given up.         *)
LEMMA OpenKeeps ==
    ASSUME IInv, NEW u \in Users, NEW t \in Tasks, Open(u, t)
    PROVE  IInv'
<1> DEFINE base == work[u][t].base
           frame == work[u][t].frame
           state == Opening(u, base, frame)
           fresh == Pair(u, gen[u] + 1)
           new == Decrypting(state, frame.m, fresh)
<1>1. Typed /\ SessionsOK /\ AloneOK /\ ReadOK /\ SentOK /\ RouteOK
  BY DEF IInv
<1>2. /\ work[u][t].op = "open" /\ work' = [work EXCEPT ![u][t] = Idle]
      /\ UNCHANGED <<mailbox, frames, missed, overlapped, cut>>
      /\ \/ /\ state # Null /\ Decrypts(state, frame.m, fresh)
            /\ saved' = [saved EXCEPT ![u] = new]
            /\ gen' = [gen EXCEPT ![u] = gen[u] + 1]
            /\ reread' = [reread EXCEPT ![u] = reread[u] \cup ({frame} \cap read[u])]
            /\ read' = [read EXCEPT ![u] = read[u] \cup {frame}]
            /\ UNCHANGED unread
         \/ /\ unread' = [unread EXCEPT ![u] = unread[u] \cup ({frame} \ read[u])]
            /\ UNCHANGED <<saved, gen, read, reread>>
  BY DEF Open
<1>3. /\ gen[u] \in Nat /\ base \in Sessions \cup {Null} /\ frame \in Frames
      /\ base # Null => Stored(base)
  <2>1. work[u][t] \in Ops /\ gen[u] \in Nat
    BY <1>1 DEF Typed
  <2> QED
    BY <2>1, <1>1, <1>2, OpFields DEF SessionsOK
<1>4. fresh \in Pairs /\ frame.m \in Messages /\ frame.m.key \in Keys
  BY <1>3 DEF Pair, Pairs, Frames, Messages
<1>5. /\ base # Null => state = base
      /\ state # Null => state \in Sessions /\ Well(state) /\ Fit(state)
  <2>1. CASE base # Null
    BY <2>1, <1>3 DEF Opening, Stored, Fit
  <2>2. CASE base = Null /\ frame.x3dh # Null
    <3>1. frame.x3dh \in Pairs
      BY <2>2, <1>3 DEF Frames
    <3> QED
      BY <3>1, <2>2, ResponderFit DEF Opening
  <2>3. CASE base = Null /\ frame.x3dh = Null
    BY <2>3 DEF Opening
  <2> QED
    BY <2>1, <2>2, <2>3
<1> HIDE DEF base, frame, state, fresh, new
<1>6. Idle.op = "idle"
  BY DEF Idle
<1>7. /\ work' \in [Users -> [Tasks -> Ops]] /\ work'[u][t] = Idle
      /\ \A w \in Users : \A r \in Tasks : w # u \/ r # t => work'[w][r] = work[w][r]
  <2>1. work \in [Users -> [Tasks -> Ops]]
    BY <1>1 DEF Typed
  <2>2. work' = [work EXCEPT ![u][t] = Idle] /\ Idle \in Ops
    BY <1>2 DEF Ops, Idle
  <2> QED
    BY <2>1, <2>2
<1>8. u \notin overlapped => /\ base = saved[u] /\ \A r \in Tasks : work'[u][r] = Idle
                             /\ \A r \in Tasks : work[u][r].op # "save"
  BY <1>2, <1>7, AloneOpens DEF base
<1>9. \A w \in Users : w # u =>
         /\ saved'[w] = saved[w] /\ read'[w] = read[w] /\ reread'[w] = reread[w]
         /\ unread'[w] = unread[w]
  BY <1>1, <1>2 DEF Typed
<1>10. \/ /\ state # Null /\ Decrypts(state, frame.m, fresh)
          /\ saved'[u] = new /\ read'[u] = read[u] \cup {frame} /\ unread'[u] = unread[u]
          /\ reread'[u] = reread[u] \cup ({frame} \cap read[u])
       \/ /\ saved'[u] = saved[u] /\ read'[u] = read[u] /\ reread'[u] = reread[u]
          /\ unread'[u] = unread[u] \cup ({frame} \ read[u])
  BY <1>1, <1>2 DEF Typed
<1>11. state # Null /\ Decrypts(state, frame.m, fresh) =>
         /\ Stored(new) /\ new \in Sessions /\ new # Null
         /\ Progress(state, new) /\ Consumed(new, frame.m.key) /\ ~ Consumed(state, frame.m.key)
  <2>1. ASSUME state # Null, Decrypts(state, frame.m, fresh)
        PROVE  /\ Stored(new) /\ Progress(state, new)
               /\ Consumed(new, frame.m.key) /\ ~ Consumed(state, frame.m.key)
    BY <2>1, <1>4, <1>5, DecryptingWorks DEF new
  <2> QED
    BY <2>1, SessionAssumption DEF Stored
<1>12. Typed'
  <2>1. saved' \in [Users -> Sessions \cup {Null}]
    BY <1>1, <1>2, <1>11 DEF Typed
  <2>2. gen' \in [Users -> Nat]
    BY <1>1, <1>2, <1>3 DEF Typed
  <2>3. read' \in [Users -> SUBSET Frames]
    <3>1. read[u] \cup {frame} \in SUBSET Frames
      BY <1>1, <1>3 DEF Typed
    <3> QED
      BY <3>1, <1>1, <1>2 DEF Typed
  <2>5. reread' \in [Users -> SUBSET Frames]
    <3>1. reread[u] \cup ({frame} \cap read[u]) \in SUBSET Frames
      BY <1>1, <1>3 DEF Typed
    <3> QED
      BY <3>1, <1>1, <1>2 DEF Typed
  <2>4. unread' \in [Users -> SUBSET Frames]
    BY <1>1, <1>2, <1>3 DEF Typed
  <2> QED
    BY <2>1, <2>2, <2>3, <2>4, <2>5, <1>1, <1>2, <1>7 DEF Typed
<1>13. SessionsOK'
  <2>1. ASSUME NEW w \in Users, saved'[w] # Null
        PROVE  Stored(saved'[w])
    BY <2>1, <1>1, <1>9, <1>10, <1>11 DEF SessionsOK
  <2>2. ASSUME NEW w \in Users, NEW r \in Tasks
        PROVE  /\ work'[w][r].op \in {"send", "open"} /\ work'[w][r].base # Null
                     => Stored(work'[w][r].base)
               /\ work'[w][r].op = "save" => Stored(work'[w][r].state)
    <3>1. CASE w = u /\ r = t
      BY <3>1, <1>6, <1>7
    <3>2. CASE w # u \/ r # t
      BY <3>2, <1>1, <1>7 DEF SessionsOK
    <3> QED
      BY <3>1, <3>2
  <2> QED
    BY <2>1, <2>2 DEF SessionsOK
<1>14. AloneOK'
  <2>1. ASSUME NEW w \in Users \ overlapped', NEW r \in Tasks, work'[w][r] # Idle
        PROVE  /\ \A q \in Tasks \ {r} : work'[w][q] = Idle
               /\ work'[w][r].op \in {"send", "open"} => work'[w][r].base = saved'[w]
    <3>1. w # u
      BY <2>1, <1>2, <1>8
    <3> QED
      BY <3>1, <2>1, <1>1, <1>2, <1>7, <1>9 DEF AloneOK
  <2> QED
    BY <2>1 DEF AloneOK
<1>15. ASSUME NEW w \in Users, NEW f \in frames[w] \cup read[w]
       PROVE  f.m.key \in Keys
  <2>1. f \in Frames
    BY <1>1 DEF Typed
  <2> QED
    BY <2>1 DEF Frames, Messages
<1>16. ReadOK'
  <2>1. ASSUME NEW w \in Users \ overlapped'
        PROVE  /\ reread'[w] = {}
               /\ \A f \in read'[w] :
                     /\ saved'[w] # Null /\ Consumed(saved'[w], f.m.key)
                     /\ \A r \in Tasks : work'[w][r].op = "save" =>
                            Consumed(work'[w][r].state, f.m.key)
    <3>1. w \in Users \ overlapped
      BY <1>2
    <3>2. /\ reread[w] = {}
          /\ \A f \in read[w] : saved[w] # Null /\ Consumed(saved[w], f.m.key)
      BY <3>1, <1>1 DEF ReadOK
    <3>3. CASE w = u
      <4>1. \A r \in Tasks : work'[u][r].op # "save"
        BY <3>1, <3>3, <1>6, <1>8
      <4>2. ASSUME NEW f \in read[u]
            PROVE  state = saved[u] /\ state # Null /\ Consumed(state, f.m.key)
        BY <3>1, <3>2, <3>3, <1>5, <1>8
      <4>3. CASE /\ state # Null /\ Decrypts(state, frame.m, fresh)
                 /\ saved'[u] = new /\ read'[u] = read[u] \cup {frame}
                 /\ reread'[u] = reread[u] \cup ({frame} \cap read[u])
        <5>1. frame \notin read[u]
          BY <4>2, <4>3, <1>11
        <5>2. reread'[u] = {}
          BY <5>1, <4>3, <3>2, <3>3
        <5>3. ASSUME NEW f \in read[u]
              PROVE  Consumed(new, f.m.key)
          BY <4>2, <4>3, <1>5, <1>11, <1>15, ProgressKeeps
        <5>4. \A f \in read'[u] : Consumed(new, f.m.key)
          BY <5>3, <4>3, <1>11
        <5> QED
          BY <5>2, <5>4, <4>1, <4>3, <3>3, <1>11
      <4>4. CASE saved'[u] = saved[u] /\ read'[u] = read[u] /\ reread'[u] = reread[u]
        BY <4>1, <4>4, <3>2, <3>3
      <4> QED
        BY <4>3, <4>4, <1>10
    <3>4. CASE w # u
      <4>1. \A r \in Tasks : work'[w][r] = work[w][r]
        BY <3>4, <1>7
      <4> QED
        BY <3>1, <3>4, <4>1, <1>1, <1>9 DEF ReadOK
    <3> QED
      BY <3>3, <3>4
  <2> QED
    BY <2>1 DEF ReadOK
<1>17. SentOK'
  <2>1. ASSUME NEW w \in Users \ Disturbed'
        PROVE  /\ \A f, g \in frames'[w] : f.m.key = g.m.key => f = g
               /\ \A f \in frames'[w] : \A r \in Tasks :
                     work'[w][r].op = "save" => Spent(work'[w][r].state, f.m.key)
               /\ (\A r \in Tasks : work'[w][r].op # "save") =>
                     \A f \in frames'[w] : saved'[w] # Null /\ Spent(saved'[w], f.m.key)
    <3>1. w \in Users \ Disturbed /\ w \notin overlapped
      BY <1>2 DEF Disturbed
    <3>2. \A f, g \in frames'[w] : f.m.key = g.m.key => f = g
      BY <3>1, <1>1, <1>2 DEF SentOK
    <3>3. CASE w = u
      <4>1. \A r \in Tasks : work'[u][r].op # "save"
        BY <3>1, <3>3, <1>6, <1>8
      <4>2. \A f \in frames[u] : saved[u] # Null /\ Spent(saved[u], f.m.key)
        BY <3>1, <3>3, <1>1, <1>8 DEF SentOK
      <4>3. ASSUME NEW f \in frames[u]
            PROVE  state = saved[u] /\ state # Null /\ Spent(state, f.m.key)
        BY <4>2, <3>1, <3>3, <1>5, <1>8
      <4>4. CASE state # Null /\ Decrypts(state, frame.m, fresh) /\ saved'[u] = new
        <5>1. ASSUME NEW f \in frames[u]
              PROVE  Spent(new, f.m.key)
          BY <4>3, <4>4, <1>5, <1>11, <1>15, ProgressKeeps
        <5> QED
          BY <5>1, <4>1, <4>4, <3>2, <3>3, <1>2, <1>11
      <4>5. CASE saved'[u] = saved[u]
        BY <4>1, <4>2, <4>5, <3>2, <3>3, <1>2
      <4> QED
        BY <4>4, <4>5, <1>10
    <3>4. CASE w # u
      <4>1. \A r \in Tasks : work'[w][r] = work[w][r]
        BY <3>4, <1>7
      <4> QED
        BY <3>1, <3>4, <4>1, <1>1, <1>2, <1>9 DEF SentOK
    <3> QED
      BY <3>3, <3>4
  <2> QED
    BY <2>1 DEF SentOK
<1>18. RouteOK'
  <2>1. Opened(u)' \cup {frame} = Opened(u) /\ frame \in Opened(u)
    <3>1. ASSUME NEW f
          PROVE  f \in Opened(u)' \/ f = frame <=> f \in Opened(u)
      BY <1>2, <1>6, <1>7, OpenedFrames, OpenedFramesNext DEF frame
    <3> QED
      BY <3>1
  <2>2. ASSUME NEW v \in Users, v # u
        PROVE  Opened(v)' = Opened(v)
    <3>1. \A r \in Tasks : work'[v][r] = work[v][r]
      BY <2>2, <1>7
    <3>2. ASSUME NEW f
          PROVE  f \in Opened(v)' <=> f \in Opened(v)
      BY <3>1, OpenedFrames, OpenedFramesNext
    <3> QED
      BY <3>2
  <2>3. ASSUME NEW v \in Users
        PROVE  /\ frames'[Peer(v)] = mailbox'[v] \cup read'[v] \cup unread'[v] \cup missed'[v]
                                     \cup Opened(v)'
               /\ reread'[v] \subseteq read'[v]
    <3>1. /\ frames[Peer(v)] = mailbox[v] \cup read[v] \cup unread[v] \cup missed[v] \cup Opened(v)
          /\ reread[v] \subseteq read[v]
      BY <1>1 DEF RouteOK
    <3>2. CASE v = u
      <4>1. read'[u] \cup unread'[u] = read[u] \cup unread[u] \cup {frame}
        BY <1>10
      <4>2. reread'[u] \subseteq read'[u]
        BY <3>1, <3>2, <1>10
      <4> QED
        BY <4>1, <4>2, <3>1, <3>2, <2>1, <1>2
    <3>3. CASE v # u
      BY <3>1, <3>3, <2>2, <1>2, <1>9
    <3> QED
      BY <3>2, <3>3
  <2> QED
    BY <2>3 DEF RouteOK
<1> QED
  BY <1>12, <1>13, <1>14, <1>16, <1>17, <1>18 DEF IInv

(* A frame delivered again was delivered before.                             *)
LEMMA RepeatKeeps ==
    ASSUME IInv, NEW u \in Users, Repeat(u)
    PROVE  IInv'
<1>1. Typed /\ SessionsOK /\ AloneOK /\ ReadOK /\ SentOK /\ RouteOK
  BY DEF IInv
<1>2. PICK frame \in read[u] \cup unread[u] :
         mailbox' = [mailbox EXCEPT ![u] = mailbox[u] \cup {frame}]
  BY DEF Repeat
<1>3. UNCHANGED <<saved, work, gen, frames, read, reread, unread, missed, overlapped, cut>>
  BY DEF Repeat
<1>4. Typed'
  BY <1>1, <1>2, <1>3 DEF Typed
<1>5. SessionsOK' /\ AloneOK' /\ ReadOK'
  BY <1>1, <1>3 DEF SessionsOK, AloneOK, ReadOK
<1>6. SentOK'
  BY <1>1, <1>3 DEF SentOK, Disturbed
<1>7. RouteOK'
  <2>1. ASSUME NEW v \in Users
        PROVE  frames'[Peer(v)] = mailbox'[v] \cup read'[v] \cup unread'[v] \cup missed'[v]
                                  \cup Opened(v)'
    <3>1. frames[Peer(v)] = mailbox[v] \cup read[v] \cup unread[v] \cup missed[v] \cup Opened(v)
      BY <1>1 DEF RouteOK
    <3>2. Opened(v)' = Opened(v)
      BY <1>3 DEF Opened
    <3>3. mailbox'[v] \cup read[v] \cup unread[v] = mailbox[v] \cup read[v] \cup unread[v]
      BY <1>1, <1>2 DEF Typed
    <3> QED
      BY <3>1, <3>2, <3>3, <1>3
  <2> QED
    BY <2>1, <1>1, <1>3 DEF RouteOK
<1> QED
  BY <1>4, <1>5, <1>6, <1>7 DEF IInv

(* A crash loses the operations in hand, and what they had not stored.       *)
LEMMA CrashKeeps ==
    ASSUME IInv, NEW u \in Users, Crash(u)
    PROVE  IInv'
<1>1. Typed /\ SessionsOK /\ AloneOK /\ ReadOK /\ SentOK /\ RouteOK
  BY DEF IInv
<1>2. /\ cut' = IF \E w \in {work[u][t] : t \in Tasks} : w.op = "save"
                THEN cut \cup {u} ELSE cut
      /\ work' = [work EXCEPT ![u] = [t \in Tasks |-> Idle]]
      /\ UNCHANGED <<saved, gen, frames, read, reread, unread, overlapped>>
  BY DEF Crash
<1>3. PICK marked \in SUBSET Opened(u) :
         /\ missed' = [missed EXCEPT ![u] = missed[u] \cup marked]
         /\ mailbox' = [mailbox EXCEPT ![u] = mailbox[u] \cup (Opened(u) \ marked)]
  BY DEF Crash, Opened
<1>4. Idle \in Ops /\ Idle.op = "idle"
  BY DEF Ops, Idle
<1>5. /\ work' \in [Users -> [Tasks -> Ops]] /\ \A t \in Tasks : work'[u][t] = Idle
      /\ \A w \in Users : w # u => work'[w] = work[w]
  BY <1>1, <1>2, <1>4 DEF Typed
<1>6. Opened(u) \subseteq Frames
  <2>1. ASSUME NEW f \in Opened(u)
        PROVE  f \in Frames
    <3>1. PICK t \in Tasks : work[u][t].op = "open" /\ f = work[u][t].frame
      BY OpenedFrames
    <3>2. work[u][t] \in Ops
      BY <1>1 DEF Typed
    <3> QED
      BY <3>1, <3>2, OpFields
  <2> QED
    BY <2>1
<1>7. /\ missed' \in [Users -> SUBSET Frames] /\ missed'[u] = missed[u] \cup marked
      /\ mailbox' \in [Users -> SUBSET Frames] /\ mailbox'[u] = mailbox[u] \cup (Opened(u) \ marked)
      /\ \A w \in Users : w # u => missed'[w] = missed[w] /\ mailbox'[w] = mailbox[w]
  BY <1>1, <1>3, <1>6 DEF Typed
<1>8. cut' \in SUBSET Users /\ cut \subseteq cut'
      /\ (u \notin cut' => \A t \in Tasks : work[u][t].op # "save")
  BY <1>1, <1>2 DEF Typed
<1>9. Typed'
  BY <1>1, <1>2, <1>5, <1>7, <1>8 DEF Typed
<1>10. SessionsOK'
  <2>1. \A w \in Users : saved'[w] # Null => Stored(saved'[w])
    BY <1>1, <1>2 DEF SessionsOK
  <2>2. ASSUME NEW w \in Users, NEW r \in Tasks
        PROVE  /\ work'[w][r].op \in {"send", "open"} /\ work'[w][r].base # Null
                     => Stored(work'[w][r].base)
               /\ work'[w][r].op = "save" => Stored(work'[w][r].state)
    <3>1. CASE w = u
      BY <3>1, <1>4, <1>5
    <3>2. CASE w # u
      BY <3>2, <1>1, <1>5 DEF SessionsOK
    <3> QED
      BY <3>1, <3>2
  <2> QED
    BY <2>1, <2>2 DEF SessionsOK
<1>11. AloneOK'
  <2>1. ASSUME NEW w \in Users \ overlapped', NEW r \in Tasks, work'[w][r] # Idle
        PROVE  /\ \A q \in Tasks \ {r} : work'[w][q] = Idle
               /\ work'[w][r].op \in {"send", "open"} => work'[w][r].base = saved'[w]
    <3>1. w # u
      BY <2>1, <1>5
    <3> QED
      BY <3>1, <2>1, <1>1, <1>2, <1>5 DEF AloneOK
  <2> QED
    BY <2>1 DEF AloneOK
<1>12. ReadOK'
  <2>1. ASSUME NEW w \in Users \ overlapped'
        PROVE  /\ reread'[w] = {}
               /\ \A f \in read'[w] :
                     /\ saved'[w] # Null /\ Consumed(saved'[w], f.m.key)
                     /\ \A r \in Tasks : work'[w][r].op = "save" =>
                            Consumed(work'[w][r].state, f.m.key)
    <3>1. ASSUME NEW r \in Tasks, work'[w][r].op = "save"
          PROVE  work'[w][r] = work[w][r]
      BY <3>1, <1>4, <1>5
    <3> QED
      BY <2>1, <3>1, <1>1, <1>2 DEF ReadOK
  <2> QED
    BY <2>1 DEF ReadOK
<1>13. SentOK'
  <2>1. ASSUME NEW w \in Users \ Disturbed'
        PROVE  /\ \A f, g \in frames'[w] : f.m.key = g.m.key => f = g
               /\ \A f \in frames'[w] : \A r \in Tasks :
                     work'[w][r].op = "save" => Spent(work'[w][r].state, f.m.key)
               /\ (\A r \in Tasks : work'[w][r].op # "save") =>
                     \A f \in frames'[w] : saved'[w] # Null /\ Spent(saved'[w], f.m.key)
    <3>1. w \in Users \ Disturbed
      BY <1>2, <1>8 DEF Disturbed
    <3>2. CASE w = u
      <4>1. \A r \in Tasks : work[u][r].op # "save"
        BY <2>1, <3>2, <1>8 DEF Disturbed
      <4>2. /\ \A f, g \in frames[u] : f.m.key = g.m.key => f = g
            /\ \A f \in frames[u] : saved[u] # Null /\ Spent(saved[u], f.m.key)
        BY <4>1, <3>1, <3>2, <1>1 DEF SentOK
      <4>3. \A r \in Tasks : work'[u][r].op # "save"
        BY <1>4, <1>5
      <4> QED
        BY <4>2, <4>3, <3>2, <1>2
    <3>3. CASE w # u
      BY <3>1, <3>3, <1>1, <1>2, <1>5 DEF SentOK
    <3> QED
      BY <3>2, <3>3
  <2> QED
    BY <2>1 DEF SentOK
<1>14. RouteOK'
  <2>1. Opened(u)' = {}
    BY <1>4, <1>5, OpenedFramesNext
  <2>2. ASSUME NEW v \in Users, v # u
        PROVE  Opened(v)' = Opened(v)
    <3>1. \A r \in Tasks : work'[v][r] = work[v][r]
      BY <2>2, <1>5
    <3>2. ASSUME NEW f
          PROVE  f \in Opened(v)' <=> f \in Opened(v)
      BY <3>1, OpenedFrames, OpenedFramesNext
    <3> QED
      BY <3>2
  <2>3. ASSUME NEW v \in Users
        PROVE  frames'[Peer(v)] = mailbox'[v] \cup read'[v] \cup unread'[v] \cup missed'[v]
                                  \cup Opened(v)'
    <3>1. frames[Peer(v)] = mailbox[v] \cup read[v] \cup unread[v] \cup missed[v] \cup Opened(v)
      BY <1>1 DEF RouteOK
    <3>2. CASE v = u
      BY <3>1, <3>2, <2>1, <1>2, <1>3, <1>7
    <3>3. CASE v # u
      BY <3>1, <3>3, <2>2, <1>2, <1>7
    <3> QED
      BY <3>2, <3>3
  <2> QED
    BY <2>3, <1>1, <1>2 DEF RouteOK
<1> QED
  BY <1>9, <1>10, <1>11, <1>12, <1>13, <1>14 DEF IInv

LEMMA NextIInv == IInv /\ [Next]_vars => IInv'
<1> SUFFICES ASSUME IInv, [Next]_vars
             PROVE  IInv'
  OBVIOUS
<1>1. CASE UNCHANGED vars
  <2>1. UNCHANGED <<saved, work, mailbox, gen, frames, read, reread, unread, missed,
                    overlapped, cut>>
    BY <1>1 DEF vars
  <2>2. Typed' /\ SessionsOK' /\ AloneOK' /\ ReadOK'
    BY <2>1 DEF IInv, Typed, SessionsOK, AloneOK, ReadOK
  <2>3. SentOK' /\ RouteOK'
    BY <2>1 DEF IInv, SentOK, Disturbed, RouteOK, Opened
  <2> QED
    BY <2>2, <2>3 DEF IInv
<1>2. ASSUME NEW u \in Users, NEW t \in Tasks, StartSend(u, t)
      PROVE  IInv'
  BY <1>2, StartSendKeeps
<1>3. ASSUME NEW u \in Users, NEW t \in Tasks, Transmit(u, t)
      PROVE  IInv'
  BY <1>3, TransmitKeeps
<1>4. ASSUME NEW u \in Users, NEW t \in Tasks, FinishSend(u, t)
      PROVE  IInv'
  BY <1>4, FinishSendKeeps
<1>5. ASSUME NEW u \in Users, NEW t \in Tasks, FailSend(u, t)
      PROVE  IInv'
  BY <1>5, FailSendKeeps
<1>6. ASSUME NEW u \in Users, NEW t \in Tasks, Arrive(u, t)
      PROVE  IInv'
  BY <1>6, ArriveKeeps
<1>7. ASSUME NEW u \in Users, NEW t \in Tasks, Open(u, t)
      PROVE  IInv'
  BY <1>7, OpenKeeps
<1>8. ASSUME NEW u \in Users, Repeat(u)
      PROVE  IInv'
  BY <1>8, RepeatKeeps
<1>9. ASSUME NEW u \in Users, Crash(u)
      PROVE  IInv'
  BY <1>9, CrashKeeps
<1> QED
  BY <1>1, <1>2, <1>3, <1>4, <1>5, <1>6, <1>7, <1>8, <1>9 DEF Next

-----------------------------------------------------------------------------

(* Every session, stored or in hand, is past the keys of the frames its user *)
(* read and sent, unless that user was disturbed, in every reachable state   *)
(* (sessionManager.ts:113-146, 294-327, ratchet.ts:118-186).                 *)
THEOREM SessionInvariant == Spec => []IInv
BY InitIInv, NextIInv, PTL DEF Spec

(* Stored sessions can always send, and every frame is in the mailbox of the *)
(* other user, in hand, read, given up or lost (ratchet.ts:130-132,          *)
(* sessionManager.ts:113-146, 294-327).                                      *)
THEOREM SessionTypeCorrect == Spec => []TypeOK
<1>1. ASSUME IInv
      PROVE  TypeOK
  <2>1. Typed /\ SessionsOK /\ RouteOK
    BY <1>1 DEF IInv
  <2>2. ASSUME NEW u \in Users, saved[u] # Null
        PROVE  /\ saved[u].send # Null
               /\ saved[u].ns \in Nat /\ saved[u].nr \in Nat /\ saved[u].pn \in Nat
    <3>1. saved[u] \in Sessions /\ saved[u].send = saved[u].root
      BY <2>1, <2>2 DEF SessionsOK, Stored
    <3> QED
      BY <3>1, SessionAssumption DEF Sessions
  <2>3. reread \in [Users -> SUBSET UNION {read[u] : u \in Users}]
    BY <2>1 DEF Typed, RouteOK
  <2>4. gen \in [Users -> Nat]
    BY <2>1 DEF Typed
  <2>5. \A u \in Users :
           frames[Peer(u)] = mailbox[u] \cup read[u] \cup unread[u] \cup missed[u]
                             \cup {w.frame : w \in {x \in {work[u][t] : t \in Tasks} :
                                                      x.op = "open"}}
    BY <2>1 DEF RouteOK, Opened
  <2> QED
    BY <2>2, <2>3, <2>4, <2>5 DEF TypeOK
<1> QED
  BY <1>1, SessionInvariant, PTL

(* Forward secrecy: the stored session no longer yields the key of a frame   *)
(* its user read or sent (ratchet.ts:4-6), whatever was repeated, reordered  *)
(* or skipped, and whatever the other user does, as long as its own          *)
(* operations never overlap and every state that sent a frame is stored.     *)
THEOREM SessionForwardSecrecy == Spec => []ForwardSecrecy
<1>1. ASSUME IInv
      PROVE  ForwardSecrecy
  <2>1. Typed /\ SessionsOK /\ ReadOK /\ SentOK
    BY <1>1 DEF IInv
  <2>2. ASSUME NEW u \in Users \ Disturbed, NEW f \in read[u] \cup frames[u],
               \A t \in Tasks : work[u][t].op # "save", saved[u] # Null
        PROVE  ~ Derivable(saved[u], f.m.key)
    <3>1. saved[u] \in Sessions /\ Stored(saved[u])
      BY <2>1, <2>2 DEF SessionsOK, Stored
    <3>2. f.m.key \in Keys
      <4>1. f \in Frames
        BY <2>1 DEF Typed
      <4> QED
        BY <4>1 DEF Frames, Messages
    <3>3. f \in read[u] => Consumed(saved[u], f.m.key)
      BY <2>1 DEF ReadOK, Disturbed
    <3>4. f \in frames[u] => Spent(saved[u], f.m.key)
      BY <2>1, <2>2 DEF SentOK
    <3> QED
      BY <3>1, <3>2, <3>3, <3>4, PastKeysAreGone
  <2> QED
    BY <2>2 DEF ForwardSecrecy
<1> QED
  BY <1>1, SessionInvariant, PTL

(* A frame that comes again is refused by a user whose operations never      *)
(* overlapped (ratchet.ts:141-159).                                          *)
THEOREM SessionReadOnce == Spec => []ReadOnce
<1>1. IInv => ReadOnce
  BY DEF IInv, ReadOK, ReadOnce
<1> QED
  BY <1>1, SessionInvariant, PTL

(* A user whose operations never overlapped, and who stored each state that  *)
(* sent a frame, encrypts each frame under a key of its own                  *)
(* (sessionManager.ts:129-145).                                              *)
THEOREM SessionOwnKey == Spec => []OwnKeyUnlessDisturbed
<1>1. IInv => OwnKeyUnlessDisturbed
  BY DEF IInv, SentOK, OwnKeyUnlessDisturbed
<1> QED
  BY <1>1, SessionInvariant, PTL

=============================================================================
