------------------------------ MODULE Ratchet ------------------------------
(***************************************************************************)
(* The Double Ratchet (engine/crypto/ratchet.ts, crypto/ratchet.py) with   *)
(* symbolic keys.  A key pair is a name; a Diffie-Hellman result is the set *)
(* of the two names; a root key is the sequence of the Diffie-Hellman      *)
(* results it was derived from, and names the chain derived along with it; *)
(* a chain key is a chain and a position, which the counters of the state  *)
(* hold.  Two keys are equal exactly if the same inputs went into them.    *)
(***************************************************************************)
EXTENDS Integers, Sequences

CONSTANTS Null,      (* JavaScript's null                                  *)
          MaxSkip    (* MAX_SKIP                                           *)

ASSUME RatchetAssumption == MaxSkip \in Nat

(* kdfRk: the new root key, and the name of the chain that starts with it.   *)
KdfRk(root, own, remote) == Append(root, {own, remote})

(* kdfCk: the message key at a position of a chain.                          *)
MessageKey(chain, n) == [chain |-> chain, n |-> n]

InitAsInitiator(secret, fresh, remote) ==
    [dhs |-> fresh, dhr |-> remote, root |-> KdfRk(secret, fresh, remote),
     send |-> KdfRk(secret, fresh, remote), recv |-> Null,
     ns |-> 0, nr |-> 0, pn |-> 0, skipped |-> {}]

InitAsResponder(secret, own) ==
    [dhs |-> own, dhr |-> Null, root |-> secret, send |-> Null, recv |-> Null,
     ns |-> 0, nr |-> 0, pn |-> 0, skipped |-> {}]

(* ratchetEncrypt, in two parts: the message and the state after it.         *)
Encrypted(s) == [dh |-> s.dhs, pn |-> s.pn, n |-> s.ns,
                 key |-> MessageKey(s.send, s.ns)]

(* Mutant of Encrypting: the counter of the sending chain stands still.      *)
EncryptingInPlace(s) == s

Encrypting(s) == [s EXCEPT !.ns = @ + 1]

(* Mutant of MaySkip: off by one.                                            *)
MaySkipLess(s, until) == s.recv = Null \/ until - s.nr < MaxSkip

(* skipMessageKeys: refused beyond MaxSkip, nothing to do without a chain.   *)
MaySkip(s, until) == s.recv = Null \/ until - s.nr <= MaxSkip

Skip(s, until) ==
    IF s.recv = Null \/ until <= s.nr
      THEN s
      ELSE [s EXCEPT !.nr = until,
                     !.skipped = @ \cup {[dh |-> s.dhr, n |-> i,
                                          key |-> MessageKey(s.recv, i)] :
                                            i \in s.nr..(until - 1)}]

(* Mutant of DhRatchet: the step of the sending chain is left out.           *)
DhRatchetReceiveOnly(s, remote, fresh) ==
    LET root == KdfRk(s.root, s.dhs, remote)
    IN  [s EXCEPT !.pn = s.ns, !.ns = 0, !.nr = 0, !.dhr = remote,
                  !.recv = root, !.root = root]

(* Mutant of DhRatchet: the root key of the second step is not kept.         *)
DhRatchetRootKept(s, remote, fresh) ==
    LET root == KdfRk(s.root, s.dhs, remote)
    IN  [s EXCEPT !.pn = s.ns, !.ns = 0, !.nr = 0, !.dhr = remote,
                  !.recv = root, !.dhs = fresh, !.root = root,
                  !.send = KdfRk(root, fresh, remote)]

(* dhRatchet: a receiving chain from the old pair, a sending one from a new. *)
DhRatchet(s, remote, fresh) ==
    LET root == KdfRk(s.root, s.dhs, remote)
    IN  [s EXCEPT !.pn = s.ns, !.ns = 0, !.nr = 0, !.dhr = remote,
                  !.recv = root, !.dhs = fresh,
                  !.root = KdfRk(root, fresh, remote),
                  !.send = KdfRk(root, fresh, remote)]

Cached(s, m) == {e \in s.skipped : e.dh = m.dh /\ e.n = m.n}

(* The state ratchetDecrypt holds when it comes to the message's own chain,  *)
(* and the one it leaves behind.                                             *)
Turned(s, m, fresh) ==
    IF m.dh = s.dhr THEN s ELSE DhRatchet(Skip(s, m.pn), m.dh, fresh)

Decrypting(s, m, fresh) ==
    IF Cached(s, m) # {}
      THEN [s EXCEPT !.skipped = @ \ Cached(s, m)]
      ELSE [Skip(Turned(s, m, fresh), m.n) EXCEPT !.nr = @ + 1]

(* ratchetDecrypt does not throw: no skip is refused, and the key it comes   *)
(* to is the one the message was encrypted with.                             *)
Decrypts(s, m, fresh) ==
    IF Cached(s, m) # {}
      THEN \E e \in Cached(s, m) : e.key = m.key
      ELSE LET t == Turned(s, m, fresh)
           IN  /\ m.dh # s.dhr => MaySkip(s, m.pn)
               /\ MaySkip(t, m.n)
               /\ MessageKey(t.recv, Skip(t, m.n).nr) = m.key
=============================================================================
