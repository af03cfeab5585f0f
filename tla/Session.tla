------------------------------ MODULE Session ------------------------------
(***************************************************************************)
(* Two users' pairwise encrypted session, as the session manager keeps it  *)
(* (engine/sessionManager.ts, client/session_manager.py): every operation  *)
(* loads the stored ratchet state, works on its own copy, and stores the   *)
(* copy at its end.  Nothing serialises the operations: while one waits    *)
(* for the relay or for IndexedDB any other may start, send against        *)
(* receive in both ports, receive against receive in the browser's.        *)
(*                                                                         *)
(* The relay keeps frames in order and may deliver one again; a client may *)
(* die.  One-time prekeys are the subject of Prekeys and left out here.    *)
(***************************************************************************)
EXTENDS Ratchet, FiniteSets

CONSTANTS Users,       (* the two of them                                  *)
          Tasks,       (* operations a client may have in hand at once     *)
          MaxSends,    (* bound: messages sent by the two                  *)
          MaxCuts,     (* bound: crashes, failed sends and overlaps        *)
          MaxRepeats   (* bound: frames delivered again                    *)

(* The values of a stored session: key pairs, chains, message keys, the      *)
(* entries of the cache, and RatchetState itself.                            *)
Pairs == Users \X Nat
Chains == Seq(SUBSET Pairs)
Keys == [chain : Chains, n : Nat]
Entries == [dh : Pairs \cup {Null}, n : Nat, key : Keys]
Sessions == [dhs : Pairs, dhr : Pairs \cup {Null}, root : Chains,
             send : Chains \cup {Null}, recv : Chains \cup {Null},
             ns : Nat, nr : Nat, pn : Nat, skipped : SUBSET Entries]

ASSUME SessionAssumption ==
    /\ \E u \in Users : \E v \in Users \ {u} : Users = {u, v}
    /\ Null \notin Pairs /\ Null \notin Chains /\ Null \notin Sessions
    /\ MaxSends \in Nat
    /\ MaxCuts \in Nat
    /\ MaxRepeats \in Nat

VARIABLES
    saved,      (* user -> the stored session with the other, or Null        *)
    work,       (* user -> task -> the operation in hand                     *)
    mailbox,    (* user -> frames the relay has yet to push to it            *)
    gen,        (* user -> key pairs generated so far                        *)
    frames,     (* user -> every frame it sent (history)                     *)
    read,       (* user -> frames it decrypted and stored (history)          *)
    reread,     (* user -> frames it decrypted a second time (history)       *)
    unread,     (* user -> frames whose handling threw (history)             *)
    missed,     (* user -> frames the relay marked and a crash lost (history) *)
    overlapped, (* users with two operations in hand at once (history)       *)
    cut,        (* users who sent a frame and never stored the state (history) *)
    cuts,       (* crashes, failed sends and overlaps so far                 *)
    repeats     (* frames delivered again so far                             *)

vars == <<saved, work, mailbox, gen, frames, read, reread, unread, missed,
          overlapped, cut, cuts, repeats>>

Idle == [op |-> "idle"]

Peer(u) == CHOOSE v \in Users : v # u

(* The n-th key pair of a user; the signed prekey is its first.              *)
Pair(u, n) == <<u, n>>
SignedPrekey(u) == Pair(u, 0)

(* X3DH: what initiate and respond both derive from the initiator's          *)
(* ephemeral key and the responder's signed prekey.                          *)
Secret(ephemeral, v) == <<{ephemeral, SignedPrekey(v)}>>

Busy(u) == \E t \in Tasks : work[u][t] # Idle

(* Messages sent so far.                                                    *)
Sent == Cardinality(UNION {{u} \X frames[u] : u \in Users})

(* An operation begins, perhaps while another one is in hand.                *)
Started(u) ==
    IF Busy(u) THEN /\ cuts < MaxCuts
                    /\ cuts' = cuts + 1
                    /\ overlapped' = overlapped \cup {u}
               ELSE UNCHANGED <<cuts, overlapped>>

-----------------------------------------------------------------------------

Init ==
    /\ saved = [u \in Users |-> Null]
    /\ work = [u \in Users |-> [t \in Tasks |-> Idle]]
    /\ mailbox = [u \in Users |-> {}]
    /\ gen = [u \in Users |-> 0]
    /\ frames = [u \in Users |-> {}]
    /\ read = [u \in Users |-> {}]
    /\ reread = [u \in Users |-> {}]
    /\ unread = [u \in Users |-> {}]
    /\ missed = [u \in Users |-> {}]
    /\ overlapped = {}
    /\ cut = {}
    /\ cuts = 0
    /\ repeats = 0

(* sendEnvelopeTo begins: it loads the session.                              *)
StartSend(u, t) ==
    /\ work[u][t] = Idle
    /\ Sent < MaxSends
    /\ work' = [work EXCEPT ![u][t] = [op |-> "send", base |-> saved[u]]]
    /\ Started(u)
    /\ UNCHANGED <<saved, mailbox, gen, frames, read, reread, unread, missed,
                   cut, repeats>>

(* Without a session it fetches the bundle and initiates; then it encrypts   *)
(* and the relay stores the frame, while the new state is not stored yet.    *)
Transmit(u, t) ==
    LET base == work[u][t].base
        v == Peer(u)
        ephemeral == Pair(u, gen[u] + 1)
        state == IF base # Null THEN base
                 ELSE InitAsInitiator(Secret(ephemeral, v), Pair(u, gen[u] + 2),
                                      SignedPrekey(v))
        frame == [id |-> Cardinality(frames[u]) + 1,
                  x3dh |-> IF base = Null THEN ephemeral ELSE Null,
                  m |-> Encrypted(state)]
    IN  /\ work[u][t].op = "send"
        /\ Sent < MaxSends
        /\ gen' = [gen EXCEPT ![u] = IF base = Null THEN @ + 2 ELSE @]
        /\ frames' = [frames EXCEPT ![u] = @ \cup {frame}]
        /\ mailbox' = [mailbox EXCEPT ![v] = @ \cup {frame}]
        /\ work' = [work EXCEPT ![u][t] = [op |-> "save", state |-> Encrypting(state)]]
        /\ UNCHANGED <<saved, read, reread, unread, missed, overlapped, cut, cuts,
                       repeats>>

(* The relay's answer is there: saveSession stores this operation's copy.    *)
FinishSend(u, t) ==
    /\ work[u][t].op = "save"
    /\ saved' = [saved EXCEPT ![u] = work[u][t].state]
    /\ work' = [work EXCEPT ![u][t] = Idle]
    /\ UNCHANGED <<mailbox, gen, frames, read, reread, unread, missed, overlapped,
                   cut, cuts, repeats>>

(* sendMessage throws although the relay stored the frame: the error frame   *)
(* of a push that failed, or a connection lost before the answer.            *)
FailSend(u, t) ==
    /\ work[u][t].op = "save"
    /\ cuts < MaxCuts
    /\ cuts' = cuts + 1
    /\ cut' = cut \cup {u}
    /\ work' = [work EXCEPT ![u][t] = Idle]
    /\ UNCHANGED <<saved, mailbox, gen, frames, read, reread, unread, missed,
                   overlapped, repeats>>

(* handleIncoming begins for the next frame the relay pushes: it loads the   *)
(* session.                                                                  *)
Arrive(u, t) ==
    \E frame \in mailbox[u] :
        /\ work[u][t] = Idle
        /\ \A other \in mailbox[u] : frame.id <= other.id
        /\ mailbox' = [mailbox EXCEPT ![u] = @ \ {frame}]
        /\ work' = [work EXCEPT ![u][t] = [op |-> "open", base |-> saved[u],
                                           frame |-> frame]]
        /\ Started(u)
        /\ UNCHANGED <<saved, gen, frames, read, reread, unread, missed, cut, repeats>>

(* Mutant of Opening: an X3DH header replaces a session that exists.         *)
OpeningAnew(u, base, frame) ==
    IF frame.x3dh # Null
      THEN InitAsResponder(Secret(frame.x3dh, u), SignedPrekey(u))
      ELSE base

(* The session decryptEnvelope works on: the loaded one, or one it responds  *)
(* with if there is none and the frame says how.                             *)
Opening(u, base, frame) ==
    IF base = Null /\ frame.x3dh # Null
      THEN InitAsResponder(Secret(frame.x3dh, u), SignedPrekey(u))
      ELSE base

(* decryptEnvelope from the load on: decrypt the frame and store the state;  *)
(* if anything throws the frame is given up and nothing is stored.  (A frame *)
(* counts as read here; its message enters the history a few writes later,   *)
(* and is lost if the client dies in between.)                               *)
Open(u, t) ==
    LET frame == work[u][t].frame
        state == Opening(u, work[u][t].base, frame)
        fresh == Pair(u, gen[u] + 1)
    IN  /\ work[u][t].op = "open"
        /\ work' = [work EXCEPT ![u][t] = Idle]
        /\ IF state # Null /\ Decrypts(state, frame.m, fresh)
             THEN /\ saved' = [saved EXCEPT ![u] = Decrypting(state, frame.m, fresh)]
                  /\ gen' = [gen EXCEPT ![u] = @ + 1]
                  /\ reread' = [reread EXCEPT ![u] = @ \cup ({frame} \cap read[u])]
                  /\ read' = [read EXCEPT ![u] = @ \cup {frame}]
                  /\ UNCHANGED unread
             ELSE /\ unread' = [unread EXCEPT ![u] = @ \cup ({frame} \ read[u])]
                  /\ UNCHANGED <<saved, gen, read, reread>>
        /\ UNCHANGED <<mailbox, frames, missed, overlapped, cut, cuts, repeats>>

(* The relay pushes a frame again that it did not come to mark as delivered. *)
Repeat(u) ==
    /\ repeats < MaxRepeats
    /\ \E frame \in read[u] \cup unread[u] :
          mailbox' = [mailbox EXCEPT ![u] = @ \cup {frame}]
    /\ repeats' = repeats + 1
    /\ UNCHANGED <<saved, work, gen, frames, read, reread, unread, missed,
                   overlapped, cut, cuts>>

(* The client dies and is started again.  A frame it was handling is pushed  *)
(* again, or is lost if the relay had marked it.                             *)
Crash(u) ==
    LET doing == {work[u][t] : t \in Tasks}
        opened == {w.frame : w \in {x \in doing : x.op = "open"}}
    IN  /\ Busy(u)
        /\ cuts < MaxCuts
        /\ cuts' = cuts + 1
        /\ cut' = IF \E w \in doing : w.op = "save" THEN cut \cup {u} ELSE cut
        /\ \E marked \in SUBSET opened :
              /\ missed' = [missed EXCEPT ![u] = @ \cup marked]
              /\ mailbox' = [mailbox EXCEPT ![u] = @ \cup (opened \ marked)]
        /\ work' = [work EXCEPT ![u] = [t \in Tasks |-> Idle]]
        /\ UNCHANGED <<saved, gen, frames, read, reread, unread, overlapped, repeats>>

Next ==
    \E u \in Users :
        \/ \E t \in Tasks :
              \/ StartSend(u, t) \/ Transmit(u, t) \/ FinishSend(u, t)
              \/ FailSend(u, t) \/ Arrive(u, t) \/ Open(u, t)
        \/ Repeat(u)
        \/ Crash(u)

Spec == Init /\ [][Next]_vars

-----------------------------------------------------------------------------

(* Stored sessions can always send (ratchet.ts:130-132 never throws), every  *)
(* frame comes from the other user, and a frame that was not read and is not *)
(* on its way was given up or lost (sessionManager.ts:113-146, 294-327).     *)
TypeOK ==
    /\ \A u \in Users : saved[u] # Null =>
          /\ saved[u].send # Null
          /\ saved[u].ns \in Nat /\ saved[u].nr \in Nat /\ saved[u].pn \in Nat
    /\ \A u \in Users :
          frames[Peer(u)] = mailbox[u] \cup read[u] \cup unread[u] \cup missed[u]
                            \cup {w.frame : w \in {x \in {work[u][t] : t \in Tasks} :
                                                     x.op = "open"}}
    /\ reread \in [Users -> SUBSET UNION {read[u] : u \in Users}]
    /\ gen \in [Users -> Nat]

(* Both users opened the conversation before they had heard of the other.    *)
Crossed == \A u \in Users : \E f \in frames[u] : f.x3dh # Null

(* Whoever disturbs the lock-step of the two states.                         *)
Disturbed == overlapped \cup cut

(* The frames before f that u never got to read.                             *)
Gap(u, f) == {g \in frames[Peer(u)] : g.id < f.id /\ g \notin read[u]}

(* A frame is given up only if the two opened the conversation at once, one  *)
(* of them had overlapping operations or was cut off between the send and    *)
(* the save, a crash swallowed the opening frame, or more than MAX_SKIP      *)
(* frames before it were swallowed: in every other order of sends, pushes,   *)
(* repeats and crashes each frame is readable (sessionManager.ts:113-146,    *)
(* 294-327, ratchet.ts:141-186).                                             *)
UnreadOnlyIfDisturbed ==
    \A u \in Users : \A f \in unread[u] :
        \/ Crossed
        \/ Disturbed # {}
        \/ \E g \in missed[u] : g.x3dh # Null
        \/ Cardinality(Gap(u, f)) > MaxSkip

(* A frame that is delivered twice is decrypted twice only by a user who     *)
(* stored a stale copy of the session over the one that knew of it           *)
(* (ratchet.ts:141-159).                                                     *)
ReadOnce == \A u \in Users \ overlapped : reread[u] = {}

(* Two frames are encrypted under one message key only if their sender had   *)
(* overlapping operations or was cut off between the send and the save       *)
(* (sessionManager.ts:129-145).                                              *)
OwnKeyUnlessDisturbed ==
    \A u \in Users \ Disturbed : \A f, g \in frames[u] :
        f.m.key = g.m.key => f = g

(* What a thief of the stored state can derive: the keys in its cache, the   *)
(* rest of its two chains, and chains of Diffie-Hellman steps to come.       *)
Derivable(s, key) ==
    \/ \E e \in s.skipped : e.key = key
    \/ s.recv = key.chain /\ s.nr <= key.n
    \/ s.send = key.chain /\ s.ns <= key.n
    \/ \E i \in 1..Len(key.chain) : i = Len(s.root) + 1
                                    /\ SubSeq(key.chain, 1, i - 1) = s.root
                                    /\ s.dhs \in key.chain[i]

(* ratchet.ts:4-6: forward secrecy.  The stored state no longer yields the   *)
(* key of any frame its user read, or sent, unless it was disturbed.         *)
ForwardSecrecy ==
    \A u \in Users \ Disturbed :
        \A f \in read[u] \cup frames[u] :
            (\A t \in Tasks : work[u][t].op # "save") /\ saved[u] # Null =>
                ~ Derivable(saved[u], f.m.key)

(* README.md:48-51: "each message has its own key".                          *)
EachMessageHasItsOwnKey ==
    \A u \in Users : \A f, g \in frames[u] : f.m.key = g.m.key => f = g
=============================================================================
