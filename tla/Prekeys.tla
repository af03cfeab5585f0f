------------------------------ MODULE Prekeys ------------------------------
(***************************************************************************)
(* The life of one user's one-time prekeys: generated and kept by the      *)
(* user's client (crypto/identity.py, engine/crypto/identity.ts), stored   *)
(* on its disk (client/storage.py, engine/storage.ts), uploaded at every   *)
(* login (SessionManager.publishKeys), handed out by the relay             *)
(* (server/db.py) and consumed when a peer's X3DH init message arrives     *)
(* (engine/crypto/x3dh.ts, SessionManager.decryptEnvelope).                *)
(*                                                                         *)
(* The user's client may die at any time.  Publishing and receiving run    *)
(* side by side: the relay pushes pending mail in the same burst as the    *)
(* reply to the login.  A peer that holds a bundle sends exactly one init  *)
(* message; the relay may deliver it again after a crash of the client, or *)
(* may have marked it delivered before the crash.                          *)
(***************************************************************************)
EXTENDS Integers, FiniteSets

CONSTANTS Peers,      (* users who start a conversation with this one      *)
          NoKey,      (* a bundle without one-time prekey                  *)
          Target,     (* ONE_TIME_PREKEY_TARGET                            *)
          MaxLogins   (* bound: logins of the user                         *)

ASSUME PrekeysAssumption ==
    /\ Target \in Nat
    /\ MaxLogins \in Nat
    /\ NoKey \notin Nat

VARIABLES
    made,     (* keys generated so far; their ids are 1..made                *)
    disk,     (* keys in the persisted keystore                              *)
    local,    (* keys in the keystore of the running client                  *)
    pub,      (* where publishKeys is: "off" when no client runs             *)
    logins,   (* logins so far, the batch number of an upload                *)
    frame,    (* batch and keys of the upload_keys request on its way        *)
    rows,     (* <<batch, key>> of the relay's rows with used = 0            *)
    listed,   (* the relay has this user's identity and signed prekey        *)
    stage,    (* peer -> how far its init message has come                   *)
    key,      (* peer -> the one-time prekey of its bundle                   *)
    cut       (* peers the handling of whose init message a crash cut short  *)

vars == <<made, disk, local, pub, logins, frame, rows, listed, stage, key, cut>>

Ids == 1..made
NoFrame == [batch |-> 0, keys |-> {}]

-----------------------------------------------------------------------------

(* generate_keystore at account creation.                                    *)
Init ==
    /\ made = Target
    /\ disk = 1..Target
    /\ local = {}
    /\ pub = "off"
    /\ logins = 0
    /\ frame = NoFrame
    /\ rows = {}
    /\ listed = FALSE
    /\ stage = [p \in Peers |-> "none"]
    /\ key = [p \in Peers |-> NoKey]
    /\ cut = {}

(* A login unlocks the keystore and goes on to publishKeys.                  *)
Login ==
    /\ pub = "off"
    /\ logins < MaxLogins
    /\ logins' = logins + 1
    /\ local' = disk
    /\ pub' = "topup"
    /\ UNCHANGED <<made, disk, frame, rows, listed, stage, key, cut>>

(* Mutants of TopUp: one key too many, the new keys instead of the old ones, *)
(* and the keystore not saved before the upload.                             *)
TopUpOneMore ==
    /\ pub = "topup"
    /\ made' = made + (Target - Cardinality(local))
    /\ local' = local \cup (made + 1)..(made' + 1)
    /\ pub' = "save"
    /\ UNCHANGED <<disk, logins, frame, rows, listed, stage, key, cut>>

TopUpReplaces ==
    LET needed == Target - Cardinality(local)
    IN  /\ pub = "topup"
        /\ IF needed <= 0
             THEN /\ pub' = "upload"
                  /\ UNCHANGED <<made, local>>
             ELSE /\ made' = made + needed
                  /\ local' = (made + 1)..(made + needed)
                  /\ pub' = "save"
        /\ UNCHANGED <<disk, logins, frame, rows, listed, stage, key, cut>>

TopUpUnsaved ==
    LET needed == Target - Cardinality(local)
    IN  /\ pub = "topup"
        /\ made' = made + needed
        /\ local' = local \cup (made + 1)..(made + needed)
        /\ pub' = "upload"
        /\ UNCHANGED <<disk, logins, frame, rows, listed, stage, key, cut>>

(* topUpOneTimePrekeys: new keys only if the pool is below its target; the   *)
(* keystore is saved only if there are new keys.                             *)
TopUp ==
    LET needed == Target - Cardinality(local)
    IN  /\ pub = "topup"
        /\ IF needed <= 0
             THEN /\ pub' = "upload"
                  /\ UNCHANGED <<made, local>>
             ELSE /\ made' = made + needed
                  /\ local' = local \cup (made + 1)..(made + needed)
                  /\ pub' = "save"
        /\ UNCHANGED <<disk, logins, frame, rows, listed, stage, key, cut>>

SaveTopUp ==
    /\ pub = "save"
    /\ disk' = local
    /\ pub' = "upload"
    /\ UNCHANGED <<made, local, logins, frame, rows, listed, stage, key, cut>>

(* uploadKeys sends every key the keystore holds, new or not.                *)
Upload ==
    /\ pub = "upload"
    /\ frame' = [batch |-> logins, keys |-> local]
    /\ pub' = "done"
    /\ UNCHANGED <<made, disk, local, logins, rows, listed, stage, key, cut>>

(* _handle_upload_keys: one new unused row per uploaded key.                 *)
StoreKeys ==
    /\ frame # NoFrame
    /\ rows' = rows \cup ({frame.batch} \X frame.keys)
    /\ listed' = TRUE
    /\ frame' = NoFrame
    /\ UNCHANGED <<made, disk, local, pub, logins, stage, key, cut>>

(* The connection is lost with the request on its way.                       *)
LoseFrame ==
    /\ frame # NoFrame
    /\ frame' = NoFrame
    /\ UNCHANGED <<made, disk, local, pub, logins, rows, listed, stage, key, cut>>

(* get_prekey_bundle: any one unused row is marked used (LIMIT 1, no order); *)
(* with none left the bundle has no one-time prekey.  The peer runs initiate *)
(* and sends its first message.                                              *)
FetchBundle(p) ==
    /\ listed
    /\ stage[p] = "none"
    /\ stage' = [stage EXCEPT ![p] = "sent"]
    /\ IF rows = {}
         THEN UNCHANGED <<rows, key>>
         ELSE \E row \in rows : /\ rows' = rows \ {row}
                                /\ key' = [key EXCEPT ![p] = row[2]]
    /\ UNCHANGED <<made, disk, local, pub, logins, frame, listed, cut>>

(* respond: the key named by the header has to be in the keystore and leaves *)
(* it; without it the message is given up.                                   *)
Respond(p) ==
    /\ pub # "off"
    /\ stage[p] = "sent"
    /\ IF key[p] \in local \cup {NoKey}
         THEN /\ local' = local \ {key[p]}
              /\ stage' = [stage EXCEPT ![p] = "agreed"]
         ELSE /\ stage' = [stage EXCEPT ![p] = "rejected"]
              /\ UNCHANGED local
    /\ UNCHANGED <<made, disk, pub, logins, frame, rows, listed, key, cut>>

(* Mutant of SaveKeystore: the consumption of the key is not persisted.      *)
ForgetKeystore(p) ==
    /\ stage[p] = "agreed"
    /\ stage' = [stage EXCEPT ![p] = "saved"]
    /\ UNCHANGED <<made, disk, local, pub, logins, frame, rows, listed, key, cut>>

(* decryptEnvelope persists the keystore before it decrypts ...              *)
SaveKeystore(p) ==
    /\ stage[p] = "agreed"
    /\ disk' = local
    /\ stage' = [stage EXCEPT ![p] = "saved"]
    /\ UNCHANGED <<made, local, pub, logins, frame, rows, listed, key, cut>>

(* ... and the session after.                                                *)
SaveSession(p) ==
    /\ stage[p] = "saved"
    /\ stage' = [stage EXCEPT ![p] = "session"]
    /\ UNCHANGED <<made, disk, local, pub, logins, frame, rows, listed, key, cut>>

(* The client dies or is closed: what it had in hand is delivered again, or, *)
(* if the relay had marked it, never.                                        *)
Crash ==
    LET open == {p \in Peers : stage[p] \in {"agreed", "saved"}}
    IN  /\ pub # "off"
        /\ pub' = "off"
        /\ local' = {}
        /\ \E again \in SUBSET open :
             stage' = [p \in Peers |-> IF p \in again THEN "sent"
                                       ELSE IF p \in open THEN "lost"
                                       ELSE stage[p]]
        /\ cut' = cut \cup open
        /\ UNCHANGED <<made, disk, logins, frame, rows, listed, key>>

Next ==
    \/ Login \/ TopUp \/ SaveTopUp \/ Upload \/ StoreKeys \/ LoseFrame \/ Crash
    \/ \E p \in Peers :
          FetchBundle(p) \/ Respond(p) \/ SaveKeystore(p) \/ SaveSession(p)

Spec == Init /\ [][Next]_vars

-----------------------------------------------------------------------------

(* Keys in keystores, in requests, in rows and in bundles are keys that were *)
(* generated (identity.ts:62-70, db.py:120-164).                             *)
TypeOK ==
    /\ made \in Nat
    /\ disk \subseteq Ids
    /\ local \subseteq Ids
    /\ pub \in {"off", "topup", "save", "upload", "done"}
    /\ logins \in Nat
    /\ frame \in [batch : Nat, keys : SUBSET Ids]
    /\ rows \subseteq Nat \X Ids
    /\ listed \in BOOLEAN
    /\ stage \in [Peers -> {"none", "sent", "agreed", "saved", "session",
                            "rejected", "lost"}]
    /\ key \in [Peers -> Ids \cup {NoKey}]
    /\ cut \subseteq Peers

Handed == {key[p] : p \in Peers}

(* A key the relay has, or is about to have, on offer and that nobody was    *)
(* given yet is on the user's disk: whenever the client dies, the first peer *)
(* to be given a key can be answered after the next login                    *)
(* (sessionManager.ts:93-98 saves before it uploads).                        *)
OfferedKeysAreKept ==
    (frame.keys \cup {row[2] : row \in rows}) \ Handed \subseteq disk

(* The key of an established session is gone from the disk, so no other      *)
(* session can ever rest on it, although the relay may hand it out again     *)
(* (sessionManager.ts:309-311 "persist that so it can't be reused").         *)
SessionKeysAreGone ==
    \A p \in Peers : stage[p] = "session" /\ key[p] # NoKey =>
        /\ key[p] \notin disk \cup local
        /\ \A q \in Peers \ {p} : stage[q] = "session" => key[q] # key[p]

(* An init message is given up only if its key was handed to another peer    *)
(* too, or if a crash cut its own handling short after the keystore without  *)
(* the key had been saved (x3dh.ts:110-113, sessionManager.ts:299-312).      *)
RejectedOnlyWhenShared ==
    \A p \in Peers : stage[p] = "rejected" =>
        \/ p \in cut
        \/ \E q \in Peers \ {p} : key[q] = key[p]

(* identity.ts:7-8: "a batch of single-use X25519 keys, consumed by the      *)
(* server on first use by a peer".  No key is handed to two peers.           *)
HandedOutOnce ==
    \A p, q \in Peers : p # q /\ key[p] = key[q] => key[p] = NoKey
=============================================================================
