--------------------------- MODULE PrekeysProofs ---------------------------
(***************************************************************************)
(* Theorems about Prekeys, for every set of peers, every pool size and     *)
(* every number of logins.                                                 *)
(***************************************************************************)
EXTENDS Prekeys, FiniteSetTheorems, TLAPS

Taken == {"agreed", "saved", "session"}

(* Who has which key: nobody before the fetch, and somebody whose message    *)
(* was given up always names one; handling goes on only while a client runs. *)
StagesOK ==
    \A p \in Peers :
        /\ stage[p] = "none" => key[p] = NoKey
        /\ stage[p] = "rejected" => key[p] # NoKey
        /\ stage[p] \in {"agreed", "saved"} => pub # "off"

(* The running keystore and the saved one: only new keys may be missing on   *)
(* the disk, and only before they are saved; only keys whose removal is      *)
(* about to be saved may be left on it.                                      *)
KeystoresAgree ==
    /\ pub # "save" => local \subseteq disk
    /\ pub # "off" => \A k \in disk \ local :
                        \E q \in Peers : stage[q] = "agreed" /\ key[q] = k

(* A key in use by one init message or session is in nobody else's reach.    *)
TakenKeysAreGone ==
    \A p \in Peers : stage[p] \in Taken /\ key[p] # NoKey =>
        /\ key[p] \notin local
        /\ stage[p] # "agreed" => key[p] \notin disk
        /\ \A q \in Peers \ {p} : stage[q] \in Taken => key[q] # key[p]

(* A key that was handed out and is no longer on the disk was taken by       *)
(* somebody, or lost with a crash that cut somebody's handling short.        *)
HandedAccounted ==
    \A p \in Peers : key[p] \in disk \cup {NoKey} \/
        \E q \in Peers : key[q] = key[p] /\ (stage[q] \in Taken \/ q \in cut)

IInv ==
    /\ TypeOK
    /\ StagesOK
    /\ KeystoresAgree
    /\ TakenKeysAreGone
    /\ HandedAccounted
    /\ OfferedKeysAreKept
    /\ RejectedOnlyWhenShared

-----------------------------------------------------------------------------

LEMMA InitIInv == Init => IInv
<1> SUFFICES ASSUME Init
             PROVE  IInv
  OBVIOUS
<1> USE PrekeysAssumption DEF Init
<1>1. TypeOK
  BY DEF TypeOK, Ids, NoFrame
<1>2. OfferedKeysAreKept
  BY DEF OfferedKeysAreKept, NoFrame
<1>3. StagesOK /\ KeystoresAgree /\ TakenKeysAreGone
  BY DEF StagesOK, KeystoresAgree, TakenKeysAreGone, Taken
<1>4. HandedAccounted /\ RejectedOnlyWhenShared
  BY DEF HandedAccounted, RejectedOnlyWhenShared
<1> QED
  BY <1>1, <1>2, <1>3, <1>4 DEF IInv

(* The number of keys to generate is a natural number when it is positive.   *)
LEMMA NeededType ==
    ASSUME TypeOK
    PROVE  Target - Cardinality(local) \in Int
<1>1. IsFiniteSet(1..made)
  BY FS_Interval DEF TypeOK
<1>2. IsFiniteSet(local)
  BY <1>1, FS_Subset DEF TypeOK, Ids
<1>3. Cardinality(local) \in Nat
  BY <1>2, FS_CardinalityType
<1> QED
  BY <1>3, PrekeysAssumption

LEMMA StepIInv == IInv /\ [Next]_vars => IInv'
<1> SUFFICES ASSUME IInv, [Next]_vars
             PROVE  IInv'
  OBVIOUS
<1> USE PrekeysAssumption
<1>1. CASE Login
  <2>1. TypeOK'
    BY <1>1 DEF IInv, Login, TypeOK, Ids, NoFrame
  <2>2. StagesOK'
    BY <1>1 DEF IInv, Login, TypeOK, StagesOK
  <2>3. KeystoresAgree'
    BY <1>1 DEF IInv, Login, TypeOK, KeystoresAgree
  <2>4. TakenKeysAreGone'
    BY <1>1 DEF IInv, Login, TypeOK, TakenKeysAreGone, Taken, StagesOK
  <2>5. HandedAccounted'
    BY <1>1 DEF IInv, Login, TypeOK, HandedAccounted, Taken
  <2>6. OfferedKeysAreKept'
    BY <1>1 DEF IInv, Login, TypeOK, OfferedKeysAreKept, Handed, NoFrame
  <2>7. RejectedOnlyWhenShared'
    BY <1>1 DEF IInv, Login, TypeOK, RejectedOnlyWhenShared
  <2> QED
    BY <2>1, <2>2, <2>3, <2>4, <2>5, <2>6, <2>7 DEF IInv
<1>2. CASE SaveTopUp
  <2>1. TypeOK'
    BY <1>2 DEF IInv, SaveTopUp, TypeOK, Ids, NoFrame
  <2>2. StagesOK'
    BY <1>2 DEF IInv, SaveTopUp, TypeOK, StagesOK
  <2>3. KeystoresAgree'
    BY <1>2 DEF IInv, SaveTopUp, TypeOK, KeystoresAgree
  <2>4. TakenKeysAreGone'
    BY <1>2 DEF IInv, SaveTopUp, TypeOK, TakenKeysAreGone, Taken
  <2>5. HandedAccounted'
    BY <1>2 DEF IInv, SaveTopUp, TypeOK, HandedAccounted, Taken,
      KeystoresAgree
  <2>6. OfferedKeysAreKept'
    BY <1>2 DEF IInv, SaveTopUp, TypeOK, OfferedKeysAreKept, Handed, NoFrame,
      KeystoresAgree
  <2>7. RejectedOnlyWhenShared'
    BY <1>2 DEF IInv, SaveTopUp, TypeOK, RejectedOnlyWhenShared
  <2> QED
    BY <2>1, <2>2, <2>3, <2>4, <2>5, <2>6, <2>7 DEF IInv
<1>3. CASE Upload
  <2>1. TypeOK'
    BY <1>3 DEF IInv, Upload, TypeOK, Ids, NoFrame
  <2>2. StagesOK'
    BY <1>3 DEF IInv, Upload, TypeOK, StagesOK
  <2>3. KeystoresAgree'
    BY <1>3 DEF IInv, Upload, TypeOK, KeystoresAgree
  <2>4. TakenKeysAreGone'
    BY <1>3 DEF IInv, Upload, TypeOK, TakenKeysAreGone, Taken
  <2>5. HandedAccounted'
    BY <1>3 DEF IInv, Upload, TypeOK, HandedAccounted, Taken
  <2>6. OfferedKeysAreKept'
    BY <1>3 DEF IInv, Upload, TypeOK, OfferedKeysAreKept, Handed, NoFrame,
      KeystoresAgree
  <2>7. RejectedOnlyWhenShared'
    BY <1>3 DEF IInv, Upload, TypeOK, RejectedOnlyWhenShared
  <2> QED
    BY <2>1, <2>2, <2>3, <2>4, <2>5, <2>6, <2>7 DEF IInv
<1>4. CASE StoreKeys
  <2>1. TypeOK'
    BY <1>4 DEF IInv, StoreKeys, TypeOK, Ids, NoFrame
  <2>2. StagesOK'
    BY <1>4 DEF IInv, StoreKeys, TypeOK, StagesOK
  <2>3. KeystoresAgree'
    BY <1>4 DEF IInv, StoreKeys, TypeOK, KeystoresAgree
  <2>4. TakenKeysAreGone'
    BY <1>4 DEF IInv, StoreKeys, TypeOK, TakenKeysAreGone, Taken
  <2>5. HandedAccounted'
    BY <1>4 DEF IInv, StoreKeys, TypeOK, HandedAccounted, Taken
  <2>6. OfferedKeysAreKept'
    BY <1>4 DEF IInv, StoreKeys, TypeOK, OfferedKeysAreKept, Handed, NoFrame
  <2>7. RejectedOnlyWhenShared'
    BY <1>4 DEF IInv, StoreKeys, TypeOK, RejectedOnlyWhenShared
  <2> QED
    BY <2>1, <2>2, <2>3, <2>4, <2>5, <2>6, <2>7 DEF IInv
<1>5. CASE LoseFrame
  <2>1. TypeOK'
    BY <1>5 DEF IInv, LoseFrame, TypeOK, Ids, NoFrame
  <2>2. StagesOK'
    BY <1>5 DEF IInv, LoseFrame, TypeOK, StagesOK
  <2>3. KeystoresAgree'
    BY <1>5 DEF IInv, LoseFrame, TypeOK, KeystoresAgree
  <2>4. TakenKeysAreGone'
    BY <1>5 DEF IInv, LoseFrame, TypeOK, TakenKeysAreGone, Taken
  <2>5. HandedAccounted'
    BY <1>5 DEF IInv, LoseFrame, TypeOK, HandedAccounted, Taken
  <2>6. OfferedKeysAreKept'
    BY <1>5 DEF IInv, LoseFrame, TypeOK, OfferedKeysAreKept, Handed, NoFrame
  <2>7. RejectedOnlyWhenShared'
    BY <1>5 DEF IInv, LoseFrame, TypeOK, RejectedOnlyWhenShared
  <2> QED
    BY <2>1, <2>2, <2>3, <2>4, <2>5, <2>6, <2>7 DEF IInv
<1>6. CASE Crash
  <2>1. TypeOK'
    BY <1>6 DEF IInv, Crash, TypeOK, Ids, NoFrame
  <2>2. StagesOK'
    BY <1>6 DEF IInv, Crash, TypeOK, StagesOK
  <2>3. KeystoresAgree'
    BY <1>6 DEF IInv, Crash, TypeOK, KeystoresAgree
  <2>4. TakenKeysAreGone'
    BY <1>6 DEF IInv, Crash, TypeOK, TakenKeysAreGone, Taken
  <2>5. HandedAccounted'
    BY <1>6 DEF IInv, Crash, TypeOK, HandedAccounted, Taken
  <2>6. OfferedKeysAreKept'
    BY <1>6 DEF IInv, Crash, TypeOK, OfferedKeysAreKept, Handed, NoFrame
  <2>7. RejectedOnlyWhenShared'
    BY <1>6 DEF IInv, Crash, TypeOK, RejectedOnlyWhenShared
  <2> QED
    BY <2>1, <2>2, <2>3, <2>4, <2>5, <2>6, <2>7 DEF IInv
<1>7. ASSUME NEW p \in Peers, FetchBundle(p)
      PROVE  IInv'
  <2>1. TypeOK'
    BY <1>7 DEF IInv, FetchBundle, TypeOK, Ids, NoFrame
  <2>2. StagesOK'
    BY <1>7 DEF IInv, FetchBundle, TypeOK, StagesOK
  <2>3. KeystoresAgree'
    BY <1>7 DEF IInv, FetchBundle, TypeOK, KeystoresAgree
  <2>4. TakenKeysAreGone'
    BY <1>7 DEF IInv, FetchBundle, TypeOK, TakenKeysAreGone, Taken
  <2>5. HandedAccounted'
    BY <1>7 DEF IInv, FetchBundle, TypeOK, HandedAccounted, Taken,
      OfferedKeysAreKept, StagesOK, Handed
  <2>6. OfferedKeysAreKept'
    BY <1>7 DEF IInv, FetchBundle, TypeOK, OfferedKeysAreKept, Handed,
      NoFrame, StagesOK, Ids
  <2>7. RejectedOnlyWhenShared'
    BY <1>7 DEF IInv, FetchBundle, TypeOK, RejectedOnlyWhenShared, StagesOK
  <2> QED
    BY <2>1, <2>2, <2>3, <2>4, <2>5, <2>6, <2>7 DEF IInv
<1>8. ASSUME NEW p \in Peers, Respond(p)
      PROVE  IInv'
  <2>1. TypeOK'
    BY <1>8 DEF IInv, Respond, TypeOK, Ids, NoFrame
  <2>2. StagesOK'
    BY <1>8 DEF IInv, Respond, TypeOK, StagesOK
  <2>3. KeystoresAgree'
    BY <1>8 DEF IInv, Respond, TypeOK, KeystoresAgree
  <2>4. TakenKeysAreGone'
    BY <1>8 DEF IInv, Respond, TypeOK, TakenKeysAreGone, Taken
  <2>5. HandedAccounted'
    BY <1>8 DEF IInv, Respond, TypeOK, HandedAccounted, Taken
  <2>6. OfferedKeysAreKept'
    BY <1>8 DEF IInv, Respond, TypeOK, OfferedKeysAreKept, Handed, NoFrame
  <2>7. RejectedOnlyWhenShared'
    BY <1>8 DEF IInv, Respond, TypeOK, RejectedOnlyWhenShared, KeystoresAgree,
      HandedAccounted, Taken
  <2> QED
    BY <2>1, <2>2, <2>3, <2>4, <2>5, <2>6, <2>7 DEF IInv
<1>9. ASSUME NEW p \in Peers, SaveKeystore(p)
      PROVE  IInv'
  <2>1. TypeOK'
    BY <1>9 DEF IInv, SaveKeystore, TypeOK, Ids, NoFrame
  <2>2. StagesOK'
    BY <1>9 DEF IInv, SaveKeystore, TypeOK, StagesOK
  <2>3. KeystoresAgree'
    BY <1>9 DEF IInv, SaveKeystore, TypeOK, KeystoresAgree
  <2>4. TakenKeysAreGone'
    BY <1>9 DEF IInv, SaveKeystore, TypeOK, TakenKeysAreGone, Taken
  <2>5. HandedAccounted'
    BY <1>9 DEF IInv, SaveKeystore, TypeOK, HandedAccounted, Taken,
      KeystoresAgree, StagesOK
  <2>6. OfferedKeysAreKept'
    BY <1>9 DEF IInv, SaveKeystore, TypeOK, OfferedKeysAreKept, Handed,
      NoFrame, KeystoresAgree, StagesOK
  <2>7. RejectedOnlyWhenShared'
    BY <1>9 DEF IInv, SaveKeystore, TypeOK, RejectedOnlyWhenShared
  <2> QED
    BY <2>1, <2>2, <2>3, <2>4, <2>5, <2>6, <2>7 DEF IInv
<1>10. ASSUME NEW p \in Peers, SaveSession(p)
      PROVE  IInv'
  <2>1. TypeOK'
    BY <1>10 DEF IInv, SaveSession, TypeOK, Ids, NoFrame
  <2>2. StagesOK'
    BY <1>10 DEF IInv, SaveSession, TypeOK, StagesOK
  <2>3. KeystoresAgree'
    BY <1>10 DEF IInv, SaveSession, TypeOK, KeystoresAgree
  <2>4. TakenKeysAreGone'
    BY <1>10 DEF IInv, SaveSession, TypeOK, TakenKeysAreGone, Taken
  <2>5. HandedAccounted'
    BY <1>10 DEF IInv, SaveSession, TypeOK, HandedAccounted, Taken
  <2>6. OfferedKeysAreKept'
    BY <1>10 DEF IInv, SaveSession, TypeOK, OfferedKeysAreKept, Handed,
      NoFrame
  <2>7. RejectedOnlyWhenShared'
    BY <1>10 DEF IInv, SaveSession, TypeOK, RejectedOnlyWhenShared
  <2> QED
    BY <2>1, <2>2, <2>3, <2>4, <2>5, <2>6, <2>7 DEF IInv
<1>11. CASE TopUp
  <2> DEFINE needed == Target - Cardinality(local)
  <2>1. needed \in Int
    BY NeededType DEF IInv
  <2> HIDE DEF needed
  <2>2. CASE needed <= 0
    <3>1. UNCHANGED <<made, disk, local, logins, frame, rows, listed, stage, key, cut>>
          /\ pub = "topup" /\ pub' = "upload"
      BY <1>11, <2>2 DEF TopUp, needed
    <3> QED
      BY <3>1 DEF IInv, TypeOK, StagesOK, KeystoresAgree, TakenKeysAreGone, HandedAccounted,
         OfferedKeysAreKept, RejectedOnlyWhenShared, Ids, Handed, Taken
  <2>3. CASE ~(needed <= 0)
    <3>1. /\ pub = "topup" /\ pub' = "save"
          /\ made' = made + needed
          /\ local' = local \cup (made + 1)..(made + needed)
          /\ UNCHANGED <<disk, logins, frame, rows, listed, stage, key, cut>>
      BY <1>11, <2>3 DEF TopUp, needed
    <3>2. needed \in Nat /\ made \in Nat
      BY <2>1, <2>3 DEF IInv, TypeOK
    <3>3. Ids \subseteq Ids' /\ made' \in Nat
      BY <3>1, <3>2 DEF Ids
    <3>4. \A k \in local' \ local : k \in Ids' \ Ids
      BY <3>1, <3>2 DEF Ids
    <3>5. TypeOK'
      <4>1. disk' \subseteq Ids' /\ local' \subseteq Ids'
        BY <3>1, <3>3, <3>4 DEF IInv, TypeOK
      <4>2. frame' \in [batch : Nat, keys : SUBSET Ids']
        BY <3>1, <3>3 DEF IInv, TypeOK
      <4>3. rows' \subseteq Nat \X Ids'
        BY <3>1, <3>3 DEF IInv, TypeOK
      <4>4. key' \in [Peers -> Ids' \cup {NoKey}]
        BY <3>1, <3>3 DEF IInv, TypeOK
      <4> QED
        BY <3>1, <3>3, <4>1, <4>2, <4>3, <4>4 DEF IInv, TypeOK
    <3>6. StagesOK'
      BY <3>1 DEF IInv, StagesOK
    <3>7. KeystoresAgree'
      BY <3>1 DEF IInv, KeystoresAgree
    <3>8. TakenKeysAreGone'
      <4>1. \A q \in Peers : key[q] \in Ids \cup {NoKey}
        BY DEF IInv, TypeOK
      <4> QED
        BY <3>1, <3>4, <4>1 DEF IInv, TakenKeysAreGone
    <3>9. HandedAccounted' /\ OfferedKeysAreKept' /\ RejectedOnlyWhenShared'
      BY <3>1 DEF IInv, HandedAccounted, OfferedKeysAreKept, RejectedOnlyWhenShared, Handed
    <3> QED
      BY <3>5, <3>6, <3>7, <3>8, <3>9 DEF IInv
  <2> QED
    BY <2>2, <2>3
<1>12. CASE UNCHANGED vars
  BY <1>12 DEF vars, IInv, TypeOK, StagesOK, KeystoresAgree, TakenKeysAreGone,
     HandedAccounted, OfferedKeysAreKept, RejectedOnlyWhenShared, Ids, Handed
<1> QED
  BY <1>1, <1>2, <1>3, <1>4, <1>5, <1>6, <1>7, <1>8, <1>9, <1>10, <1>11, <1>12 DEF Next

LEMMA InvIInv == Spec => []IInv
BY InitIInv, StepIInv, PTL DEF Spec

-----------------------------------------------------------------------------

(* Keystores, requests, rows and bundles hold generated keys only.           *)
THEOREM PrekeysTypeCorrect == Spec => []TypeOK
<1>1. IInv => TypeOK
  BY DEF IInv
<1> QED
  BY <1>1, InvIInv, PTL

(* Whenever the client dies, a key on offer at the relay that nobody was     *)
(* given yet can still be answered after the next login.                     *)
THEOREM PrekeysOfferedKeysAreKept == Spec => []OfferedKeysAreKept
<1>1. IInv => OfferedKeysAreKept
  BY DEF IInv
<1> QED
  BY <1>1, InvIInv, PTL

(* No two sessions ever rest on the same one-time prekey.                    *)
THEOREM PrekeysSessionKeysAreGone == Spec => []SessionKeysAreGone
<1>1. IInv => SessionKeysAreGone
  BY DEF IInv, TakenKeysAreGone, SessionKeysAreGone, Taken
<1> QED
  BY <1>1, InvIInv, PTL

(* A first message is given up only if its key went to somebody else too or  *)
(* a crash cut its handling short.                                           *)
THEOREM PrekeysRejectedOnlyWhenShared == Spec => []RejectedOnlyWhenShared
<1>1. IInv => RejectedOnlyWhenShared
  BY DEF IInv
<1> QED
  BY <1>1, InvIInv, PTL
=============================================================================
