---------------------------- MODULE VaultProofs ----------------------------
(***************************************************************************)
(* Theorems about Vault, for every set of passwords and of tasks and every *)
(* number of flows and faults.                                             *)
(*                                                                         *)
(* The invariant follows the store through the flows that write it.  A     *)
(* writer has the last rows of its list left to put (WritersOK); as long   *)
(* as one identity was generated, the keystore is the last of its rows     *)
(* that is put, and no flow goes online before (StoreOK).  Flows that do   *)
(* not overlap are alone, so what a flow has read or established is still  *)
(* true at its next step (OneAtATime, FlowOK), and what the registration   *)
(* left is true until its phrase is acknowledged (ShownOK).                *)
(***************************************************************************)
EXTENDS Vault, SequenceTheorems, TLAPS

Boxes == [pw : Passwords \cup {Null}, salt : Nat, id : Nat]

Puts == ({"salt", "recovery", "token", "keystore"} \X Nat) \cup ({"wrapped"} \X Boxes)

Flow == [op : {"register", "login", "biometric", "recover"},
         step : {"check", "create", "salt", "unwrap", "phrase", "write", "connect",
                 "enrol", "login", "publish"},
         pw : Passwords, id : Nat, salt : Nat, writes : Seq(Puts), waited : BOOLEAN]

Disk == [db : BOOLEAN, salt : Nat, wrapped : Boxes, recovery : Nat, token : Nat,
         keystore : Nat]

Screen == [screen : {"login", "main"}, form : {"manual", "prompt", "recovery"},
           busy : BOOLEAN, rbusy : Tasks \cup {Null}, field : Passwords \cup {Null},
           pending : Nat]

Past == [current : Passwords \cup {Null}, shown : SUBSET Nat, recovered : BOOLEAN,
         edited : BOOLEAN, cut : BOOLEAN, stopped : BOOLEAN, overlapped : BOOLEAN]

(* The values of all variables.                                              *)
Typed ==
    /\ disk \in Disk
    /\ account \in Nat
    /\ job \in [Tasks -> Flow \cup {Idle}]
    /\ session \in [by : Tasks \cup {Null}, in : BOOLEAN]
    /\ ui \in Screen
    /\ keychain \in Passwords \cup {Null}
    /\ gen \in [ids : Nat, salts : Nat]
    /\ past \in Past
    /\ flows \in 0..MaxFlows
    /\ faults \in Nat

(* The steps of a flow by which its identity is complete on the disk.        *)
Online == {"connect", "enrol", "login", "publish"}

(* Numbers in use were generated; a flow only has steps of its kind.         *)
JobsOK ==
    /\ \A t \in Tasks : job[t] # Idle =>
          /\ flows > 0
          /\ job[t].id \in 0..gen.ids
          /\ job[t].step \in Online \cup {"write"} => job[t].id # 0
          /\ job[t].step = "check" => job[t].op \in {"register", "login"}
          /\ job[t].step \in {"create", "enrol"} => job[t].op = "register"
          /\ job[t].step = "unwrap" => job[t].op \in {"login", "biometric"}
          /\ job[t].step = "salt" => job[t].op \in {"login", "biometric"}
          /\ job[t].step = "phrase" => job[t].op = "recover"
          /\ job[t].step = "write" => job[t].op \in {"register", "recover"}
          /\ job[t].op = "register" /\ ~job[t].waited => past.stopped
    /\ gen.ids > 0 => disk.db /\ flows > 0

(* A flow that writes has the last rows of its list left to put, and those   *)
(* before them were put for an identity and a salt that were generated.      *)
Left(rest, list, n) ==
    /\ Len(rest) = Len(list) + 1 - n
    /\ \A i \in 1..Len(rest) : rest[i] = list[n + i - 1]

CreateLeft(t, s, n) ==
    Left(job[t].writes, CreateWrites(job[t].pw, s, job[t].id), n)
RotateLeft(t, s, n) ==
    Left(job[t].writes, RotateWrites(job[t].pw, s, job[t].id), n)

Writer(t) ==
    /\ job[t].op = "register" =>
          \E s \in 1..gen.salts, n \in 1..5 :
              /\ CreateLeft(t, s, n)
              /\ gen.ids = 1 => /\ disk.keystore = 0
                                /\ n > 2 => disk.wrapped.id = 1
                                /\ n > 3 => disk.recovery = 1
                                /\ n > 4 => disk.token = 1
              /\ ~past.overlapped =>
                    /\ n > 1 => disk.salt = s
                    /\ n > 2 => disk.wrapped = Wrapped(job[t].pw, s, job[t].id)
    /\ job[t].op = "recover" =>
          \E s \in 1..gen.salts, n \in 1..2 :
              /\ RotateLeft(t, s, n)
              /\ ~past.overlapped => (n > 1 => disk.salt = s)

WritersOK == \A t \in Tasks : job[t].step = "write" => Writer(t)

(* Registrations generate an identity each.                                  *)
CreatorsDiffer ==
    \A t, u \in Tasks :
        /\ job[t].step = "write" /\ job[t].op = "register"
        /\ job[u].step = "write" /\ job[u].op = "register"
        /\ job[t].id = job[u].id
        => t = u

Complete(id) ==
    /\ disk.keystore = id /\ disk.recovery = id /\ disk.token = id
    /\ disk.wrapped.id = id

(* As long as there is no identity nothing is stored.  As long as there is   *)
(* one, its keystore is stored last, and no flow goes online before.         *)
StoreOK ==
    /\ gen.ids = 0 =>
          /\ disk.salt = 0 /\ disk.wrapped = Wrapped(Null, 0, 0)
          /\ disk.recovery = 0 /\ disk.token = 0 /\ disk.keystore = 0
          /\ account \in {0, Foreign}
          /\ \A t \in Tasks : job[t].step \notin Online \cup {"write"}
    /\ gen.ids = 1 =>
          /\ disk.keystore # 0 => Complete(1)
          /\ account = 1 => Complete(1)
          /\ \A t \in Tasks :
                \/ job[t].step \in Online
                \/ job[t].step = "write" /\ job[t].op = "recover"
                => Complete(1)

(* Flows that do not overlap follow each other, and there is one identity.   *)
OneAtATime ==
    ~past.overlapped =>
        /\ \A t, u \in Tasks : job[t] # Idle /\ job[u] # Idle => t = u
        /\ ui.pending # 0 \/ ui.screen = "main" => Running = {}
        /\ gen.ids <= 1
        /\ \A t \in Tasks : job[t].step = "create" => gen.ids = 0

(* What the flow in hand knows of the store and the session.                 *)
FlowOK ==
    ~past.overlapped => \A t \in Tasks :
        /\ job[t].step = "unwrap" => job[t].salt = disk.salt
        /\ job[t].step \in Online => Opens(job[t].pw, disk.salt)
        /\ job[t].step \in {"enrol", "login", "publish"} => session.by = t
        /\ job[t].step = "publish" => session.in /\ account = job[t].id
        /\ job[t].op = "register" /\ ~past.edited /\ job[t].waited =>
              ui.field = job[t].pw

(* What a registration leaves when its phrase is displayed.                  *)
ShownOK ==
    ~past.overlapped =>
        /\ ui.pending # 0 =>
              /\ session.in /\ account = disk.keystore /\ account # 0
              /\ ~past.edited => Opens(ui.field, disk.salt)
        /\ disk.keystore # 0 /\ ~past.stopped =>
              \/ disk.keystore \in past.shown
              \/ \E t \in Tasks : job[t].op = "register"

IInv ==
    /\ Typed
    /\ TypeOK
    /\ JobsOK
    /\ WritersOK
    /\ CreatorsDiffer
    /\ StoreOK
    /\ OneAtATime
    /\ FlowOK
    /\ ShownOK
    /\ PasswordUnlocks
    /\ MainIsLoggedIn
    /\ RememberedUnlocks

-----------------------------------------------------------------------------

LEMMA InFlow ==
    ASSUME Typed, NEW t \in Tasks, job[t].step # "none"
    PROVE  job[t] \in Flow /\ job[t] # Idle
BY DEF Typed, Flow, Idle

(* A step that is not one of theirs leaves writers where they are.           *)
LEMMA WritersFrame ==
    ASSUME Typed, Typed', WritersOK,
           \A u \in Tasks : job'[u].step = "write" =>
                 \/ job'[u] = job[u] \/ job'[u] = [job[u] EXCEPT !.waited = FALSE]
                 \/ Writer(u)',
           disk' = disk \/ disk' = [disk EXCEPT !.db = TRUE],
           gen'.salts >= gen.salts,
           gen'.ids = 1 => gen.ids = 1 \/ \A u \in Tasks : job[u].step # "write",
           past.overlapped => past'.overlapped
    PROVE  WritersOK'
<1> SUFFICES ASSUME NEW u \in Tasks, job'[u].step = "write", ~Writer(u)'
             PROVE  Writer(u)'
  BY DEF WritersOK
<1>1. /\ job'[u].op = job[u].op /\ job'[u].pw = job[u].pw /\ job'[u].id = job[u].id
      /\ job'[u].writes = job[u].writes
      /\ job'[u].step = job[u].step /\ job[u].step = "write"
      /\ Writer(u) /\ (gen'.ids = 1 => gen.ids = 1)
  <2>1. job'[u] = job[u] \/ job'[u] = [job[u] EXCEPT !.waited = FALSE]
    OBVIOUS
  <2>2. job[u] \in Flow
    <3>1. job[u] # Idle
      BY <2>1 DEF Idle
    <3> QED
      BY <3>1 DEF Typed
  <2>3. /\ job'[u].op = job[u].op /\ job'[u].pw = job[u].pw /\ job'[u].id = job[u].id
        /\ job'[u].writes = job[u].writes
        /\ job'[u].step = job[u].step
    BY <2>1, <2>2 DEF Flow
  <2> QED
    BY <2>3 DEF WritersOK
<1>2. /\ disk'.keystore = disk.keystore /\ disk'.wrapped = disk.wrapped
      /\ disk'.recovery = disk.recovery /\ disk'.token = disk.token
      /\ disk'.salt = disk.salt
  BY DEF Typed, Disk
<1>3. \A s \in 1..gen.salts : s \in 1..gen'.salts
  BY DEF Typed, Disk
<1>4. /\ \A s, n : CreateLeft(u, s, n) => CreateLeft(u, s, n)'
      /\ \A s, n : RotateLeft(u, s, n) => RotateLeft(u, s, n)'
  BY <1>1 DEF CreateLeft, RotateLeft
<1>5. ~past'.overlapped => ~past.overlapped
  OBVIOUS
<1>6. CASE job[u].op = "register"
  <2>1. PICK s \in 1..gen.salts, n \in 1..5 :
          /\ CreateLeft(u, s, n)
          /\ gen.ids = 1 => /\ disk.keystore = 0
                            /\ n > 2 => disk.wrapped.id = 1
                            /\ n > 3 => disk.recovery = 1
                            /\ n > 4 => disk.token = 1
          /\ ~past.overlapped =>
                /\ n > 1 => disk.salt = s
                /\ n > 2 => disk.wrapped = Wrapped(job[u].pw, s, job[u].id)
    BY <1>1, <1>6 DEF Writer
  <2>2. /\ CreateLeft(u, s, n)'
        /\ gen'.ids = 1 => /\ disk'.keystore = 0
                           /\ n > 2 => disk'.wrapped.id = 1
                           /\ n > 3 => disk'.recovery = 1
                           /\ n > 4 => disk'.token = 1
        /\ ~past'.overlapped =>
              /\ n > 1 => disk'.salt = s
              /\ n > 2 => disk'.wrapped = Wrapped(job'[u].pw, s, job'[u].id)
    BY <1>1, <1>2, <1>4, <1>5, <2>1
  <2> QED
    BY <1>1, <1>3, <1>6, <2>2 DEF Writer
<1>7. CASE job[u].op = "recover"
  <2>1. PICK s \in 1..gen.salts, n \in 1..2 :
          RotateLeft(u, s, n) /\ (~past.overlapped => (n > 1 => disk.salt = s))
    BY <1>1, <1>7 DEF Writer
  <2>2. RotateLeft(u, s, n)' /\ (~past'.overlapped => (n > 1 => disk'.salt = s))
    BY <1>1, <1>2, <1>4, <1>5, <2>1
  <2> QED
    BY <1>1, <1>3, <1>7, <2>2 DEF Writer
<1> QED
  BY <1>1, <1>6, <1>7 DEF Writer

(* Where a flow that throws leaves the rest.                                 *)
LEMMA ThrowStep ==
    ASSUME IInv, NEW t \in Tasks, job[t] # Idle, Throw(t),
           job[t].step # "write",
           disk' = disk \/ disk' = [disk EXCEPT !.db = TRUE],
           UNCHANGED <<account, session, keychain, flows, faults>>
    PROVE  IInv'
<1> USE DEF IInv, Throw, Flow, Idle, Disk, Screen, Past
<1>1. ui' \in {ui, [ui EXCEPT !.busy = FALSE], [ui EXCEPT !.rbusy = Null]}
  BY DEF Freed
<1>2. /\ disk'.keystore = disk.keystore /\ disk'.wrapped = disk.wrapped
      /\ disk'.recovery = disk.recovery /\ disk'.token = disk.token
      /\ disk'.salt = disk.salt /\ (disk.db => disk'.db)
  BY DEF Typed
<1>3. /\ past'.current = past.current /\ past'.shown = past.shown
      /\ past'.recovered = past.recovered /\ past'.edited = past.edited
      /\ past'.cut = past.cut /\ past'.overlapped = past.overlapped
      /\ past.stopped => past'.stopped
      /\ job[t].op = "register" => past'.stopped
  BY DEF Typed
<1>4. Typed'
  <2>1. past' \in Past
    BY DEF Typed, Past
  <2>2. ui' \in Screen
    <3>1. CASE ui' = ui
      BY <3>1 DEF Typed, Screen
    <3>2. CASE ui' = [ui EXCEPT !.busy = FALSE]
      BY <3>2 DEF Typed, Screen
    <3>3. CASE ui' = [ui EXCEPT !.rbusy = Null]
      BY <3>3 DEF Typed, Screen
    <3> QED
      BY <1>1, <3>1, <3>2, <3>3
  <2>3. disk' \in Disk
    BY DEF Typed, Disk
  <2> QED
    BY <2>1, <2>2, <2>3 DEF Typed
<1>5. TypeOK'
  <2>1. gen' = gen
    OBVIOUS
  <2>2. disk' \in [db : BOOLEAN, salt : 0..gen.salts, recovery : Rows, token : Rows,
                  keystore : Rows,
                  wrapped : [pw : Passwords \cup {Null}, salt : 0..gen.salts, id : Rows]]
    BY DEF Typed, TypeOK
  <2>3. ui'.rbusy # Null => job'[ui'.rbusy].op = "recover" /\ job'[ui'.rbusy].waited
    BY DEF Typed, TypeOK, Freed
  <2>4. ui'.pending \in past'.shown \cup {0} /\ past'.shown \subseteq 1..gen.ids
    BY <1>1, <1>3 DEF Typed, TypeOK
  <2>5. \A u \in Tasks : job'[u].step = "write" => job'[u].writes # <<>> /\ job'[u].id # 0
    BY DEF Typed, TypeOK
  <2> QED
    BY <2>1, <2>2, <2>3, <2>4, <2>5 DEF Typed, TypeOK, Rows
<1>6. JobsOK'
  BY <1>2, <1>3, <1>4 DEF Typed, JobsOK, Online
<1>7. WritersOK'
  <2>1. \A u \in Tasks : job'[u].step = "write" => job'[u] = job[u]
    BY DEF Typed
  <2>2. Typed /\ WritersOK /\ gen'.ids = gen.ids /\ gen'.salts >= gen.salts
    BY DEF Typed
  <2>3. past.overlapped => past'.overlapped
    BY <1>3
  <2> HIDE DEF IInv, Throw, Flow, Idle, Disk, Screen, Past
  <2> QED
    BY <1>4, <2>1, <2>2, <2>3, WritersFrame
<1>8. CreatorsDiffer'
  BY DEF Typed, CreatorsDiffer
<1>9. StoreOK'
  BY <1>2 DEF Typed, StoreOK, Complete, Online
<1>10. OneAtATime'
  BY <1>1, <1>3 DEF Typed, OneAtATime, Running
<1>11. FlowOK'
  BY <1>1, <1>2, <1>3 DEF Typed, FlowOK, Opens, Online
<1>12. ShownOK'
  BY <1>1, <1>2, <1>3 DEF Typed, ShownOK, Opens
<1>13. PasswordUnlocks'
  BY <1>2, <1>3 DEF Typed, PasswordUnlocks, Opens
<1>14. MainIsLoggedIn'
  BY <1>1, <1>2, <1>3 DEF Typed, MainIsLoggedIn
<1>15. RememberedUnlocks'
  BY <1>2, <1>3 DEF Typed, RememberedUnlocks, Opens
<1> QED
  BY <1>4, <1>5, <1>6, <1>7, <1>8, <1>9, <1>10, <1>11, <1>12, <1>13, <1>14, <1>15

(* A flow begins: everything but its record and the screen stays.            *)
LEMMA BeginStep ==
    ASSUME IInv, NEW t \in Tasks, NEW op, NEW step, NEW pw \in Passwords,
           NEW id \in 0..gen.ids,
           Begin(t, op, step, pw, id),
           \/ op \in {"register", "login"} /\ step = "check"
           \/ op = "biometric" /\ step = "salt"
           \/ op = "recover" /\ step = "phrase",
           op = "register" => ui.field = pw,
           ui.screen = "login",
           \/ op # "recover" /\ ui' = [ui EXCEPT !.busy = TRUE]
           \/ op = "recover" /\ ui' = [ui EXCEPT !.rbusy = t] /\ ui.rbusy = Null
    PROVE  IInv'
<1> USE VaultAssumption DEF IInv, Begin, Idle, Disk, Screen, Past
<1>1. job'[t] \in Flow /\ job' = [job EXCEPT ![t] = job'[t]]
  <2>1. <<>> \in Seq(Puts)
    OBVIOUS
  <2> QED
    BY <2>1 DEF Typed, Flow
<1>2. /\ ui'.screen = ui.screen /\ ui'.pending = ui.pending /\ ui'.field = ui.field
      /\ ui' \in Screen
  <2>1. CASE ui' = [ui EXCEPT !.busy = TRUE]
    BY <2>1 DEF Typed
  <2>2. CASE ui' = [ui EXCEPT !.rbusy = t]
    BY <2>2 DEF Typed
  <2> QED
    BY <2>1, <2>2
<1>3. /\ past'.current = past.current /\ past'.shown = past.shown
      /\ past'.recovered = past.recovered /\ past'.edited = past.edited
      /\ past'.cut = past.cut /\ past'.stopped = past.stopped
      /\ past.overlapped => past'.overlapped
      /\ ~past'.overlapped => Running = {} /\ ui.pending = 0
  BY DEF Typed
<1>4. Typed'
  <2>1. past' \in Past
    BY DEF Typed
  <2>2. flows' \in 0..MaxFlows
    BY DEF Typed
  <2> QED
    BY <1>1, <1>2, <2>1, <2>2 DEF Typed
<1>5. /\ job'[t].op = op /\ job'[t].step = step /\ job'[t].pw = pw /\ job'[t].id = id
      /\ job'[t].waited
      /\ \A u \in Tasks \ {t} : job'[u] = job[u]
  BY DEF Typed
<1>6. TypeOK'
  <2>1. ui'.rbusy # Null => job'[ui'.rbusy].op = "recover" /\ job'[ui'.rbusy].waited
    BY <1>5 DEF Typed, TypeOK
  <2>2. \A u \in Tasks : job'[u].step = "write" => job'[u].writes # <<>> /\ job'[u].id # 0
    BY <1>5 DEF TypeOK
  <2> QED
    BY <1>2, <1>3, <1>4, <2>1, <2>2 DEF TypeOK, Rows, Typed
<1>7. JobsOK'
  BY <1>3, <1>5 DEF Typed, JobsOK, Online
<1>8. WritersOK'
  <2>1. \A u \in Tasks : job'[u].step = "write" => job'[u] = job[u]
    BY <1>5
  <2>2. /\ Typed /\ WritersOK /\ gen'.ids = gen.ids /\ gen'.salts >= gen.salts
        /\ disk' = disk
    BY DEF Typed
  <2>3. past.overlapped => past'.overlapped
    BY <1>3
  <2> HIDE DEF IInv, Begin
  <2> QED
    BY <1>4, <2>1, <2>2, <2>3, WritersFrame
<1>9. CreatorsDiffer'
  BY <1>5 DEF CreatorsDiffer
<1>10. StoreOK'
  BY <1>5 DEF StoreOK, Complete, Online
<1>11. OneAtATime'
  BY <1>2, <1>3, <1>5 DEF OneAtATime, Running
<1>12. FlowOK'
  BY <1>2, <1>3, <1>5 DEF FlowOK, Opens, Online
<1>13. ShownOK'
  BY <1>2, <1>3, <1>5 DEF ShownOK, Opens, Running
<1>14. PasswordUnlocks'
  BY <1>3, <1>5 DEF PasswordUnlocks, Opens, Running
<1>15. MainIsLoggedIn'
  BY <1>2 DEF MainIsLoggedIn
<1>16. RememberedUnlocks'
  BY <1>3 DEF RememberedUnlocks, Opens
<1> QED
  BY <1>4, <1>6, <1>7, <1>8, <1>9, <1>10, <1>11, <1>12, <1>13, <1>14, <1>15, <1>16

LEMMA StartStep ==
    ASSUME IInv, NEW t \in Tasks,
           \/ StartRegister(t) \/ StartLogin(t) \/ StartBiometric(t)
           \/ \E id \in 0..gen.ids, pw \in Passwords : StartRecover(t, id, pw)
    PROVE  IInv'
<1>1. Typed /\ TypeOK
  BY DEF IInv
<1>2. ui.field \in Passwords \cup {Null} /\ gen.ids \in Nat
  BY <1>1 DEF Typed, Screen
<1>3. 0 \in 0..gen.ids
  BY <1>2
<1>4. CASE StartRegister(t)
  <2>1. ui.field \in Passwords
    BY <1>2, <1>4 DEF StartRegister, ManualForm
  <2>2. /\ Begin(t, "register", "check", ui.field, 0)
        /\ ui.screen = "login" /\ ui' = [ui EXCEPT !.busy = TRUE]
    BY <1>4 DEF StartRegister, ManualForm
  <2> QED
    BY <1>3, <2>1, <2>2, BeginStep
<1>5. CASE StartLogin(t)
  <2>1. ui.field \in Passwords
    BY <1>2, <1>5 DEF StartLogin, ManualForm
  <2>2. /\ Begin(t, "login", "check", ui.field, 0)
        /\ ui.screen = "login" /\ ui' = [ui EXCEPT !.busy = TRUE]
    BY <1>5 DEF StartLogin, ManualForm
  <2> QED
    BY <1>3, <2>1, <2>2, BeginStep
<1>6. CASE StartBiometric(t)
  <2>1. keychain \in Passwords
    BY <1>1, <1>6 DEF StartBiometric, Typed
  <2>2. /\ Begin(t, "biometric", "salt", keychain, 0)
        /\ ui.screen = "login" /\ ui' = [ui EXCEPT !.busy = TRUE]
    BY <1>6 DEF StartBiometric
  <2> QED
    BY <1>3, <2>1, <2>2, BeginStep
<1>7. CASE \E id \in 0..gen.ids, pw \in Passwords : StartRecover(t, id, pw)
  <2>1. PICK id \in 0..gen.ids, pw \in Passwords : StartRecover(t, id, pw)
    BY <1>7
  <2>2. /\ Begin(t, "recover", "phrase", pw, id)
        /\ ui.screen = "login" /\ ui' = [ui EXCEPT !.rbusy = t] /\ ui.rbusy = Null
    BY <2>1 DEF StartRecover
  <2> QED
    BY <2>2, BeginStep
<1> QED
  BY <1>4, <1>5, <1>6, <1>7

(* A flow goes on to a step that does not write; neither the screen nor what *)
(* was generated changes.                                                    *)
LEMMA MoveStep ==
    ASSUME IInv, NEW t \in Tasks, NEW r \in Flow,
           job[t] \in Flow, job[t].step # "write", r.step # "write",
           r.op = job[t].op, r.pw = job[t].pw, r.waited = job[t].waited,
           job' = [job EXCEPT ![t] = r],
           disk' = disk \/ disk' = [disk EXCEPT !.db = TRUE],
           account' \in Rows \cup {Foreign},
           session' \in [by : Tasks \cup {Null}, in : BOOLEAN],
           r.step = "create" => gen.ids = 0 \/ past.overlapped,
           UNCHANGED <<ui, past, gen, keychain, flows, faults>>
    PROVE  /\ Typed' /\ TypeOK' /\ WritersOK' /\ CreatorsDiffer' /\ OneAtATime'
           /\ PasswordUnlocks' /\ RememberedUnlocks'
           /\ job'[t] = r /\ \A u \in Tasks \ {t} : job'[u] = job[u]
           /\ disk'.keystore = disk.keystore /\ disk'.wrapped = disk.wrapped
           /\ disk'.recovery = disk.recovery /\ disk'.token = disk.token
           /\ disk'.salt = disk.salt /\ (disk.db => disk'.db)
<1> USE VaultAssumption DEF IInv, Idle, Disk, Screen, Past
<1>1. job'[t] = r /\ \A u \in Tasks \ {t} : job'[u] = job[u]
  BY DEF Typed
<1>2. /\ disk'.keystore = disk.keystore /\ disk'.wrapped = disk.wrapped
      /\ disk'.recovery = disk.recovery /\ disk'.token = disk.token
      /\ disk'.salt = disk.salt /\ (disk.db => disk'.db)
  BY DEF Typed
<1>3. r # Idle /\ job[t] # Idle
  BY DEF Flow
<1>4. Typed'
  <2>1. account' \in Nat
    BY DEF Typed, Rows, Foreign
  <2>2. disk' \in Disk
    BY DEF Typed
  <2>3. job' \in [Tasks -> Flow \cup {Idle}]
    BY DEF Typed
  <2> QED
    BY <2>1, <2>2, <2>3 DEF Typed
<1>5. TypeOK'
  <2>1. disk' \in [db : BOOLEAN, salt : 0..gen.salts, recovery : Rows, token : Rows,
                  keystore : Rows,
                  wrapped : [pw : Passwords \cup {Null}, salt : 0..gen.salts, id : Rows]]
    <3>1. CASE disk' = disk
      BY <3>1 DEF TypeOK
    <3>2. CASE disk' = [disk EXCEPT !.db = TRUE]
      BY <3>2 DEF TypeOK
    <3> QED
      BY <3>1, <3>2
  <2>2. ui'.rbusy # Null => job'[ui'.rbusy].op = "recover" /\ job'[ui'.rbusy].waited
    BY <1>1 DEF Typed, TypeOK
  <2>3. \A u \in Tasks : job'[u].step = "write" => job'[u].writes # <<>> /\ job'[u].id # 0
    BY <1>1 DEF TypeOK
  <2> QED
    BY <2>1, <2>2, <2>3 DEF TypeOK, Rows
<1>6. WritersOK'
  <2>1. \A u \in Tasks : job'[u].step = "write" => job'[u] = job[u]
    BY <1>1
  <2>2. /\ Typed /\ WritersOK /\ gen'.ids = gen.ids /\ gen'.salts >= gen.salts
        /\ past.overlapped => past'.overlapped
    BY DEF Typed
  <2> HIDE DEF IInv
  <2> QED
    BY <1>4, <2>1, <2>2, WritersFrame
<1>7. CreatorsDiffer'
  BY <1>1 DEF CreatorsDiffer
<1>8. OneAtATime'
  BY <1>1, <1>3 DEF OneAtATime, Running
<1>9. PasswordUnlocks'
  BY <1>1, <1>2 DEF PasswordUnlocks, Opens
<1>10. RememberedUnlocks'
  BY <1>2 DEF RememberedUnlocks, Opens
<1> QED
  BY <1>1, <1>2, <1>4, <1>5, <1>6, <1>7, <1>8, <1>9, <1>10

LEMMA CheckLocalStep ==
    ASSUME IInv, NEW t \in Tasks, CheckLocal(t)
    PROVE  IInv'
<1>1. /\ job[t] \in Flow /\ job[t] # Idle /\ job[t].step = "check"
      /\ disk' = disk /\ account' = account /\ session' = session
      /\ keychain' = keychain /\ flows' = flows /\ faults' = faults
  BY InFlow DEF IInv, CheckLocal
<1>2. CASE Throw(t)
  BY <1>1, <1>2, ThrowStep
<1>3. ASSUME NEW step \in {"create", "salt"}, Goes(t, step),
             step = "create" => job[t].op = "register" /\ ~disk.db,
             step = "salt" => job[t].op = "login"
      PROVE  IInv'
  <2> DEFINE r == [job[t] EXCEPT !.step = step]
  <2>1. /\ r \in Flow /\ r.op = job[t].op /\ r.pw = job[t].pw /\ r.step = step
        /\ r.waited = job[t].waited /\ r.id = job[t].id /\ r # Idle
    BY <1>1 DEF Flow, Idle
  <2>2. job' = [job EXCEPT ![t] = r] /\ UNCHANGED <<ui, past, gen>>
    BY <1>3 DEF Goes
  <2>3. account' \in Rows \cup {Foreign} /\ Typed
    BY <1>1 DEF IInv, TypeOK
  <2>4. session' \in [by : Tasks \cup {Null}, in : BOOLEAN]
    BY <1>1, <2>3 DEF Typed
  <2>5. gen.ids > 0 => disk.db
    BY DEF IInv, JobsOK
  <2>6. r.step # "write" /\ job[t].step # "write" /\ (r.step = "create" => gen.ids = 0)
    BY <1>1, <1>3, <2>1, <2>3, <2>5 DEF Typed
  <2> HIDE DEF r
  <2>7. /\ Typed' /\ TypeOK' /\ WritersOK' /\ CreatorsDiffer' /\ OneAtATime'
        /\ PasswordUnlocks' /\ RememberedUnlocks'
        /\ job'[t] = r /\ \A u \in Tasks \ {t} : job'[u] = job[u]
    BY <1>1, <2>1, <2>2, <2>3, <2>4, <2>6, MoveStep
  <2> USE <1>1, <2>1, <2>2, <2>7
  <2>8. JobsOK'
    BY <1>3 DEF IInv, JobsOK, Online
  <2>9. StoreOK'
    BY DEF IInv, StoreOK, Complete, Online
  <2>10. FlowOK'
    BY DEF IInv, FlowOK, Opens, Online
  <2>11. ShownOK'
    BY DEF IInv, ShownOK, Opens
  <2>12. MainIsLoggedIn'
    BY DEF IInv, MainIsLoggedIn
  <2> QED
    BY <2>8, <2>9, <2>10, <2>11, <2>12 DEF IInv
<1>4. CASE job[t].op = "register" /\ ~disk.db
  BY <1>3, <1>4 DEF CheckLocal
<1>5. CASE job[t].op = "login" /\ disk.db
  BY <1>3, <1>5 DEF CheckLocal
<1>6. CASE /\ ~(job[t].op = "register" /\ ~disk.db)
           /\ ~(job[t].op = "login" /\ disk.db)
  BY <1>2, <1>6 DEF CheckLocal
<1> QED
  BY <1>4, <1>5, <1>6

LEMMA ReadSaltStep ==
    ASSUME IInv, NEW t \in Tasks, ReadSalt(t)
    PROVE  IInv'
<1>1. /\ job[t] \in Flow /\ job[t] # Idle /\ job[t].step = "salt"
      /\ keychain' = keychain /\ flows' = flows /\ faults' = faults
      /\ disk' = [disk EXCEPT !.db = TRUE] /\ account' = account /\ session' = session
  BY InFlow DEF IInv, ReadSalt
<1>2. CASE disk.salt = 0
  <2>1. Throw(t)
    BY <1>2 DEF ReadSalt
  <2> QED
    BY <1>1, <2>1, ThrowStep
<1>3. CASE disk.salt # 0
  <2> DEFINE r == [job[t] EXCEPT !.step = "unwrap", !.salt = disk.salt]
  <2>1. /\ r \in Flow /\ r.op = job[t].op /\ r.pw = job[t].pw /\ r.step = "unwrap"
        /\ r.waited = job[t].waited /\ r.id = job[t].id /\ r # Idle
        /\ r.salt = disk.salt
    BY <1>1 DEF IInv, Typed, Flow, Idle, Disk, Boxes
  <2>2. /\ job' = [job EXCEPT ![t] = r] /\ UNCHANGED <<ui, past, gen>>
        /\ account' = account
    BY <1>1, <1>3 DEF ReadSalt, Goes
  <2>3. /\ account' \in Rows \cup {Foreign}
        /\ session' \in [by : Tasks \cup {Null}, in : BOOLEAN]
    BY <1>1, <2>2 DEF IInv, TypeOK, Typed, JobsOK, Rows, Online
  <2> HIDE DEF r
  <2>4. /\ Typed' /\ TypeOK' /\ WritersOK' /\ CreatorsDiffer' /\ OneAtATime'
        /\ PasswordUnlocks' /\ RememberedUnlocks'
        /\ job'[t] = r /\ \A u \in Tasks \ {t} : job'[u] = job[u]
        /\ disk'.keystore = disk.keystore /\ disk'.wrapped = disk.wrapped
        /\ disk'.recovery = disk.recovery /\ disk'.token = disk.token
        /\ disk'.salt = disk.salt /\ (disk.db => disk'.db)
    BY <1>1, <2>1, <2>2, <2>3, MoveStep
  <2> USE <1>1, <1>3, <2>1, <2>2, <2>4 DEF IInv
  <2>5. JobsOK'
    BY DEF JobsOK, Online
  <2>6. StoreOK'
    BY DEF StoreOK, Complete, Online, JobsOK, Typed
  <2>7. FlowOK'
    BY DEF FlowOK, Opens, Online, OneAtATime
  <2>8. ShownOK'
    BY DEF ShownOK, Opens, OneAtATime, Running
  <2>9. MainIsLoggedIn'
    BY DEF MainIsLoggedIn, OneAtATime, Running
  <2> QED
    BY <2>5, <2>6, <2>7, <2>8, <2>9
<1> QED
  BY <1>2, <1>3

LEMMA UnlockStep ==
    ASSUME IInv, NEW t \in Tasks, Unlock(t)
    PROVE  IInv'
<1>1. /\ job[t] \in Flow /\ job[t] # Idle /\ job[t].step = "unwrap"
      /\ keychain' = keychain /\ flows' = flows /\ faults' = faults
      /\ disk' = disk /\ account' = account /\ session' = session
  BY InFlow DEF IInv, Unlock
<1>2. CASE ~Opens(job[t].pw, job[t].salt)
  <2>1. Throw(t)
    BY <1>2 DEF Unlock
  <2> QED
    BY <1>1, <2>1, ThrowStep
<1>3. CASE Opens(job[t].pw, job[t].salt)
  <2> DEFINE r == [job[t] EXCEPT !.step = "connect", !.id = disk.wrapped.id]
  <2>1. /\ r \in Flow /\ r.op = job[t].op /\ r.pw = job[t].pw /\ r.step = "connect"
        /\ r.waited = job[t].waited /\ r.id = disk.wrapped.id /\ r # Idle
        /\ r.salt = job[t].salt
    BY <1>1 DEF IInv, Typed, Flow, Idle, Disk, Boxes
  <2>2. /\ job' = [job EXCEPT ![t] = r] /\ UNCHANGED <<ui, past, gen>>
        /\ account' = account
    BY <1>1, <1>3 DEF Unlock, Goes
  <2>3. /\ account' \in Rows \cup {Foreign}
        /\ session' \in [by : Tasks \cup {Null}, in : BOOLEAN]
    BY <1>1, <2>2 DEF IInv, TypeOK, Typed, JobsOK, Rows, Online
  <2> HIDE DEF r
  <2>4. /\ Typed' /\ TypeOK' /\ WritersOK' /\ CreatorsDiffer' /\ OneAtATime'
        /\ PasswordUnlocks' /\ RememberedUnlocks'
        /\ job'[t] = r /\ \A u \in Tasks \ {t} : job'[u] = job[u]
        /\ disk'.keystore = disk.keystore /\ disk'.wrapped = disk.wrapped
        /\ disk'.recovery = disk.recovery /\ disk'.token = disk.token
        /\ disk'.salt = disk.salt /\ (disk.db => disk'.db)
    BY <1>1, <2>1, <2>2, <2>3, MoveStep
  <2> USE <1>1, <1>3, <2>1, <2>2, <2>4 DEF IInv
  <2>5. JobsOK'
    BY DEF JobsOK, Online, Opens, TypeOK, Rows, Typed, Disk, Boxes
  <2>6. StoreOK'
    BY DEF StoreOK, Complete, Online, JobsOK, Typed, Opens
  <2>7. FlowOK'
    BY DEF FlowOK, Opens, Online, OneAtATime
  <2>8. ShownOK'
    BY DEF ShownOK, Opens, OneAtATime, Running
  <2>9. MainIsLoggedIn'
    BY DEF MainIsLoggedIn, OneAtATime, Running
  <2> QED
    BY <2>5, <2>6, <2>7, <2>8, <2>9
<1> QED
  BY <1>2, <1>3

LEMMA ConnectStep ==
    ASSUME IInv, NEW t \in Tasks, Connect(t)
    PROVE  IInv'
<1>1. /\ job[t] \in Flow /\ job[t] # Idle /\ job[t].step = "connect"
      /\ keychain' = keychain /\ flows' = flows /\ faults' = faults
      /\ disk' = disk /\ account' = account
  BY InFlow DEF IInv, Connect
<1> DEFINE r == [job[t] EXCEPT !.step = IF job[t].op = "register" THEN "enrol" ELSE "login"]
<1>2. /\ r \in Flow /\ r.op = job[t].op /\ r.pw = job[t].pw /\ r.step \in {"enrol", "login"}
      /\ (r.step = "enrol" => job[t].op = "register")
      /\ r.waited = job[t].waited /\ r.id = job[t].id /\ r # Idle
      /\ r.salt = job[t].salt
  BY <1>1 DEF IInv, Typed, Flow, Idle, Disk, Boxes
<1>3. /\ job' = [job EXCEPT ![t] = r] /\ UNCHANGED <<ui, past, gen>>
      /\ session' = [by |-> t, in |-> FALSE]
  BY <1>1 DEF Connect, Goes
<1>4. /\ account' \in Rows \cup {Foreign}
      /\ session' \in [by : Tasks \cup {Null}, in : BOOLEAN]
  BY <1>1, <1>3 DEF IInv, TypeOK, Typed, JobsOK, Rows, Online
<1> HIDE DEF r
<1>5. /\ Typed' /\ TypeOK' /\ WritersOK' /\ CreatorsDiffer' /\ OneAtATime'
      /\ PasswordUnlocks' /\ RememberedUnlocks'
      /\ job'[t] = r /\ \A u \in Tasks \ {t} : job'[u] = job[u]
      /\ disk'.keystore = disk.keystore /\ disk'.wrapped = disk.wrapped
      /\ disk'.recovery = disk.recovery /\ disk'.token = disk.token
      /\ disk'.salt = disk.salt /\ (disk.db => disk'.db)
  BY <1>1, <1>2, <1>3, <1>4, MoveStep
<1> USE <1>1, <1>2, <1>3, <1>5 DEF IInv
<1>6. JobsOK'
  BY DEF JobsOK, Online
<1>7. StoreOK'
  BY DEF StoreOK, Complete, Online, JobsOK, Typed
<1>8. FlowOK'
  <2>1. \A u \in Tasks : ~past.overlapped /\ u # t => job'[u] = Idle
    BY DEF OneAtATime
  <2>2. /\ session'.by = t
        /\ ~past.overlapped => Opens(job[t].pw, disk.salt)
        /\ ~past.overlapped /\ job[t].op = "register" /\ ~past.edited /\ job[t].waited =>
              ui.field = job[t].pw
    BY DEF FlowOK, Online
  <2> QED
    BY <2>1, <2>2 DEF FlowOK, Opens, Online, Idle
<1>9. ShownOK'
  BY DEF ShownOK, Opens, OneAtATime, Running
<1>10. MainIsLoggedIn'
  BY DEF MainIsLoggedIn, OneAtATime, Running
<1> QED
  BY <1>6, <1>7, <1>8, <1>9, <1>10

LEMMA EnrolStep ==
    ASSUME IInv, NEW t \in Tasks, Enrol(t)
    PROVE  IInv'
<1>1. /\ job[t] \in Flow /\ job[t] # Idle /\ job[t].step = "enrol"
      /\ keychain' = keychain /\ flows' = flows /\ faults' = faults
      /\ disk' = disk /\ session' = session
  BY InFlow DEF IInv, Enrol
<1>2. CASE account # 0
  <2>1. Throw(t) /\ account' = account
    BY <1>2 DEF Enrol
  <2> QED
    BY <1>1, <2>1, ThrowStep
<1>3. CASE account = 0
  <2> DEFINE r == [job[t] EXCEPT !.step = "login"]
  <2>1. /\ r \in Flow /\ r.op = job[t].op /\ r.pw = job[t].pw /\ r.step = "login"
        /\ r.waited = job[t].waited /\ r.id = job[t].id /\ r # Idle
        /\ r.salt = job[t].salt
    BY <1>1 DEF IInv, Typed, Flow, Idle, Disk, Boxes
  <2>2. /\ job' = [job EXCEPT ![t] = r] /\ UNCHANGED <<ui, past, gen>>
        /\ account' = job[t].id
    BY <1>1, <1>3 DEF Enrol, Goes
  <2>3. /\ account' \in Rows \cup {Foreign}
        /\ session' \in [by : Tasks \cup {Null}, in : BOOLEAN]
    BY <1>1, <2>2 DEF IInv, TypeOK, Typed, JobsOK, Rows, Online
  <2> HIDE DEF r
  <2>4. /\ Typed' /\ TypeOK' /\ WritersOK' /\ CreatorsDiffer' /\ OneAtATime'
        /\ PasswordUnlocks' /\ RememberedUnlocks'
        /\ job'[t] = r /\ \A u \in Tasks \ {t} : job'[u] = job[u]
        /\ disk'.keystore = disk.keystore /\ disk'.wrapped = disk.wrapped
        /\ disk'.recovery = disk.recovery /\ disk'.token = disk.token
        /\ disk'.salt = disk.salt /\ (disk.db => disk'.db)
    BY <1>1, <2>1, <2>2, <2>3, MoveStep
  <2> USE <1>1, <1>3, <2>1, <2>2, <2>4 DEF IInv
  <2>5. JobsOK'
    BY DEF JobsOK, Online
  <2>6. StoreOK'
    BY DEF StoreOK, Complete, Online, JobsOK, Typed
  <2>7. FlowOK'
    BY DEF FlowOK, Opens, Online, OneAtATime
  <2>8. ShownOK'
    BY DEF ShownOK, Opens, OneAtATime, Running
  <2>9. MainIsLoggedIn'
    BY DEF MainIsLoggedIn, OneAtATime, Running
  <2> QED
    BY <2>5, <2>6, <2>7, <2>8, <2>9
<1> QED
  BY <1>2, <1>3

LEMMA LogInStep ==
    ASSUME IInv, NEW t \in Tasks, LogIn(t)
    PROVE  IInv'
<1>1. /\ job[t] \in Flow /\ job[t] # Idle /\ job[t].step = "login"
      /\ keychain' = keychain /\ flows' = flows /\ faults' = faults
      /\ disk' = disk /\ account' = account
  BY InFlow DEF IInv, LogIn
<1>2. CASE account # job[t].id
  <2>1. Throw(t) /\ session' = session
    BY <1>2 DEF LogIn
  <2> QED
    BY <1>1, <2>1, ThrowStep
<1>3. CASE account = job[t].id
  <2> DEFINE r == [job[t] EXCEPT !.step = "publish"]
  <2>1. /\ r \in Flow /\ r.op = job[t].op /\ r.pw = job[t].pw /\ r.step = "publish"
        /\ r.waited = job[t].waited /\ r.id = job[t].id /\ r # Idle
        /\ r.salt = job[t].salt
    BY <1>1 DEF IInv, Typed, Flow, Idle, Disk, Boxes
  <2>2. /\ job' = [job EXCEPT ![t] = r] /\ UNCHANGED <<ui, past, gen>>
        /\ session' = IF session.by = t THEN [session EXCEPT !.in = TRUE] ELSE session
    BY <1>1, <1>3 DEF LogIn, Goes
  <2>3. /\ account' \in Rows \cup {Foreign}
        /\ session' \in [by : Tasks \cup {Null}, in : BOOLEAN]
    BY <1>1, <2>2 DEF IInv, TypeOK, Typed, JobsOK, Rows, Online
  <2> HIDE DEF r
  <2>4. /\ Typed' /\ TypeOK' /\ WritersOK' /\ CreatorsDiffer' /\ OneAtATime'
        /\ PasswordUnlocks' /\ RememberedUnlocks'
        /\ job'[t] = r /\ \A u \in Tasks \ {t} : job'[u] = job[u]
        /\ disk'.keystore = disk.keystore /\ disk'.wrapped = disk.wrapped
        /\ disk'.recovery = disk.recovery /\ disk'.token = disk.token
        /\ disk'.salt = disk.salt /\ (disk.db => disk'.db)
    BY <1>1, <2>1, <2>2, <2>3, MoveStep
  <2> USE <1>1, <1>3, <2>1, <2>2, <2>4 DEF IInv
  <2>5. JobsOK'
    BY DEF JobsOK, Online
  <2>6. StoreOK'
    BY DEF StoreOK, Complete, Online, JobsOK, Typed
  <2>7. FlowOK'
    BY DEF FlowOK, Opens, Online, OneAtATime
  <2>8. ShownOK'
    BY DEF ShownOK, Opens, OneAtATime, Running
  <2>9. MainIsLoggedIn'
    BY DEF MainIsLoggedIn, OneAtATime, Running
  <2> QED
    BY <2>5, <2>6, <2>7, <2>8, <2>9
<1> QED
  BY <1>2, <1>3

(* The rows that are left, one by one.                                       *)
LEMMA LeftAll ==
    ASSUME NEW list \in Seq(Puts)
    PROVE  Left(list, list, 1)
BY DEF Left

LEMMA LeftRows ==
    ASSUME NEW list \in Seq(Puts), NEW all \in Seq(Puts), NEW n \in 1..Len(list),
           Left(all, list, n)
    PROVE  /\ Head(all) = list[n] /\ Tail(all) \in Seq(Puts)
           /\ Left(Tail(all), list, n + 1)
           /\ Tail(all) = <<>> <=> n = Len(list)
<1>1. Len(list) \in Nat /\ Len(all) \in Nat /\ n \in Nat
  OBVIOUS
<1>2. Len(all) >= 1 /\ all # <<>>
  BY <1>1 DEF Left
<1>3. Head(all) = list[n]
  BY <1>1, <1>2 DEF Left
<1>4. /\ Tail(all) \in Seq(Puts) /\ Len(Tail(all)) = Len(all) - 1
      /\ \A i \in 1..Len(Tail(all)) : Tail(all)[i] = all[i + 1]
  BY <1>2, HeadTailProperties
<1>5. Left(Tail(all), list, n + 1)
  BY <1>1, <1>4 DEF Left
<1> DEFINE rest == Tail(all)
<1>6. rest \in Seq(Puts) /\ Len(rest) = Len(list) - n
  BY <1>1, <1>4 DEF Left
<1> HIDE DEF rest
<1>7. rest = <<>> <=> n = Len(list)
  BY <1>1, <1>6
<1> QED
  BY <1>3, <1>4, <1>5, <1>7 DEF rest

(* What the two flows that write put.                                        *)
LEMMA WritesAreRows ==
    ASSUME NEW pw \in Passwords, NEW salt \in Nat, NEW id \in Nat
    PROVE  /\ CreateWrites(pw, salt, id) \in Seq(Puts)
           /\ Len(CreateWrites(pw, salt, id)) = 5
           /\ RotateWrites(pw, salt, id) \in Seq(Puts)
           /\ Len(RotateWrites(pw, salt, id)) = 2
<1>1. /\ <<"salt", salt>> \in Puts /\ <<"recovery", id>> \in Puts
      /\ <<"token", id>> \in Puts /\ <<"keystore", id>> \in Puts
      /\ <<"wrapped", Wrapped(pw, salt, id)>> \in Puts
  BY DEF Puts, Boxes, Wrapped
<1> QED
  BY <1>1 DEF CreateWrites, RotateWrites

(* A flow that has what it will write, a new salt and perhaps a new identity *)
(* generated, but put nothing yet.                                           *)
LEMMA WriteBegins ==
    ASSUME IInv, NEW t \in Tasks, NEW r \in Flow,
           job[t] \in Flow, job[t].step \in {"create", "phrase"},
           r.op = job[t].op, r.pw = job[t].pw, r.waited = job[t].waited,
           r.step = "write",
           gen' = [ids |-> IF r.op = "register" THEN gen.ids + 1 ELSE gen.ids,
                   salts |-> gen.salts + 1],
           \/ /\ r.op = "register" /\ r.id = gen.ids + 1 /\ disk.keystore = 0
              /\ r.writes = CreateWrites(r.pw, gen.salts + 1, r.id)
              /\ job[t].step = "create"
           \/ /\ r.op = "recover" /\ r.id = job[t].id /\ OpensWithPhrase(r.id)
              /\ r.writes = RotateWrites(r.pw, gen.salts + 1, r.id),
           job' = [job EXCEPT ![t] = r],
           disk' = [disk EXCEPT !.db = TRUE],
           UNCHANGED <<account, session, ui, past, keychain, flows, faults>>
    PROVE  IInv'
<1> USE VaultAssumption DEF IInv, Idle, Disk, Screen, Past
<1>1. job'[t] = r /\ \A u \in Tasks \ {t} : job'[u] = job[u]
  BY DEF Typed
<1>2. /\ disk'.keystore = disk.keystore /\ disk'.wrapped = disk.wrapped
      /\ disk'.recovery = disk.recovery /\ disk'.token = disk.token
      /\ disk'.salt = disk.salt /\ disk'.db
  BY DEF Typed
<1>3. /\ r # Idle /\ job[t] # Idle /\ r.id \in Nat /\ r.pw \in Passwords
      /\ gen.ids \in Nat /\ gen.salts \in Nat /\ gen'.salts = gen.salts + 1
      /\ gen'.ids \in {gen.ids, gen.ids + 1}
      /\ flows > 0 /\ r.id \in 1..gen'.ids
      /\ r.op = "register" => gen'.ids = gen.ids + 1
      /\ r.op = "recover" => gen'.ids = gen.ids
  <2>1. r # Idle /\ job[t] # Idle /\ r.id \in Nat /\ r.pw \in Passwords
    BY DEF Flow
  <2>2. /\ gen.ids \in Nat /\ gen.salts \in Nat /\ flows > 0
        /\ job[t].id \in 0..gen.ids
    BY <2>1 DEF Typed, JobsOK
  <2>3. CASE r.op = "register"
    BY <2>1, <2>2, <2>3
  <2>4. CASE r.op # "register"
    BY <2>1, <2>2, <2>4 DEF OpensWithPhrase
  <2> QED
    BY <2>1, <2>2, <2>3, <2>4
<1>4. Typed'
  <2>1. disk' \in Disk
    BY DEF Typed
  <2>3. gen' \in [ids : Nat, salts : Nat]
    BY <1>3
  <2>2. job' \in [Tasks -> Flow \cup {Idle}]
    BY DEF Typed
  <2> QED
    BY <2>1, <2>2, <2>3 DEF Typed
<1>5. TypeOK'
  <2>1. disk \in [db : BOOLEAN, salt : 0..gen'.salts, recovery : Rows', token : Rows',
                  keystore : Rows',
                  wrapped : [pw : Passwords \cup {Null}, salt : 0..gen'.salts, id : Rows']]
    BY <1>3 DEF TypeOK, Rows
  <2>2. disk' \in [db : BOOLEAN, salt : 0..gen'.salts, recovery : Rows', token : Rows',
                  keystore : Rows',
                  wrapped : [pw : Passwords \cup {Null}, salt : 0..gen'.salts, id : Rows']]
    BY <2>1
  <2>3. ui'.rbusy # Null => job'[ui'.rbusy].op = "recover" /\ job'[ui'.rbusy].waited
    BY <1>1 DEF Typed, TypeOK
  <2>4. r.writes # <<>>
    BY <1>3 DEF CreateWrites, RotateWrites
  <2>5. \A u \in Tasks : job'[u].step = "write" => job'[u].writes # <<>> /\ job'[u].id # 0
    BY <1>1, <1>3, <2>4 DEF TypeOK
  <2>6. account' \in Rows' \cup {Foreign} /\ past'.shown \subseteq 1..gen'.ids
    BY <1>3 DEF TypeOK, Rows
  <2> QED
    BY <1>3, <2>2, <2>3, <2>5, <2>6 DEF TypeOK, Typed
<1>6. JobsOK'
  BY <1>1, <1>2, <1>3 DEF JobsOK, Online
<1>7. WritersOK'
  <2>1. PICK salt \in Nat : salt = gen.salts + 1
    BY <1>3
  <2>2. Writer(t)'
    <3> DEFINE c == CreateWrites(r.pw, salt, r.id)
               w == RotateWrites(r.pw, salt, r.id)
    <3>1. salt \in 1..gen'.salts /\ 1 \in 1..5 /\ 1 \in 1..2
      BY <1>3, <2>1
    <3>2. c \in Seq(Puts) /\ Len(c) = 5 /\ w \in Seq(Puts) /\ Len(w) = 2
      BY <1>3, WritesAreRows
    <3> HIDE DEF c, w
    <3>3. Left(c, c, 1) /\ Left(w, w, 1)
      BY <3>2, LeftAll
    <3>4. r.op = "register" => CreateLeft(t, salt, 1)'
      BY <1>1, <2>1, <3>3 DEF CreateLeft, c
    <3>5. r.op = "recover" => RotateLeft(t, salt, 1)'
      BY <1>1, <2>1, <3>3 DEF RotateLeft, w
    <3>6. r.op = "register" => disk'.keystore = 0
      BY <1>2
    <3> QED
      BY <1>1, <3>1, <3>4, <3>5, <3>6 DEF Writer
  <2>3. \A u \in Tasks : job'[u].step = "write" => job'[u] = job[u] \/ Writer(u)'
    BY <1>1, <2>2
  <2>4. gen'.ids = 1 => gen.ids = 1 \/ \A u \in Tasks : job[u].step # "write"
    BY <1>3 DEF StoreOK
  <2>5. Typed /\ WritersOK /\ gen'.salts >= gen.salts /\ past' = past
    BY <1>3
  <2> HIDE DEF IInv, Idle, Disk, Screen, Past
  <2> QED
    BY <1>4, <2>3, <2>4, <2>5, WritersFrame
<1>8. CreatorsDiffer'
  <2>1. \A u \in Tasks \ {t} : job'[u].step = "write" => job'[u].id <= gen.ids
    BY <1>1, <1>3 DEF JobsOK
  <2>2. r.op = "register" => ~(r.id <= gen.ids)
    BY <1>3
  <2> QED
    BY <1>1, <2>1, <2>2 DEF CreatorsDiffer
<1>9. StoreOK'
  <2>1. CASE r.op = "register"
    <3>1. gen'.ids = 1 => /\ gen.ids = 0 /\ disk'.keystore = 0 /\ account' # 1
                          /\ \A u \in Tasks \ {t} : job'[u].step \notin Online \cup {"write"}
      <4>1. Foreign # 1
        BY <1>3 DEF Foreign, Typed
      <4> QED
        BY <1>1, <1>2, <1>3, <2>1, <4>1 DEF StoreOK
    <3> QED
      BY <1>1, <1>3, <2>1, <3>1 DEF StoreOK, Online
  <2>2. CASE r.op = "recover"
    <3>1. disk.keystore # 0 /\ gen'.ids = gen.ids
      BY <1>3, <2>2 DEF OpensWithPhrase
    <3>2. gen.ids # 0 /\ (gen.ids = 1 => Complete(1))
      BY <3>1 DEF StoreOK
    <3> QED
      BY <1>1, <1>2, <3>1, <3>2 DEF StoreOK, Complete, Online
  <2> QED
    BY <2>1, <2>2
<1>10. OneAtATime'
  BY <1>1, <1>3 DEF OneAtATime, Running, JobsOK
<1>11. FlowOK'
  BY <1>1, <1>2 DEF FlowOK, Opens, Online
<1>12. ShownOK'
  BY <1>1, <1>2, <1>3 DEF ShownOK, Opens, OneAtATime, Running
<1>13. PasswordUnlocks'
  BY <1>1 DEF PasswordUnlocks
<1>14. MainIsLoggedIn'
  BY <1>3 DEF MainIsLoggedIn, OneAtATime, Running
<1>15. RememberedUnlocks'
  BY <1>2 DEF RememberedUnlocks, Opens
<1> QED
  BY <1>4, <1>5, <1>6, <1>7, <1>8, <1>9, <1>10, <1>11, <1>12, <1>13, <1>14, <1>15

LEMMA CreateIdentityStep ==
    ASSUME IInv, NEW t \in Tasks, CreateIdentity(t)
    PROVE  IInv'
<1>1. /\ job[t] \in Flow /\ job[t] # Idle /\ job[t].step = "create"
      /\ disk' = [disk EXCEPT !.db = TRUE] /\ account' = account /\ session' = session
      /\ keychain' = keychain /\ flows' = flows /\ faults' = faults
      /\ gen.ids \in Nat /\ gen.salts \in Nat /\ job[t].op = "register"
  BY InFlow DEF IInv, CreateIdentity, Typed, JobsOK
<1>2. CASE disk.keystore # 0
  BY <1>1, <1>2, ThrowStep DEF CreateIdentity
<1>3. CASE disk.keystore = 0
  <2> DEFINE id == gen.ids + 1
             salt == gen.salts + 1
             r == [job[t] EXCEPT !.step = "write", !.id = id,
                                 !.writes = CreateWrites(job[t].pw, salt, id)]
  <2>1. CreateWrites(job[t].pw, salt, id) \in Seq(Puts)
    <3>1. job[t].pw \in Passwords /\ salt \in Nat /\ id \in Nat
      BY <1>1 DEF Flow
    <3> QED
      BY <3>1, WritesAreRows
  <2>2. /\ r.op = job[t].op /\ r.pw = job[t].pw /\ r.step = "write"
        /\ r.waited = job[t].waited /\ r.id = gen.ids + 1
        /\ r.writes = CreateWrites(r.pw, gen.salts + 1, r.id)
    BY <1>1 DEF Flow
  <2>4. r \in Flow
    <3>1. id \in Nat
      BY <1>1
    <3> HIDE DEF id, salt
    <3> QED
      BY <1>1, <2>1, <3>1 DEF Flow
  <2>3. /\ gen' = [ids |-> gen.ids + 1, salts |-> gen.salts + 1]
        /\ job' = [job EXCEPT ![t] = r] /\ UNCHANGED <<ui, past>>
    BY <1>3 DEF CreateIdentity
  <2> HIDE DEF r, id, salt
  <2> QED
    BY <1>1, <1>3, <2>2, <2>3, <2>4, WriteBegins
<1> QED
  BY <1>2, <1>3

LEMMA UnlockWithRecoveryStep ==
    ASSUME IInv, NEW t \in Tasks, UnlockWithRecovery(t)
    PROVE  IInv'
<1>1. /\ job[t] \in Flow /\ job[t] # Idle /\ job[t].step = "phrase"
      /\ disk' = [disk EXCEPT !.db = TRUE] /\ account' = account /\ session' = session
      /\ keychain' = keychain /\ flows' = flows /\ faults' = faults
      /\ gen \in [ids : Nat, salts : Nat] /\ job[t].op = "recover"
  BY InFlow DEF IInv, UnlockWithRecovery, Typed, JobsOK
<1>2. CASE ~OpensWithPhrase(job[t].id)
  BY <1>1, <1>2, ThrowStep DEF UnlockWithRecovery
<1>3. CASE OpensWithPhrase(job[t].id)
  <2> DEFINE salt == gen.salts + 1
             r == [job[t] EXCEPT !.step = "write",
                                 !.writes = RotateWrites(job[t].pw, salt, job[t].id)]
  <2>1. RotateWrites(job[t].pw, salt, job[t].id) \in Seq(Puts)
    <3>1. job[t].pw \in Passwords /\ salt \in Nat /\ job[t].id \in Nat
      BY <1>1 DEF Flow
    <3> QED
      BY <3>1, WritesAreRows
  <2>2. /\ r \in Flow /\ r.op = job[t].op /\ r.pw = job[t].pw /\ r.step = "write"
        /\ r.waited = job[t].waited /\ r.id = job[t].id
        /\ r.writes = RotateWrites(r.pw, gen.salts + 1, r.id)
    BY <1>1, <2>1 DEF Flow
  <2>3. /\ gen' = [ids |-> gen.ids, salts |-> gen.salts + 1]
        /\ job' = [job EXCEPT ![t] = r] /\ UNCHANGED <<ui, past>>
    BY <1>1, <1>3 DEF UnlockWithRecovery
  <2> HIDE DEF r, salt
  <2> QED
    BY <1>1, <1>3, <2>2, <2>3, WriteBegins
<1> QED
  BY <1>2, <1>3

(* What the puts of a creation and of a rotation change.                     *)
LEMMA CreatePut ==
    ASSUME IInv, NEW t \in Tasks, SaveMeta(t), job[t].op = "register",
           NEW s \in Nat, NEW n \in 1..5, CreateLeft(t, s, n)
    PROVE  /\ Left(Tail(job[t].writes), CreateWrites(job[t].pw, s, job[t].id), n + 1)
           /\ Tail(job[t].writes) = <<>> <=> n = 5
           /\ Tail(job[t].writes) \in Seq(Puts)
           /\ disk' \in Disk /\ disk'.db = disk.db
           /\ disk'.salt = IF n = 1 THEN s ELSE disk.salt
           /\ disk'.wrapped = IF n = 2 THEN Wrapped(job[t].pw, s, job[t].id)
                                       ELSE disk.wrapped
           /\ disk'.recovery = IF n = 3 THEN job[t].id ELSE disk.recovery
           /\ disk'.token = IF n = 4 THEN job[t].id ELSE disk.token
           /\ disk'.keystore = IF n = 5 THEN job[t].id ELSE disk.keystore
<1> DEFINE c == CreateWrites(job[t].pw, s, job[t].id)
<1>1. job[t].pw \in Passwords /\ job[t].id \in Nat /\ disk \in Disk
  BY InFlow DEF IInv, SaveMeta, Typed, Flow
<1>2. c \in Seq(Puts) /\ Len(c) = 5
  BY <1>1, WritesAreRows
<1>3. /\ c[1] = <<"salt", s>> /\ c[2] = <<"wrapped", Wrapped(job[t].pw, s, job[t].id)>>
      /\ c[3] = <<"recovery", job[t].id>> /\ c[4] = <<"token", job[t].id>>
      /\ c[5] = <<"keystore", job[t].id>>
  BY DEF CreateWrites
<1>4. Left(job[t].writes, c, n) /\ job[t].writes \in Seq(Puts)
  BY InFlow DEF IInv, SaveMeta, Flow, CreateLeft
<1> HIDE DEF c
<1>5. /\ Head(job[t].writes) = c[n] /\ Tail(job[t].writes) \in Seq(Puts)
      /\ Left(Tail(job[t].writes), c, n + 1)
      /\ Tail(job[t].writes) = <<>> <=> n = 5
  <2>1. n \in 1..Len(c)
    BY <1>2
  <2>2. /\ Head(job[t].writes) = c[n] /\ Tail(job[t].writes) \in Seq(Puts)
        /\ Left(Tail(job[t].writes), c, n + 1)
        /\ Tail(job[t].writes) = <<>> <=> n = Len(c)
    BY <1>2, <1>4, <2>1, LeftRows
  <2>3. n = Len(c) <=> n = 5
    BY <1>2
  <2> QED
    BY <2>2, <2>3
<1>6. disk' = [disk EXCEPT ![c[n][1]] = c[n][2]]
  BY <1>5 DEF SaveMeta
<1>8. Wrapped(job[t].pw, s, job[t].id) \in Boxes
  BY <1>1 DEF Wrapped, Boxes
<1>9. CASE n = 1
  <2>1. disk' = [disk EXCEPT !.salt = s]
    <3>1. c[n][1] = "salt" /\ c[n][2] = s
      BY <1>3, <1>9
    <3> QED
      BY <1>6, <3>1
  <2>2. disk' \in Disk
    BY <1>1, <1>8, <2>1 DEF Disk
  <2>3. /\ disk'.salt = s /\ disk'.db = disk.db
        /\ disk'.wrapped = disk.wrapped
        /\ disk'.recovery = disk.recovery
        /\ disk'.token = disk.token
        /\ disk'.keystore = disk.keystore
    BY <1>1, <2>1 DEF Disk
  <2> QED
    BY <1>5, <1>9, <2>2, <2>3 DEF c
<1>10. CASE n = 2
  <2>1. disk' = [disk EXCEPT !.wrapped = Wrapped(job[t].pw, s, job[t].id)]
    <3>1. c[n][1] = "wrapped" /\ c[n][2] = Wrapped(job[t].pw, s, job[t].id)
      BY <1>3, <1>10
    <3> QED
      BY <1>6, <3>1
  <2>2. disk' \in Disk
    BY <1>1, <1>8, <2>1 DEF Disk
  <2>3. /\ disk'.wrapped = Wrapped(job[t].pw, s, job[t].id) /\ disk'.db = disk.db
        /\ disk'.salt = disk.salt
        /\ disk'.recovery = disk.recovery
        /\ disk'.token = disk.token
        /\ disk'.keystore = disk.keystore
    BY <1>1, <2>1 DEF Disk
  <2> QED
    BY <1>5, <1>10, <2>2, <2>3 DEF c
<1>11. CASE n = 3
  <2>1. disk' = [disk EXCEPT !.recovery = job[t].id]
    <3>1. c[n][1] = "recovery" /\ c[n][2] = job[t].id
      BY <1>3, <1>11
    <3> QED
      BY <1>6, <3>1
  <2>2. disk' \in Disk
    BY <1>1, <1>8, <2>1 DEF Disk
  <2>3. /\ disk'.recovery = job[t].id /\ disk'.db = disk.db
        /\ disk'.salt = disk.salt
        /\ disk'.wrapped = disk.wrapped
        /\ disk'.token = disk.token
        /\ disk'.keystore = disk.keystore
    BY <1>1, <2>1 DEF Disk
  <2> QED
    BY <1>5, <1>11, <2>2, <2>3 DEF c
<1>12. CASE n = 4
  <2>1. disk' = [disk EXCEPT !.token = job[t].id]
    <3>1. c[n][1] = "token" /\ c[n][2] = job[t].id
      BY <1>3, <1>12
    <3> QED
      BY <1>6, <3>1
  <2>2. disk' \in Disk
    BY <1>1, <1>8, <2>1 DEF Disk
  <2>3. /\ disk'.token = job[t].id /\ disk'.db = disk.db
        /\ disk'.salt = disk.salt
        /\ disk'.wrapped = disk.wrapped
        /\ disk'.recovery = disk.recovery
        /\ disk'.keystore = disk.keystore
    BY <1>1, <2>1 DEF Disk
  <2> QED
    BY <1>5, <1>12, <2>2, <2>3 DEF c
<1>13. CASE n = 5
  <2>1. disk' = [disk EXCEPT !.keystore = job[t].id]
    <3>1. c[n][1] = "keystore" /\ c[n][2] = job[t].id
      BY <1>3, <1>13
    <3> QED
      BY <1>6, <3>1
  <2>2. disk' \in Disk
    BY <1>1, <1>8, <2>1 DEF Disk
  <2>3. /\ disk'.keystore = job[t].id /\ disk'.db = disk.db
        /\ disk'.salt = disk.salt
        /\ disk'.wrapped = disk.wrapped
        /\ disk'.recovery = disk.recovery
        /\ disk'.token = disk.token
    BY <1>1, <2>1 DEF Disk
  <2> QED
    BY <1>5, <1>13, <2>2, <2>3 DEF c
<1> QED
  BY <1>9, <1>10, <1>11, <1>12, <1>13

LEMMA RotatePut ==
    ASSUME IInv, NEW t \in Tasks, SaveMeta(t), job[t].op = "recover",
           NEW s \in Nat, NEW n \in 1..2, RotateLeft(t, s, n)
    PROVE  /\ Left(Tail(job[t].writes), RotateWrites(job[t].pw, s, job[t].id), n + 1)
           /\ Tail(job[t].writes) = <<>> <=> n = 2
           /\ Tail(job[t].writes) \in Seq(Puts)
           /\ disk' \in Disk /\ disk'.db = disk.db
           /\ disk'.salt = IF n = 1 THEN s ELSE disk.salt
           /\ disk'.wrapped = IF n = 2 THEN Wrapped(job[t].pw, s, job[t].id)
                                       ELSE disk.wrapped
           /\ disk'.recovery = disk.recovery /\ disk'.token = disk.token
           /\ disk'.keystore = disk.keystore
<1> DEFINE w == RotateWrites(job[t].pw, s, job[t].id)
<1>1. job[t].pw \in Passwords /\ job[t].id \in Nat /\ disk \in Disk
  BY InFlow DEF IInv, SaveMeta, Typed, Flow
<1>2. w \in Seq(Puts) /\ Len(w) = 2
  BY <1>1, WritesAreRows
<1>3. w[1] = <<"salt", s>> /\ w[2] = <<"wrapped", Wrapped(job[t].pw, s, job[t].id)>>
  BY DEF RotateWrites
<1>4. Left(job[t].writes, w, n) /\ job[t].writes \in Seq(Puts)
  BY InFlow DEF IInv, SaveMeta, Flow, RotateLeft
<1> HIDE DEF w
<1>5. /\ Head(job[t].writes) = w[n] /\ Tail(job[t].writes) \in Seq(Puts)
      /\ Left(Tail(job[t].writes), w, n + 1)
      /\ Tail(job[t].writes) = <<>> <=> n = 2
  <2>1. n \in 1..Len(w)
    BY <1>2
  <2>2. /\ Head(job[t].writes) = w[n] /\ Tail(job[t].writes) \in Seq(Puts)
        /\ Left(Tail(job[t].writes), w, n + 1)
        /\ Tail(job[t].writes) = <<>> <=> n = Len(w)
    BY <1>2, <1>4, <2>1, LeftRows
  <2>3. n = Len(w) <=> n = 2
    BY <1>2
  <2> QED
    BY <2>2, <2>3
<1>6. disk' = [disk EXCEPT ![w[n][1]] = w[n][2]]
  BY <1>5 DEF SaveMeta
<1>8. Wrapped(job[t].pw, s, job[t].id) \in Boxes
  BY <1>1 DEF Wrapped, Boxes
<1>9. CASE n = 1
  <2>1. disk' = [disk EXCEPT !.salt = s]
    <3>1. w[n][1] = "salt" /\ w[n][2] = s
      BY <1>3, <1>9
    <3> QED
      BY <1>6, <3>1
  <2>2. disk' \in Disk
    BY <1>1, <1>8, <2>1 DEF Disk
  <2>3. /\ disk'.salt = s /\ disk'.db = disk.db
        /\ disk'.wrapped = disk.wrapped
        /\ disk'.recovery = disk.recovery
        /\ disk'.token = disk.token
        /\ disk'.keystore = disk.keystore
    BY <1>1, <2>1 DEF Disk
  <2> QED
    BY <1>5, <1>9, <2>2, <2>3 DEF w
<1>10. CASE n = 2
  <2>1. disk' = [disk EXCEPT !.wrapped = Wrapped(job[t].pw, s, job[t].id)]
    <3>1. w[n][1] = "wrapped" /\ w[n][2] = Wrapped(job[t].pw, s, job[t].id)
      BY <1>3, <1>10
    <3> QED
      BY <1>6, <3>1
  <2>2. disk' \in Disk
    BY <1>1, <1>8, <2>1 DEF Disk
  <2>3. /\ disk'.wrapped = Wrapped(job[t].pw, s, job[t].id) /\ disk'.db = disk.db
        /\ disk'.salt = disk.salt
        /\ disk'.recovery = disk.recovery
        /\ disk'.token = disk.token
        /\ disk'.keystore = disk.keystore
    BY <1>1, <2>1 DEF Disk
  <2> QED
    BY <1>5, <1>10, <2>2, <2>3 DEF w
<1> QED
  BY <1>9, <1>10

(* What a put leaves on the disk, and of the flow.                           *)
LEMMA PutEffect ==
    ASSUME IInv, NEW t \in Tasks, SaveMeta(t)
    PROVE  /\ job[t] \in Flow /\ Tail(job[t].writes) \in Seq(Puts)
           /\ disk' \in Disk /\ disk'.db = disk.db
           /\ disk'.salt \in 0..gen.salts /\ disk'.recovery \in Rows
           /\ disk'.token \in Rows /\ disk'.keystore \in Rows
           /\ disk'.wrapped \in [pw : Passwords \cup {Null}, salt : 0..gen.salts, id : Rows]
           /\ Tail(job[t].writes) # <<>> => Writer(t)'
           /\ disk'.keystore = disk.keystore \/ job[t].op = "register"
           /\ gen.ids = 1 =>
                 /\ disk'.keystore # 0 => Complete(1)'
                 /\ Complete(1) => Complete(1)'
                 /\ Tail(job[t].writes) = <<>> \/ job[t].op = "recover" => Complete(1)'
                 /\ job[t].op = "register" => disk.keystore = 0
           /\ Tail(job[t].writes) = <<>> /\ ~past.overlapped => Opens(job[t].pw, disk.salt)'
<1>1. /\ job[t] \in Flow /\ job[t].step = "write" /\ job[t] # Idle /\ Writer(t)
      /\ job[t].op \in {"register", "recover"} /\ job[t].pw \in Passwords
      /\ job[t].id \in 1..gen.ids /\ gen.ids \in Nat /\ gen.salts \in Nat
  <2>1. job[t] \in Flow /\ job[t].step = "write" /\ job[t] # Idle
    BY InFlow DEF IInv, SaveMeta
  <2>2. job[t].op \in {"register", "recover"} /\ job[t].id \in 0..gen.ids /\ job[t].id # 0
    BY <2>1 DEF IInv, JobsOK
  <2>3. gen.ids \in Nat /\ gen.salts \in Nat
    BY DEF IInv, Typed
  <2> QED
    BY <2>1, <2>2, <2>3 DEF IInv, WritersOK, Flow
<1>2. /\ disk.salt \in 0..gen.salts /\ disk.recovery \in Rows /\ disk.token \in Rows
      /\ disk.keystore \in Rows
      /\ disk.wrapped \in [pw : Passwords \cup {Null}, salt : 0..gen.salts, id : Rows]
      /\ gen' = gen /\ past'.overlapped = past.overlapped
  BY DEF IInv, TypeOK, SaveMeta, Typed, Past
<1>3. /\ job'[t].writes = Tail(job[t].writes)
      /\ job'[t].op = job[t].op /\ job'[t].pw = job[t].pw /\ job'[t].id = job[t].id
  BY <1>1 DEF IInv, Typed, SaveMeta, Flow
<1>4. ~past.overlapped => gen.ids = 1
  BY <1>1 DEF IInv, OneAtATime
<1>5. CASE job[t].op = "register"
  <2>1. PICK s \in 1..gen.salts, n \in 1..5 :
          /\ CreateLeft(t, s, n)
          /\ gen.ids = 1 => /\ disk.keystore = 0
                            /\ n > 2 => disk.wrapped.id = 1
                            /\ n > 3 => disk.recovery = 1
                            /\ n > 4 => disk.token = 1
          /\ ~past.overlapped =>
                /\ n > 1 => disk.salt = s
                /\ n > 2 => disk.wrapped = Wrapped(job[t].pw, s, job[t].id)
    BY <1>1, <1>5 DEF Writer
  <2>2. s \in Nat
    BY <1>1
  <2>3. /\ Left(Tail(job[t].writes), CreateWrites(job[t].pw, s, job[t].id), n + 1)
        /\ Tail(job[t].writes) = <<>> <=> n = 5
        /\ Tail(job[t].writes) \in Seq(Puts)
        /\ disk' \in Disk /\ disk'.db = disk.db
        /\ disk'.salt = IF n = 1 THEN s ELSE disk.salt
        /\ disk'.wrapped = IF n = 2 THEN Wrapped(job[t].pw, s, job[t].id)
                                    ELSE disk.wrapped
        /\ disk'.recovery = IF n = 3 THEN job[t].id ELSE disk.recovery
        /\ disk'.token = IF n = 4 THEN job[t].id ELSE disk.token
        /\ disk'.keystore = IF n = 5 THEN job[t].id ELSE disk.keystore
    BY <1>5, <2>1, <2>2, CreatePut
  <2>4. /\ disk'.salt \in 0..gen.salts /\ disk'.recovery \in Rows
        /\ disk'.token \in Rows /\ disk'.keystore \in Rows
        /\ disk'.wrapped \in [pw : Passwords \cup {Null}, salt : 0..gen.salts, id : Rows]
    BY <1>1, <1>2, <2>3 DEF Rows, Wrapped
  <2>5. gen.ids = 1 => job[t].id = 1
    BY <1>1
  <2>6. Tail(job[t].writes) # <<>> => Writer(t)'
    <3> SUFFICES ASSUME Tail(job[t].writes) # <<>>
                 PROVE  Writer(t)'
      OBVIOUS
    <3>1. n + 1 \in 1..5 /\ s \in 1..gen'.salts /\ n # 5
      BY <1>2, <2>3
    <3>2. CreateLeft(t, s, n + 1)'
      BY <1>3, <2>3 DEF CreateLeft
    <3>3. gen'.ids = 1 => /\ disk'.keystore = 0
                          /\ n + 1 > 2 => disk'.wrapped.id = 1
                          /\ n + 1 > 3 => disk'.recovery = 1
                          /\ n + 1 > 4 => disk'.token = 1
      BY <1>2, <2>1, <2>3, <2>5, <3>1 DEF Wrapped
    <3>4. ~past'.overlapped =>
                /\ n + 1 > 1 => disk'.salt = s
                /\ n + 1 > 2 => disk'.wrapped = Wrapped(job'[t].pw, s, job'[t].id)
      BY <1>2, <1>3, <2>1, <2>3, <3>1
    <3>5. PICK m \in 1..5 : m = n + 1
      BY <3>1
    <3> QED
      BY <1>3, <1>5, <3>1, <3>2, <3>3, <3>4, <3>5 DEF Writer
  <2>7. gen.ids = 1 =>
           /\ disk'.keystore # 0 => Complete(1)'
           /\ Complete(1) => Complete(1)'
           /\ Tail(job[t].writes) = <<>> => Complete(1)'
    BY <2>1, <2>3, <2>5 DEF Complete
  <2>8. Tail(job[t].writes) = <<>> /\ ~past.overlapped => Opens(job[t].pw, disk.salt)'
    BY <1>1, <1>3, <1>4, <2>1, <2>3, <2>5 DEF Opens, Wrapped
  <2> QED
    BY <1>1, <1>5, <2>1, <2>3, <2>4, <2>6, <2>7, <2>8
<1>6. CASE job[t].op = "recover"
  <2>1. PICK s \in 1..gen.salts, n \in 1..2 :
          RotateLeft(t, s, n) /\ (~past.overlapped => (n > 1 => disk.salt = s))
    BY <1>1, <1>6 DEF Writer
  <2>2. s \in Nat
    BY <1>1
  <2>3. /\ Left(Tail(job[t].writes), RotateWrites(job[t].pw, s, job[t].id), n + 1)
        /\ Tail(job[t].writes) = <<>> <=> n = 2
        /\ Tail(job[t].writes) \in Seq(Puts)
        /\ disk' \in Disk /\ disk'.db = disk.db
        /\ disk'.salt = IF n = 1 THEN s ELSE disk.salt
        /\ disk'.wrapped = IF n = 2 THEN Wrapped(job[t].pw, s, job[t].id)
                                    ELSE disk.wrapped
        /\ disk'.recovery = disk.recovery /\ disk'.token = disk.token
        /\ disk'.keystore = disk.keystore
    BY <1>6, <2>1, <2>2, RotatePut
  <2>4. /\ disk'.salt \in 0..gen.salts
        /\ disk'.wrapped \in [pw : Passwords \cup {Null}, salt : 0..gen.salts, id : Rows]
    BY <1>1, <1>2, <2>3 DEF Rows, Wrapped
  <2>5. gen.ids = 1 => job[t].id = 1 /\ Complete(1)
    BY <1>1, <1>6 DEF IInv, StoreOK
  <2>6. Tail(job[t].writes) # <<>> => Writer(t)'
    <3> SUFFICES ASSUME Tail(job[t].writes) # <<>>
                 PROVE  Writer(t)'
      OBVIOUS
    <3>1. n = 1 /\ 2 \in 1..2 /\ s \in 1..gen'.salts
      BY <1>2, <2>3
    <3>2. RotateLeft(t, s, 2)'
      BY <1>3, <2>3, <3>1 DEF RotateLeft
    <3> QED
      BY <1>2, <1>3, <1>6, <2>3, <3>1, <3>2 DEF Writer
  <2>7. gen.ids = 1 => Complete(1)'
    BY <2>3, <2>5 DEF Complete, Wrapped
  <2>8. Tail(job[t].writes) = <<>> /\ ~past.overlapped => Opens(job[t].pw, disk.salt)'
    BY <1>1, <1>3, <1>4, <2>1, <2>3, <2>5 DEF Opens, Wrapped, Complete
  <2> QED
    BY <1>1, <1>2, <1>6, <2>3, <2>4, <2>6, <2>7, <2>8
<1> QED
  BY <1>1, <1>5, <1>6

LEMMA SaveMetaStep ==
    ASSUME IInv, NEW t \in Tasks, SaveMeta(t)
    PROVE  IInv'
<1> DEFINE rest == Tail(job[t].writes)
           r == [job[t] EXCEPT !.writes = rest,
                               !.step = IF rest = <<>> THEN "connect" ELSE "write"]
<1>1. /\ job[t] \in Flow /\ rest \in Seq(Puts)
      /\ disk' \in Disk /\ disk'.db = disk.db
      /\ disk'.salt \in 0..gen.salts /\ disk'.recovery \in Rows
      /\ disk'.token \in Rows /\ disk'.keystore \in Rows
      /\ disk'.wrapped \in [pw : Passwords \cup {Null}, salt : 0..gen.salts, id : Rows]
      /\ rest # <<>> => Writer(t)'
      /\ disk'.keystore = disk.keystore \/ job[t].op = "register"
      /\ gen.ids = 1 =>
            /\ disk'.keystore # 0 => Complete(1)'
            /\ Complete(1) => Complete(1)'
            /\ rest = <<>> \/ job[t].op = "recover" => Complete(1)'
            /\ job[t].op = "register" => disk.keystore = 0
      /\ rest = <<>> /\ ~past.overlapped => Opens(job[t].pw, disk.salt)'
  BY PutEffect
<1>2. /\ job[t].step = "write" /\ job' = [job EXCEPT ![t] = r]
      /\ past' = [past EXCEPT !.current = IF rest = <<>> THEN job[t].pw ELSE @,
                              !.recovered = @ \/ job[t].op = "recover"]
      /\ UNCHANGED <<account, session, ui, keychain, gen, flows, faults>>
  BY DEF SaveMeta
<1> HIDE DEF rest
<1>3. /\ r \in Flow /\ r.op = job[t].op /\ r.pw = job[t].pw /\ r.id = job[t].id
      /\ r.waited = job[t].waited /\ r.salt = job[t].salt /\ r # Idle /\ job[t] # Idle
      /\ r.writes = rest /\ r.step = IF rest = <<>> THEN "connect" ELSE "write"
      /\ job[t].pw \in Passwords /\ job[t].id \in Nat
  <2>1. rest = <<>> \/ rest # <<>>
    OBVIOUS
  <2>2. (IF rest = <<>> THEN "connect" ELSE "write") \in {"connect", "write"}
    BY <2>1
  <2>3. /\ r.op = job[t].op /\ r.pw = job[t].pw /\ r.id = job[t].id
        /\ r.waited = job[t].waited /\ r.salt = job[t].salt
        /\ r.writes = rest /\ r.step = IF rest = <<>> THEN "connect" ELSE "write"
    BY <1>1 DEF Flow
  <2>4. r \in Flow
    BY <1>1, <2>2 DEF Flow
  <2> QED
    BY <1>1, <1>2, <2>3, <2>4 DEF Flow, Idle
<1>4. /\ past' \in Past /\ past'.shown = past.shown /\ past'.edited = past.edited
      /\ past'.cut = past.cut /\ past'.stopped = past.stopped
      /\ past'.overlapped = past.overlapped
      /\ past.recovered \/ job[t].op = "recover" => past'.recovered
      /\ rest = <<>> => past'.current = job[t].pw
  BY <1>2, <1>3 DEF IInv, Typed, Past
<1> HIDE DEF r
<1>5. job'[t] = r /\ \A u \in Tasks \ {t} : job'[u] = job[u]
  BY <1>2 DEF IInv, Typed
<1>6. /\ job[t].op \in {"register", "recover"} /\ job[t].id \in 1..gen.ids
      /\ gen.ids \in Nat /\ gen.salts \in Nat
      /\ ~past.overlapped => gen.ids = 1
  <2>1. gen.ids \in Nat /\ gen.salts \in Nat
    BY DEF IInv, Typed
  <2> QED
    BY <1>2, <1>3, <2>1 DEF IInv, JobsOK, OneAtATime, Online
<1> USE <1>1, <1>2, <1>3, <1>4, <1>5, <1>6 DEF IInv
<1>7. Typed'
  BY DEF Typed
<1>8. TypeOK'
  <2>1. disk' \in [db : BOOLEAN, salt : 0..gen.salts, recovery : Rows, token : Rows,
                  keystore : Rows,
                  wrapped : [pw : Passwords \cup {Null}, salt : 0..gen.salts, id : Rows]]
    BY DEF Disk
  <2>2. ui'.rbusy # Null => job'[ui'.rbusy].op = "recover" /\ job'[ui'.rbusy].waited
    BY DEF Typed, TypeOK, Screen
  <2>3. \A u \in Tasks : job'[u].step = "write" => job'[u].writes # <<>> /\ job'[u].id # 0
    BY DEF TypeOK
  <2> QED
    BY <2>1, <2>2, <2>3 DEF TypeOK, Rows
<1>9. JobsOK'
  BY DEF JobsOK, Online
<1>10. WritersOK'
  <2> SUFFICES ASSUME NEW u \in Tasks, job'[u].step = "write", u # t
               PROVE  Writer(u)'
    BY DEF WritersOK
  <2>1. job'[u] = job[u] /\ job[u].step = "write" /\ Writer(u) /\ job[u] # Idle
    BY DEF WritersOK, Idle
  <2>2. past'.overlapped
    BY <2>1 DEF OneAtATime
  <2>3. gen.ids = 1 => job[u].op # "register"
    <3>1. gen.ids = 1 /\ job[u].op = "register" => disk.keystore = 0
      BY <2>1 DEF Writer
    <3>2. gen.ids = 1 => job[t].id = 1 /\ job[u].id = 1
      BY <2>1 DEF JobsOK
    <3>3. gen.ids = 1 /\ job[t].op = "recover" => disk.keystore = 1
      BY DEF StoreOK, Complete
    <3>4. gen.ids = 1 /\ job[u].op = "register" => job[t].op # "register"
      BY <2>1, <3>2 DEF CreatorsDiffer
    <3> QED
      BY <3>1, <3>3, <3>4
  <2>4. /\ \A s, n : CreateLeft(u, s, n) => CreateLeft(u, s, n)'
        /\ \A s, n : RotateLeft(u, s, n) => RotateLeft(u, s, n)'
    BY <2>1 DEF CreateLeft, RotateLeft
  <2>5. CASE job[u].op = "register"
    <3>1. PICK s \in 1..gen.salts, n \in 1..5 : CreateLeft(u, s, n)
      BY <2>1, <2>5 DEF Writer
    <3>2. s \in 1..gen'.salts /\ CreateLeft(u, s, n)' /\ gen'.ids # 1
      BY <2>3, <2>4, <2>5, <3>1
    <3> QED
      BY <2>1, <2>2, <2>5, <3>2 DEF Writer
  <2>6. CASE job[u].op = "recover"
    <3>1. PICK s \in 1..gen.salts, n \in 1..2 : RotateLeft(u, s, n)
      BY <2>1, <2>6 DEF Writer
    <3>2. s \in 1..gen'.salts /\ RotateLeft(u, s, n)'
      BY <2>4, <3>1
    <3> QED
      BY <2>1, <2>2, <2>6, <3>2 DEF Writer
  <2> QED
    BY <2>1, <2>5, <2>6 DEF Writer
<1>11. CreatorsDiffer'
  BY DEF CreatorsDiffer
<1>12. StoreOK'
  <2>1. gen.ids # 0
    OBVIOUS
  <2>2. account = 1 /\ gen.ids = 1 => Complete(1)'
    BY DEF StoreOK
  <2>3. \A u \in Tasks : gen.ids = 1
           /\ \/ job'[u].step \in Online
              \/ job'[u].step = "write" /\ job'[u].op = "recover"
           => Complete(1)'
    BY DEF StoreOK, Online
  <2> QED
    BY <2>1, <2>2, <2>3 DEF StoreOK
<1>13. OneAtATime'
  BY DEF OneAtATime, Running
<1>14. FlowOK'
  <2>1. \A u \in Tasks \ {t} : ~past.overlapped => job'[u] = Idle
    BY DEF OneAtATime
  <2>2. rest = <<>> \/ r.step = "write"
    OBVIOUS
  <2> QED
    BY <2>1, <2>2 DEF FlowOK, Online, Idle
<1>15. ShownOK'
  BY DEF ShownOK, OneAtATime, Running
<1>16. PasswordUnlocks'
  BY DEF PasswordUnlocks
<1>17. MainIsLoggedIn'
  BY DEF MainIsLoggedIn, OneAtATime, Running
<1>18. RememberedUnlocks'
  BY DEF RememberedUnlocks, Opens
<1> QED
  BY <1>7, <1>8, <1>9, <1>10, <1>11, <1>12, <1>13, <1>14, <1>15, <1>16, <1>17, <1>18

LEMMA FailStep ==
    ASSUME IInv, NEW t \in Tasks, Fail(t)
    PROVE  IInv'
<1>1. /\ job[t] \in Flow /\ job[t] # Idle
      /\ disk' = disk /\ account' = account /\ keychain' = keychain /\ gen' = gen
      /\ flows' = flows /\ faults' = faults + 1 /\ job' = [job EXCEPT ![t] = Idle]
      /\ session' = IF job[t].step = "connect" THEN [by |-> t, in |-> FALSE] ELSE session
  BY InFlow DEF IInv, Fail
<1>2. /\ ui' \in Screen /\ ui'.screen = ui.screen /\ ui'.pending = ui.pending
      /\ ui'.field = ui.field
      /\ ui'.rbusy \in {ui.rbusy, Null} /\ (ui.rbusy = t => ui'.rbusy = Null)
  <2>1. ui.rbusy = t => job[t].op = "recover"
    BY VaultAssumption DEF IInv, TypeOK
  <2>2. CASE job[t].waited /\ job[t].op # "recover"
    BY <2>1, <2>2 DEF Fail, Freed, IInv, Typed, Screen
  <2>3. CASE ~(job[t].waited /\ job[t].op # "recover") /\ ui.rbusy = t
    BY <2>3 DEF Fail, Freed, IInv, Typed, Screen
  <2>4. CASE ~(job[t].waited /\ job[t].op # "recover") /\ ui.rbusy # t
    BY <2>4 DEF Fail, Freed, IInv, Typed, Screen
  <2> QED
    BY <2>2, <2>3, <2>4
<1>3. /\ past' \in Past /\ past'.current = past.current /\ past'.shown = past.shown
      /\ past'.recovered = past.recovered /\ past'.edited = past.edited
      /\ past'.overlapped = past.overlapped
      /\ past.stopped \/ job[t].op = "register" => past'.stopped
      /\ past.cut \/ job[t].step = "write" => past'.cut
  BY DEF IInv, Typed, Fail, Past
<1>4. job'[t] = Idle /\ \A u \in Tasks \ {t} : job'[u] = job[u]
  BY <1>1 DEF IInv, Typed
<1> USE <1>1, <1>2, <1>3, <1>4 DEF IInv, Idle
<1>5. Typed'
  <2>1. session' \in [by : Tasks \cup {Null}, in : BOOLEAN]
    BY DEF Typed
  <2> QED
    BY <2>1 DEF Typed
<1>6. TypeOK'
  <2>1. ui'.rbusy # Null => job'[ui'.rbusy].op = "recover" /\ job'[ui'.rbusy].waited
    BY DEF Typed, TypeOK, Screen
  <2>2. session'.by \in Tasks \cup {Null} /\ session'.in \in BOOLEAN
    BY <1>5 DEF Typed
  <2>3. \A u \in Tasks : job'[u].step = "write" => job'[u].writes # <<>> /\ job'[u].id # 0
    BY DEF TypeOK
  <2> QED
    BY <2>1, <2>2, <2>3 DEF TypeOK, Rows
<1>7. JobsOK'
  BY DEF JobsOK, Online
<1>8. WritersOK'
  <2>1. \A u \in Tasks : job'[u].step = "write" => job'[u] = job[u]
    OBVIOUS
  <2>2. Typed /\ WritersOK /\ gen'.salts >= gen.salts
    BY DEF Typed
  <2> QED
    BY <1>5, <2>1, <2>2, WritersFrame
<1>9. CreatorsDiffer'
  BY DEF CreatorsDiffer
<1>10. StoreOK'
  BY DEF StoreOK, Complete, Online
<1>11. OneAtATime'
  BY DEF OneAtATime, Running
<1>12. FlowOK'
  <2>1. \A u \in Tasks : ~past.overlapped => job'[u] = Idle
    BY DEF OneAtATime
  <2> QED
    BY <2>1 DEF FlowOK, Online
<1>13. ShownOK'
  BY DEF ShownOK, Opens, OneAtATime, Running
<1>14. PasswordUnlocks'
  BY DEF PasswordUnlocks, Opens
<1>15. MainIsLoggedIn'
  BY DEF MainIsLoggedIn, OneAtATime, Running
<1>16. RememberedUnlocks'
  BY DEF RememberedUnlocks, Opens
<1> QED
  BY <1>5, <1>6, <1>7, <1>8, <1>9, <1>10, <1>11, <1>12, <1>13, <1>14, <1>15, <1>16

LEMMA TimeoutStep ==
    ASSUME IInv, NEW t \in Tasks, Timeout(t)
    PROVE  IInv'
<1> DEFINE r == [job[t] EXCEPT !.waited = FALSE]
<1>1. /\ job[t] \in Flow /\ job[t] # Idle /\ job[t].waited
      /\ disk' = disk /\ account' = account /\ keychain' = keychain /\ gen' = gen
      /\ flows' = flows /\ faults' = faults + 1 /\ job' = [job EXCEPT ![t] = r]
      /\ session' = session
  BY DEF IInv, Timeout, Typed
<1>2. /\ ui' \in Screen /\ ui'.screen = ui.screen /\ ui'.pending = ui.pending
      /\ ui'.field = ui.field
      /\ ui'.rbusy \in {ui.rbusy, Null} /\ (ui.rbusy = t => ui'.rbusy = Null)
  <2>1. ui.rbusy = t => job[t].op = "recover"
    BY VaultAssumption DEF IInv, TypeOK
  <2>2. CASE job[t].op # "recover"
    BY <1>1, <2>1, <2>2 DEF Timeout, Freed, IInv, Typed, Screen
  <2>3. CASE job[t].op = "recover" /\ ui.rbusy = t
    BY <2>3 DEF Timeout, Freed, IInv, Typed, Screen
  <2>4. CASE job[t].op = "recover" /\ ui.rbusy # t
    BY <2>4 DEF Timeout, Freed, IInv, Typed, Screen
  <2> QED
    BY <2>2, <2>3, <2>4
<1>3. /\ past' \in Past /\ past'.current = past.current /\ past'.shown = past.shown
      /\ past'.recovered = past.recovered /\ past'.edited = past.edited
      /\ past'.overlapped = past.overlapped /\ past'.cut = past.cut
      /\ past.stopped \/ job[t].op = "register" => past'.stopped
  BY DEF IInv, Typed, Timeout, Past
<1>4. job'[t] = r /\ \A u \in Tasks \ {t} : job'[u] = job[u]
  BY <1>1 DEF IInv, Typed
<1>5. /\ r \in Flow /\ r.op = job[t].op /\ r.step = job[t].step /\ r.pw = job[t].pw
      /\ r.id = job[t].id /\ r.writes = job[t].writes /\ r.salt = job[t].salt
      /\ r.waited = FALSE /\ r # Idle
  BY <1>1 DEF Flow, Idle
<1>6. \A u \in Tasks : job'[u].step = "write" =>
         job'[u] = job[u] \/ job'[u] = [job[u] EXCEPT !.waited = FALSE]
  BY <1>4
<1> HIDE DEF r
<1> USE <1>1, <1>2, <1>3, <1>4, <1>5 DEF IInv
<1>7. Typed'
  BY DEF Typed
<1>8. TypeOK'
  <2>1. ui'.rbusy # Null => job'[ui'.rbusy].op = "recover" /\ job'[ui'.rbusy].waited
    BY DEF Typed, TypeOK, Screen
  <2>2. \A u \in Tasks : job'[u].step = "write" => job'[u].writes # <<>> /\ job'[u].id # 0
    BY DEF TypeOK
  <2> QED
    BY <2>1, <2>2 DEF TypeOK, Rows
<1>9. JobsOK'
  BY DEF JobsOK, Online
<1>10. WritersOK'
  <2>1. Typed /\ WritersOK /\ gen'.salts >= gen.salts
    BY DEF Typed
  <2> QED
    BY <1>6, <1>7, <2>1, WritersFrame
<1>11. CreatorsDiffer'
  BY DEF CreatorsDiffer
<1>12. StoreOK'
  BY DEF StoreOK, Complete, Online
<1>13. OneAtATime'
  BY DEF OneAtATime, Running
<1>14. FlowOK'
  BY DEF FlowOK, Opens, Online
<1>15. ShownOK'
  BY DEF ShownOK, Opens
<1>16. PasswordUnlocks'
  BY DEF PasswordUnlocks, Opens
<1>17. MainIsLoggedIn'
  BY DEF MainIsLoggedIn
<1>18. RememberedUnlocks'
  BY DEF RememberedUnlocks, Opens
<1> QED
  BY <1>7, <1>8, <1>9, <1>10, <1>11, <1>12, <1>13, <1>14, <1>15, <1>16, <1>17, <1>18

(* A flow is over with its keys published.                                   *)
LEMMA PublishStep ==
    ASSUME IInv, NEW t \in Tasks, Publish(t)
    PROVE  IInv'
<1>1. /\ job[t] \in Flow /\ job[t] # Idle /\ job[t].step = "publish"
      /\ disk' = disk /\ account' = account /\ gen' = gen /\ session' = session
      /\ flows' = flows /\ faults' = faults /\ job' = [job EXCEPT ![t] = Idle]
      /\ job[t].pw \in Passwords
  BY InFlow DEF IInv, Publish, Flow
<1>2. job'[t] = Idle /\ \A u \in Tasks \ {t} : job'[u] = job[u]
  BY <1>1 DEF IInv, Typed
<1>3. /\ job[t].id \in 1..gen.ids /\ gen.ids \in Nat
      /\ ~past.overlapped =>
            /\ gen.ids = 1 /\ job[t].id = 1 /\ Complete(1) /\ account = 1
            /\ session.in /\ Opens(job[t].pw, disk.salt)
            /\ \A u \in Tasks \ {t} : job[u] = Idle
            /\ ui.screen = "login" /\ ui.pending = 0
  <2>1. job[t].id \in 1..gen.ids /\ gen.ids \in Nat
    BY <1>1 DEF IInv, JobsOK, Typed, Online
  <2>2. ~past.overlapped => gen.ids = 1 /\ \A u \in Tasks \ {t} : job[u] = Idle
    BY <1>1, <2>1 DEF IInv, OneAtATime
  <2>3. ~past.overlapped => Complete(1) /\ job[t].id = 1
    BY <1>1, <2>1, <2>2 DEF IInv, StoreOK, Online
  <2>4. ~past.overlapped => session.in /\ Opens(job[t].pw, disk.salt) /\ account = job[t].id
    BY <1>1 DEF IInv, FlowOK, Online
  <2>5. ~past.overlapped => ui.screen = "login" /\ ui.pending = 0
    BY <1>1 DEF IInv, OneAtATime, Running, Typed, Screen
  <2> QED
    BY <2>1, <2>2, <2>3, <2>4, <2>5
<1>4. /\ ui' \in Screen
      /\ ui'.rbusy \in {ui.rbusy, Null} /\ (ui.rbusy = t => ui'.rbusy = Null)
      /\ keychain' \in Passwords \cup {Null} /\ past' \in Past
      /\ past'.current = past.current /\ past'.recovered = past.recovered
      /\ past'.edited = past.edited /\ past'.cut = past.cut
      /\ past'.overlapped = past.overlapped /\ (past.stopped => past'.stopped)
      /\ past.shown \subseteq past'.shown /\ past'.shown \subseteq past.shown \cup {job[t].id}
      /\ ui'.pending \in past'.shown \cup {0}
      /\ keychain' = keychain \/ keychain' = job[t].pw
      /\ ui'.pending # 0 /\ ~past.overlapped =>
            job[t].op = "register" /\ job[t].waited /\ ui'.field = ui.field
      /\ job[t].op = "register" /\ ~past.overlapped =>
            past'.stopped \/ job[t].id \in past'.shown
  <2>1. /\ ui \in Screen /\ keychain \in Passwords \cup {Null} /\ past \in Past
        /\ ui.pending \in past.shown \cup {0}
        /\ job[t].op = "register" /\ ~job[t].waited => past.stopped
        /\ ui.rbusy # Null => job[ui.rbusy].op = "recover" /\ job[ui.rbusy].waited
        /\ job[t].id \in Nat /\ job[t].id # 0
    BY <1>1, <1>3 DEF IInv, Typed, TypeOK, JobsOK
  <2>2. CASE ~job[t].waited
    <3>1. ui' = ui /\ keychain' = keychain /\ past' = past
      BY <2>2 DEF Publish
    <3>2. ui.rbusy # t
      BY <2>1, <2>2, VaultAssumption
    <3> QED
      BY <1>3, <2>1, <2>2, <3>1, <3>2
  <2>3. CASE job[t].waited /\ job[t].op = "register"
    <3>1. ui.rbusy # t
      BY <2>1, <2>3, VaultAssumption
    <3>2. CASE ui.screen = "login"
      <4>1. /\ ui' = [ui EXCEPT !.busy = FALSE, !.pending = job[t].id]
            /\ past' = [past EXCEPT !.shown = @ \cup {job[t].id},
                                    !.stopped = @ \/ FALSE]
            /\ keychain' = keychain
        BY <2>3, <3>2 DEF Publish, Freed
      <4> QED
        BY <2>1, <2>3, <3>1, <4>1 DEF Screen, Past
    <3>3. CASE ui.screen # "login"
      <4>1. /\ ui' = [ui EXCEPT !.busy = FALSE, !.pending = 0]
            /\ past' = [past EXCEPT !.stopped = TRUE]
            /\ keychain' = keychain
        BY <2>1, <2>3, <3>3 DEF Publish, Freed, Past
      <4> QED
        BY <2>1, <2>3, <3>1, <4>1 DEF Screen, Past
    <3> QED
      BY <3>2, <3>3
  <2>4. CASE job[t].waited /\ job[t].op # "register"
    <3> DEFINE state == Freed(t)
    <3>1. /\ ui' = LoggedIn(state) /\ past' = past
          /\ keychain' = keychain \/ keychain' = job[t].pw
      BY <2>4 DEF Publish, Remember
    <3>2. /\ state \in Screen /\ state.pending = ui.pending /\ state.screen = ui.screen
          /\ state.rbusy \in {ui.rbusy, Null} /\ (ui.rbusy = t => state.rbusy = Null)
      <4>1. CASE job[t].op # "recover"
        BY <2>1, <2>4, <4>1, VaultAssumption DEF Freed, Screen
      <4>2. CASE job[t].op = "recover" /\ ui.rbusy = t
        BY <2>1, <4>2 DEF Freed, Screen
      <4>3. CASE job[t].op = "recover" /\ ui.rbusy # t
        BY <2>1, <4>3 DEF Freed, Screen
      <4> QED
        BY <4>1, <4>2, <4>3
    <3> HIDE DEF state
    <3>3. /\ ui' \in Screen /\ ui'.rbusy \in {state.rbusy, Null}
          /\ ui'.pending \in {0, ui.pending}
      <4>1. CASE state.screen = "main"
        BY <3>1, <3>2, <4>1 DEF LoggedIn
      <4>2. CASE state.screen # "main"
        BY <3>1, <3>2, <4>2 DEF LoggedIn, Screen
      <4> QED
        BY <4>1, <4>2
    <3>4. /\ ui'.rbusy \in {ui.rbusy, Null} /\ (ui.rbusy = t => ui'.rbusy = Null)
          /\ ~past.overlapped => ui'.pending = 0
          /\ keychain' \in Passwords \cup {Null}
      BY <1>1, <1>3, <2>1, <3>1, <3>2, <3>3
    <3> QED
      BY <2>1, <2>4, <3>1, <3>3, <3>4
  <2> QED
    BY <2>2, <2>3, <2>4
<1> USE <1>1, <1>2, <1>3, <1>4 DEF IInv, Idle
<1>5. Typed'
  BY DEF Typed
<1>6. TypeOK'
  <2>1. ui'.rbusy # Null => job'[ui'.rbusy].op = "recover" /\ job'[ui'.rbusy].waited
    BY DEF Typed, TypeOK, Screen
  <2>2. past'.shown \subseteq 1..gen.ids
    BY DEF TypeOK
  <2>3. \A u \in Tasks : job'[u].step = "write" => job'[u].writes # <<>> /\ job'[u].id # 0
    BY DEF TypeOK
  <2> QED
    BY <2>1, <2>2, <2>3 DEF TypeOK, Rows
<1>7. JobsOK'
  BY DEF JobsOK, Online
<1>8. WritersOK'
  <2>1. \A u \in Tasks : job'[u].step = "write" => job'[u] = job[u]
    OBVIOUS
  <2>2. Typed /\ WritersOK /\ gen'.salts >= gen.salts
    BY DEF Typed
  <2> QED
    BY <1>5, <2>1, <2>2, WritersFrame
<1>9. CreatorsDiffer'
  BY DEF CreatorsDiffer
<1>10. StoreOK'
  BY DEF StoreOK, Complete, Online
<1>11. OneAtATime'
  BY DEF OneAtATime, Running
<1>12. FlowOK'
  <2>1. \A u \in Tasks : ~past.overlapped => job'[u] = Idle
    OBVIOUS
  <2> QED
    BY <2>1 DEF FlowOK, Online
<1>13. ShownOK'
  <2>1. ASSUME ~past.overlapped, ui'.pending # 0
        PROVE  /\ session'.in /\ account' = disk'.keystore /\ account' # 0
               /\ ~past'.edited => Opens(ui'.field, disk'.salt)
    BY <2>1 DEF Complete, FlowOK
  <2>2. ASSUME ~past.overlapped, disk'.keystore # 0, ~past'.stopped
        PROVE  disk'.keystore \in past'.shown
    BY <2>2 DEF Complete, ShownOK
  <2> QED
    BY <2>1, <2>2 DEF ShownOK, Opens
<1>14. PasswordUnlocks'
  BY DEF PasswordUnlocks, Opens
<1>15. MainIsLoggedIn'
  BY DEF MainIsLoggedIn, Complete
<1>16. RememberedUnlocks'
  BY DEF RememberedUnlocks, Opens
<1> QED
  BY <1>5, <1>6, <1>7, <1>8, <1>9, <1>10, <1>11, <1>12, <1>13, <1>14, <1>15, <1>16

(* What a step of the screen alone keeps.                                    *)
LEMMA ScreenFrame ==
    ASSUME IInv, ui' \in Screen, ui'.rbusy \in {ui.rbusy, Null},
           ui'.pending \in {ui.pending, 0}, keychain' \in Passwords \cup {Null},
           past' \in Past, past'.current = past.current, past'.shown = past.shown,
           past'.cut = past.cut, past'.overlapped = past.overlapped,
           past'.recovered = past.recovered, past'.stopped = past.stopped,
           UNCHANGED <<disk, account, job, session, gen, flows, faults>>
    PROVE  /\ Typed' /\ TypeOK' /\ JobsOK' /\ WritersOK' /\ CreatorsDiffer' /\ StoreOK'
           /\ PasswordUnlocks'
<1> USE DEF IInv
<1>1. Typed'
  BY DEF Typed
<1>2. TypeOK'
  BY DEF TypeOK, Rows, Typed
<1>3. JobsOK'
  BY DEF JobsOK
<1>4. WritersOK'
  <2>1. \A u \in Tasks : job'[u].step = "write" => job'[u] = job[u]
    OBVIOUS
  <2>2. Typed /\ WritersOK /\ gen'.salts >= gen.salts
    BY DEF Typed
  <2> QED
    BY <1>1, <2>1, <2>2, WritersFrame
<1>5. CreatorsDiffer' /\ StoreOK' /\ PasswordUnlocks'
  BY DEF CreatorsDiffer, StoreOK, Complete, PasswordUnlocks, Opens
<1> QED
  BY <1>1, <1>2, <1>3, <1>4, <1>5

LEMMA TypePasswordStep ==
    ASSUME IInv, NEW pw \in Passwords, TypePassword(pw)
    PROVE  IInv'
<1>1. /\ ui' \in Screen /\ ui'.rbusy = ui.rbusy /\ ui'.pending = ui.pending
      /\ ui'.screen = ui.screen /\ ui'.field = pw
      /\ past' \in Past /\ past'.current = past.current /\ past'.shown = past.shown
      /\ past'.cut = past.cut /\ past'.overlapped = past.overlapped
      /\ past'.recovered = past.recovered /\ past'.stopped = past.stopped
      /\ past.edited \/ ui.pending # 0 \/ Running # {} => past'.edited
      /\ keychain' = keychain /\ keychain \in Passwords \cup {Null}
      /\ UNCHANGED <<disk, account, job, session, gen, flows, faults>>
  BY DEF IInv, Typed, Screen, Past, TypePassword
<1>2. /\ Typed' /\ TypeOK' /\ JobsOK' /\ WritersOK' /\ CreatorsDiffer' /\ StoreOK'
      /\ PasswordUnlocks'
  BY <1>1, ScreenFrame
<1> USE <1>1 DEF IInv
<1>3. OneAtATime'
  BY DEF OneAtATime, Running
<1>4. FlowOK'
  BY DEF FlowOK, Opens, Running, Idle
<1>5. ShownOK'
  BY DEF ShownOK, Opens
<1>6. MainIsLoggedIn' /\ RememberedUnlocks'
  BY DEF MainIsLoggedIn, RememberedUnlocks, Opens
<1> QED
  BY <1>2, <1>3, <1>4, <1>5, <1>6

LEMMA FormStep ==
    ASSUME IInv, ShowRecovery \/ CancelRecovery \/ NotYou
    PROVE  IInv'
<1>1. /\ ui' \in Screen /\ ui'.rbusy \in {ui.rbusy, Null} /\ ui'.pending = ui.pending
      /\ ui'.screen = ui.screen /\ ui'.field = ui.field
      /\ past' = past /\ past \in Past /\ keychain' \in {keychain, Null}
      /\ keychain \in Passwords \cup {Null}
      /\ UNCHANGED <<disk, account, job, session, gen, flows, faults>>
  <2>1. CASE ShowRecovery
    BY <2>1 DEF IInv, Typed, Screen, ShowRecovery
  <2>2. CASE CancelRecovery
    BY <2>2 DEF IInv, Typed, Screen, CancelRecovery
  <2>3. CASE NotYou
    BY <2>3 DEF IInv, Typed, Screen, NotYou
  <2> QED
    BY <2>1, <2>2, <2>3
<1>2. /\ Typed' /\ TypeOK' /\ JobsOK' /\ WritersOK' /\ CreatorsDiffer' /\ StoreOK'
      /\ PasswordUnlocks'
  BY <1>1, ScreenFrame
<1> USE <1>1 DEF IInv
<1>3. OneAtATime'
  BY DEF OneAtATime, Running
<1>4. FlowOK'
  BY DEF FlowOK, Opens
<1>5. ShownOK'
  BY DEF ShownOK, Opens
<1>6. MainIsLoggedIn' /\ RememberedUnlocks'
  BY DEF MainIsLoggedIn, RememberedUnlocks, Opens
<1> QED
  BY <1>2, <1>3, <1>4, <1>5, <1>6

LEMMA AcknowledgeStep ==
    ASSUME IInv, Acknowledge
    PROVE  IInv'
<1>1. /\ ui' \in Screen /\ ui'.rbusy = Null /\ ui'.pending = 0
      /\ ui'.screen = "main" /\ ui.pending # 0 /\ ui.screen = "login"
      /\ past' = past /\ past \in Past /\ keychain' \in {keychain, ui.field}
      /\ keychain \in Passwords \cup {Null} /\ ui.field \in Passwords \cup {Null}
      /\ UNCHANGED <<disk, account, job, session, gen, flows, faults>>
  BY DEF IInv, Typed, Screen, Acknowledge, LoggedIn, Remember
<1>2. /\ Typed' /\ TypeOK' /\ JobsOK' /\ WritersOK' /\ CreatorsDiffer' /\ StoreOK'
      /\ PasswordUnlocks'
  BY <1>1, ScreenFrame
<1> USE <1>1 DEF IInv
<1>3. OneAtATime'
  BY DEF OneAtATime, Running
<1>4. FlowOK'
  BY DEF FlowOK, Opens, OneAtATime, Running, Idle
<1>5. ShownOK'
  BY DEF ShownOK, Opens
<1>6. MainIsLoggedIn'
  BY DEF MainIsLoggedIn, ShownOK
<1>7. RememberedUnlocks'
  BY DEF RememberedUnlocks, Opens, ShownOK
<1> QED
  BY <1>2, <1>3, <1>4, <1>5, <1>6, <1>7

LEMMA ReloadStep ==
    ASSUME IInv, Reload
    PROVE  IInv'
<1>1. /\ disk' = disk /\ account' = account /\ keychain' = keychain /\ gen' = gen
      /\ flows' = flows /\ faults' = faults + 1 /\ job' = [t \in Tasks |-> Idle]
      /\ session' = [by |-> Null, in |-> FALSE]
      /\ ui' \in Screen /\ ui'.screen = "login" /\ ui'.rbusy = Null /\ ui'.pending = 0
  BY DEF Reload, Screen
<1>2. /\ past' \in Past /\ past'.current = past.current /\ past'.shown = past.shown
      /\ past'.recovered = past.recovered /\ past'.edited = past.edited
      /\ past'.overlapped = past.overlapped
      /\ past.stopped \/ (\E t \in Tasks : job[t].op = "register") => past'.stopped
      /\ past.cut \/ (\E t \in Tasks : job[t].step = "write") => past'.cut
  BY DEF IInv, Typed, Reload, Past
<1>3. \A t \in Tasks : job'[t] = Idle /\ job'[t].step = "none" /\ job'[t].op = "idle"
  BY <1>1 DEF Idle
<1> USE <1>1, <1>2, <1>3 DEF IInv
<1>4. Typed'
  BY DEF Typed
<1>5. TypeOK'
  BY DEF TypeOK, Rows
<1>6. JobsOK'
  BY DEF JobsOK
<1>7. WritersOK' /\ CreatorsDiffer'
  BY DEF WritersOK, CreatorsDiffer
<1>8. StoreOK'
  BY DEF StoreOK, Complete, Online
<1>9. OneAtATime'
  BY DEF OneAtATime, Running
<1>10. FlowOK'
  BY DEF FlowOK, Online
<1>11. ShownOK'
  BY DEF ShownOK
<1>12. PasswordUnlocks'
  BY DEF PasswordUnlocks, Opens
<1>13. MainIsLoggedIn' /\ RememberedUnlocks'
  BY DEF MainIsLoggedIn, RememberedUnlocks, Opens
<1> QED
  BY <1>4, <1>5, <1>6, <1>7, <1>8, <1>9, <1>10, <1>11, <1>12, <1>13

-----------------------------------------------------------------------------

LEMMA InitIInv ==
    ASSUME Init
    PROVE  IInv
<1> USE VaultAssumption DEF Init, Idle
<1>1. Typed
  BY DEF Typed, Disk, Boxes, Wrapped, Screen, Past, Foreign
<1>2. TypeOK
  BY DEF TypeOK, Wrapped, Rows, Foreign
<1>3. JobsOK /\ WritersOK /\ CreatorsDiffer
  BY DEF JobsOK, WritersOK, CreatorsDiffer
<1>4. StoreOK
  BY DEF StoreOK, Online
<1>5. OneAtATime /\ FlowOK /\ ShownOK
  BY DEF OneAtATime, FlowOK, ShownOK, Online, Running
<1>6. PasswordUnlocks /\ MainIsLoggedIn /\ RememberedUnlocks
  BY DEF PasswordUnlocks, MainIsLoggedIn, RememberedUnlocks
<1> QED
  BY <1>1, <1>2, <1>3, <1>4, <1>5, <1>6 DEF IInv

LEMMA NextIInv ==
    ASSUME IInv, [Next]_vars
    PROVE  IInv'
<1>1. CASE \E t \in Tasks :
              \/ StartRegister(t) \/ StartLogin(t) \/ StartBiometric(t)
              \/ \E id \in 0..gen.ids, pw \in Passwords : StartRecover(t, id, pw)
  BY <1>1, StartStep
<1>2. CASE \E t \in Tasks : Step(t)
  BY <1>2, CheckLocalStep, CreateIdentityStep, ReadSaltStep, UnlockStep,
     UnlockWithRecoveryStep, SaveMetaStep, ConnectStep, EnrolStep, LogInStep,
     PublishStep DEF Step
<1>3. CASE \E t \in Tasks : Fail(t) \/ Timeout(t)
  BY <1>3, FailStep, TimeoutStep
<1>4. CASE \E pw \in Passwords : TypePassword(pw)
  BY <1>4, TypePasswordStep
<1>5. CASE ShowRecovery \/ CancelRecovery \/ NotYou
  BY <1>5, FormStep
<1>6. CASE Acknowledge
  BY <1>6, AcknowledgeStep
<1>7. CASE Reload
  BY <1>7, ReloadStep
<1>8. CASE UNCHANGED vars
  BY <1>8 DEF vars, IInv, Typed, TypeOK, Rows, JobsOK, WritersOK, Writer, CreateLeft,
     RotateLeft, CreatorsDiffer, StoreOK, Complete, OneAtATime, Running, FlowOK, Opens,
     ShownOK, PasswordUnlocks, MainIsLoggedIn, RememberedUnlocks
<1> QED
  BY <1>1, <1>2, <1>3, <1>4, <1>5, <1>6, <1>7, <1>8 DEF Next

(* Every reachable state of the sign-in flows is one of the invariant's.     *)
THEOREM VaultInvariant == Spec => []IInv
BY InitIInv, NextIInv, PTL DEF Spec

(* The rows of the store are of salts and identities that were generated     *)
(* here, a busy recovery form waits for a recovery in hand, and a flow that  *)
(* writes has rows left to put (storage.ts:106-242, RecoveryFlow.tsx:22-43). *)
THEOREM VaultTypeCorrect == Spec => []TypeOK
<1>1. IInv => TypeOK
  BY DEF IInv
<1> QED
  BY <1>1, VaultInvariant, PTL

(* A store with a keystore is opened by the phrase of its identity, wherever *)
(* a creation or a change of the password was cut off, and however flows     *)
(* interleave, as long as one identity was generated; it takes registrations *)
(* that overlap to generate two (storage.ts:106-150, 152-165).               *)
THEOREM VaultPhraseUnlocks == Spec => []PhraseUnlocks
<1>1. IInv => PhraseUnlocks
  BY DEF IInv, OneAtATime, StoreOK, Complete, PhraseUnlocks, OpensWithPhrase, Typed
<1> QED
  BY <1>1, VaultInvariant, PTL

(* The password set last opens the store once no flow is writing, unless a   *)
(* flow was cut off between two puts or flows overlapped                     *)
(* (storage.ts:152-165, 198-204).                                            *)
THEOREM VaultPasswordUnlocks == Spec => []PasswordUnlocks
<1>1. IInv => PasswordUnlocks
  BY DEF IInv
<1> QED
  BY <1>1, VaultInvariant, PTL

(* The store holds all of the identity that the relay has an account for: it *)
(* was complete on the disk before the flow connected (webApi.ts:104-113).   *)
THEOREM VaultAccountIsKept == Spec => []AccountIsKept
<1>1. IInv => AccountIsKept
  BY DEF IInv, StoreOK, Complete, AccountIsKept, OpensWithPhrase, Typed
<1> QED
  BY <1>1, VaultInvariant, PTL

(* The main window only opens over a client that is logged in with the       *)
(* identity of the store, unless flows overlapped (webApi.ts:57-94,          *)
(* LoginScreen.tsx).                                                         *)
THEOREM VaultMainIsLoggedIn == Spec => []MainIsLoggedIn
<1>1. IInv => MainIsLoggedIn
  BY DEF IInv
<1> QED
  BY <1>1, VaultInvariant, PTL

(* Nobody gets to the main window past the display of the recovery phrase    *)
(* (storage.ts:117-119, LoginScreen.tsx).                                    *)
THEOREM VaultPhraseWasShown == Spec => []PhraseWasShown
<1>1. IInv => PhraseWasShown
  BY DEF IInv, MainIsLoggedIn, OneAtATime, Running, ShownOK, Idle, PhraseWasShown
<1> QED
  BY <1>1, VaultInvariant, PTL

(* What the keychain remembers opens the store until a recovery changes the  *)
(* password, unless the form was edited meanwhile or flows overlapped        *)
(* (api.py:152-171, LoginScreen.tsx:39-48).                                  *)
THEOREM VaultRememberedUnlocks == Spec => []RememberedUnlocks
<1>1. IInv => RememberedUnlocks
  BY DEF IInv
<1> QED
  BY <1>1, VaultInvariant, PTL
=============================================================================
