------------------------------- MODULE Vault -------------------------------
(***************************************************************************)
(* Signing in on one device under one username: the encrypted local store  *)
(* (engine/storage.ts), the flows that create, unlock and recover it and   *)
(* then log in at the relay (engine/webApi.ts, client/api.py), the login   *)
(* screen that starts them (components/LoginScreen.tsx, RecoveryFlow.tsx)  *)
(* and the desktop's keychain.                                             *)
(*                                                                         *)
(* Everything an identity is made of (master key, recovery phrase, relay   *)
(* token, keystore) is drawn at random at once, so one number stands for   *)
(* all of it; 0 is nothing.  A flow stops at every await; the login screen *)
(* does not keep two flows from running at once.  Timeouts and the         *)
(* keychain exist in the desktop build only.                               *)
(***************************************************************************)
EXTENDS Naturals, Sequences, FiniteSets

CONSTANTS Passwords,
          Tasks,       (* flows that can be in hand at once                *)
          Null,
          MaxFlows,    (* bound: flows begun                               *)
          MaxFaults    (* bound: lost connections, timeouts and reloads    *)

ASSUME VaultAssumption ==
    /\ Null \notin Passwords /\ Null \notin Tasks
    /\ MaxFlows \in Nat
    /\ MaxFaults \in Nat

VARIABLES
    disk,       (* the database: whether it exists, and its `meta' rows      *)
    account,    (* the identity whose token the relay has for the name       *)
    job,        (* task -> the flow in hand                                  *)
    session,    (* the attached client: whose task made it, is it logged in  *)
    ui,         (* the login screen's state                                  *)
    keychain,   (* the remembered password, or Null                          *)
    gen,        (* identities and salts generated so far                     *)
    past,       (* what happened so far (history)                            *)
    flows, faults

vars == <<disk, account, job, session, ui, keychain, gen, past, flows, faults>>

Idle == [op |-> "idle", step |-> "none"]
Running == {t \in Tasks : job[t] # Idle}

(* The account of the name when it was registered on another device.         *)
Foreign == MaxFlows + 1

(* The AEAD box around a master key under the key derived from a password    *)
(* and a salt.                                                               *)
Wrapped(pw, salt, id) == [pw |-> pw, salt |-> salt, id |-> id]

(* aeadDecrypt, and then finishUnlock: the box opens, and what it holds      *)
(* opens the keystore and the token.                                         *)
Opens(pw, salt) ==
    /\ disk.wrapped = Wrapped(pw, salt, disk.wrapped.id)
    /\ disk.wrapped.id # 0
    /\ disk.keystore = disk.wrapped.id /\ disk.token = disk.wrapped.id

OpensWithPhrase(id) ==
    id # 0 /\ disk.recovery = id /\ disk.keystore = id /\ disk.token = id

(* Mutant of CreateWrites: the keystore, which makes the store count as      *)
(* initialised, is not the last row.                                         *)
CreateWritesKeystoreEarly(pw, salt, id) ==
    << <<"salt", salt>>, <<"wrapped", Wrapped(pw, salt, id)>>,
       <<"keystore", id>>, <<"recovery", id>>, <<"token", id>> >>

(* The rows createIdentity puts, in order.                                   *)
CreateWrites(pw, salt, id) ==
    << <<"salt", salt>>, <<"wrapped", Wrapped(pw, salt, id)>>,
       <<"recovery", id>>, <<"token", id>>, <<"keystore", id>> >>

(* Mutant of RotateWrites: the new salt is not stored.                       *)
RotateWritesOldSalt(pw, salt, id) == << <<"wrapped", Wrapped(pw, salt, id)>> >>

(* The rows rotatePassword puts, in order.                                   *)
RotateWrites(pw, salt, id) ==
    << <<"salt", salt>>, <<"wrapped", Wrapped(pw, salt, id)>> >>

-----------------------------------------------------------------------------

Init ==
    /\ disk = [db |-> FALSE, salt |-> 0, wrapped |-> Wrapped(Null, 0, 0),
               recovery |-> 0, token |-> 0, keystore |-> 0]
    /\ account \in {0, Foreign}
    /\ job = [t \in Tasks |-> Idle]
    /\ session = [by |-> Null, in |-> FALSE]
    /\ ui = [screen |-> "login", form |-> "manual", busy |-> FALSE, rbusy |-> Null,
             field |-> Null, pending |-> 0]
    /\ keychain = Null
    /\ gen = [ids |-> 0, salts |-> 0]
    /\ past = [current |-> Null, shown |-> {}, recovered |-> FALSE, edited |-> FALSE,
               cut |-> FALSE, stopped |-> FALSE, overlapped |-> FALSE]
    /\ flows = 0 /\ faults = 0

(* A flow begins.  `waited' says that the screen still waits for its result. *)
Begin(t, op, step, pw, id) ==
    /\ job[t] = Idle
    /\ flows < MaxFlows
    /\ flows' = flows + 1
    /\ job' = [job EXCEPT ![t] = [op |-> op, step |-> step, pw |-> pw, id |-> id,
                                  salt |-> 0, writes |-> <<>>, waited |-> TRUE]]
    /\ past' = [past EXCEPT !.overlapped = @ \/ Running # {} \/ ui.pending # 0]
    /\ UNCHANGED <<disk, account, session, keychain, gen, faults>>

ManualForm == ui.screen = "login" /\ ui.form = "manual" /\ ui.field # Null

(* handleRegister, up to hasLocalIdentity; its button is disabled while busy *)
(* and covered while the phrase is displayed.                                *)
StartRegister(t) ==
    /\ ManualForm /\ ~ui.busy /\ ui.pending = 0
    /\ ui' = [ui EXCEPT !.busy = TRUE]
    /\ Begin(t, "register", "check", ui.field, 0)

(* handleLogin, up to hasLocalIdentity.  Enter in the password field starts  *)
(* it whether the screen is busy or not.                                     *)
StartLogin(t) ==
    /\ ManualForm
    /\ ui' = [ui EXCEPT !.busy = TRUE]
    /\ Begin(t, "login", "check", ui.field, 0)

(* handleBiometricLogin: login with the password of the keychain.            *)
StartBiometric(t) ==
    /\ ui.screen = "login" /\ ui.form = "prompt" /\ ~ui.busy
    /\ keychain # Null
    /\ ui' = [ui EXCEPT !.busy = TRUE]
    /\ Begin(t, "biometric", "salt", keychain, 0)

(* handleRecover with a phrase that was displayed, or with a valid phrase of *)
(* some other account (0).  It does not ask whether the name is known here.  *)
StartRecover(t, id, pw) ==
    /\ ui.screen = "login" /\ ui.form = "recovery" /\ ui.rbusy = Null
    /\ id \in past.shown \cup {0}
    /\ ui' = [ui EXCEPT !.rbusy = t]
    /\ Begin(t, "recover", "phrase", pw, id)

-----------------------------------------------------------------------------

(* Mutant of Freed: a recovery that fails leaves its form busy.              *)
FreedNotRecovery(t) ==
    IF job[t].waited /\ job[t].op # "recover" THEN [ui EXCEPT !.busy = FALSE] ELSE ui

(* `finally setBusy(false)': of the login screen, whose flows share the      *)
(* flag, or of the recovery form, unless another one has been opened since.  *)
Freed(t) ==
    IF job[t].waited /\ job[t].op # "recover" THEN [ui EXCEPT !.busy = FALSE]
    ELSE IF ui.rbusy = t THEN [ui EXCEPT !.rbusy = Null]
    ELSE ui

(* The flow throws, or returns early.                                        *)
Throw(t) ==
    /\ job' = [job EXCEPT ![t] = Idle]
    /\ ui' = Freed(t)
    /\ past' = [past EXCEPT !.stopped = @ \/ job[t].op = "register"]
    /\ UNCHANGED gen

(* The flow goes on.                                                         *)
Goes(t, step) ==
    /\ job' = [job EXCEPT ![t].step = step]
    /\ UNCHANGED <<ui, past, gen>>

(* hasLocalIdentity answers: is there a database of that name?               *)
CheckLocal(t) ==
    /\ job[t].step = "check"
    /\ IF job[t].op = "register" /\ ~disk.db THEN Goes(t, "create")
       ELSE IF job[t].op = "login" /\ disk.db THEN Goes(t, "salt")
       ELSE Throw(t)
    /\ UNCHANGED <<disk, account, session, keychain, flows, faults>>

(* LocalStorage.open creates the database; createIdentity refuses if there   *)
(* is a keystore, and otherwise generates everything.                        *)
CreateIdentity(t) ==
    /\ job[t].step = "create"
    /\ disk' = [disk EXCEPT !.db = TRUE]
    /\ IF disk.keystore # 0 THEN Throw(t)
       ELSE LET id == gen.ids + 1
                salt == gen.salts + 1
            IN  /\ gen' = [ids |-> id, salts |-> salt]
                /\ job' = [job EXCEPT ![t].step = "write", ![t].id = id,
                                      ![t].writes = CreateWrites(job[t].pw, salt, id)]
                /\ UNCHANGED <<ui, past>>
    /\ UNCHANGED <<account, session, keychain, flows, faults>>

(* LocalStorage.open and the first half of unlock: it reads the salt.        *)
ReadSalt(t) ==
    /\ job[t].step = "salt"
    /\ disk' = [disk EXCEPT !.db = TRUE]
    /\ IF disk.salt = 0 THEN Throw(t)
       ELSE /\ job' = [job EXCEPT ![t].step = "unwrap", ![t].salt = disk.salt]
            /\ UNCHANGED <<ui, past, gen>>
    /\ UNCHANGED <<account, session, keychain, flows, faults>>

(* Mutant of Unlock: a box that does not open is taken as it is.             *)
UnlockUnchecked(t) ==
    /\ job[t].step = "unwrap"
    /\ job' = [job EXCEPT ![t].step = "connect", ![t].id = disk.wrapped.id]
    /\ UNCHANGED <<disk, account, session, ui, keychain, gen, past, flows, faults>>

(* The other half of unlock, after the key derivation.                       *)
Unlock(t) ==
    /\ job[t].step = "unwrap"
    /\ IF Opens(job[t].pw, job[t].salt)
         THEN /\ job' = [job EXCEPT ![t].step = "connect", ![t].id = disk.wrapped.id]
              /\ UNCHANGED <<ui, past, gen>>
         ELSE Throw(t)
    /\ UNCHANGED <<disk, account, session, keychain, flows, faults>>

(* LocalStorage.open, unlockWithRecovery and the start of rotatePassword.    *)
UnlockWithRecovery(t) ==
    /\ job[t].step = "phrase"
    /\ disk' = [disk EXCEPT !.db = TRUE]
    /\ IF ~OpensWithPhrase(job[t].id) THEN Throw(t)
       ELSE LET salt == gen.salts + 1
            IN  /\ gen' = [gen EXCEPT !.salts = salt]
                /\ job' = [job EXCEPT ![t].step = "write",
                             ![t].writes = RotateWrites(job[t].pw, salt, job[t].id)]
                /\ UNCHANGED <<ui, past>>
    /\ UNCHANGED <<account, session, keychain, flows, faults>>

(* Mutant of SaveMeta: the flow does not await the last put.                 *)
SaveMetaUnawaited(t) ==
    /\ job[t].step = "write"
    /\ LET row == Head(job[t].writes)
           rest == Tail(job[t].writes)
       IN  /\ disk' = [disk EXCEPT ![row[1]] = row[2]]
           /\ job' = [job EXCEPT ![t].writes = rest,
                                 ![t].step = IF Len(rest) < 2 THEN "connect" ELSE "write"]
           /\ past' = [past EXCEPT !.current = IF Len(rest) < 2 THEN job[t].pw ELSE @,
                                   !.recovered = @ \/ job[t].op = "recover"]
    /\ UNCHANGED <<account, session, ui, keychain, gen, flows, faults>>

(* saveMeta puts one row.                                                    *)
SaveMeta(t) ==
    /\ job[t].step = "write"
    /\ LET row == Head(job[t].writes)
           rest == Tail(job[t].writes)
       IN  /\ disk' = [disk EXCEPT ![row[1]] = row[2]]
           /\ job' = [job EXCEPT ![t].writes = rest,
                                 ![t].step = IF rest = <<>> THEN "connect" ELSE "write"]
           /\ past' = [past EXCEPT !.current = IF rest = <<>> THEN job[t].pw ELSE @,
                                   !.recovered = @ \/ job[t].op = "recover"]
    /\ UNCHANGED <<account, session, ui, keychain, gen, flows, faults>>

(* connectAndAttach: the new client becomes the session, and connects.       *)
Connect(t) ==
    /\ job[t].step = "connect"
    /\ session' = [by |-> t, in |-> FALSE]
    /\ Goes(t, IF job[t].op = "register" THEN "enrol" ELSE "login")
    /\ UNCHANGED <<disk, account, keychain, flows, faults>>

(* The relay's answer to `register'.                                         *)
Enrol(t) ==
    /\ job[t].step = "enrol"
    /\ IF account = 0 THEN account' = job[t].id /\ Goes(t, "login")
                      ELSE UNCHANGED account /\ Throw(t)
    /\ UNCHANGED <<disk, session, keychain, flows, faults>>

(* Mutant of LogIn: an error frame is not thrown.                            *)
LogInUnchecked(t) ==
    /\ job[t].step = "login"
    /\ session' = IF account = job[t].id /\ session.by = t
                    THEN [session EXCEPT !.in = TRUE] ELSE session
    /\ Goes(t, "publish")
    /\ UNCHANGED <<disk, account, keychain, flows, faults>>

(* The relay's answer to `login' with the token.                             *)
LogIn(t) ==
    /\ job[t].step = "login"
    /\ IF account = job[t].id
         THEN /\ session' = IF session.by = t THEN [session EXCEPT !.in = TRUE]
                                              ELSE session
              /\ Goes(t, "publish")
         ELSE UNCHANGED session /\ Throw(t)
    /\ UNCHANGED <<disk, account, keychain, flows, faults>>

(* Onto the main window; the login screen's own state is gone.               *)
LoggedIn(state) ==
    IF state.screen = "main" THEN state
    ELSE [state EXCEPT !.screen = "main", !.pending = 0, !.busy = FALSE, !.rbusy = Null,
                       !.form = "manual", !.field = Null]

(* afterSuccessfulAuth, with and without the box `Remember me' ticked.       *)
Remember(pw) == keychain' \in {keychain, pw}

(* Mutant of Publish: registration goes on without displaying the phrase.    *)
PublishSilently(t) ==
    /\ job[t].step = "publish"
    /\ job' = [job EXCEPT ![t] = Idle]
    /\ IF ~job[t].waited THEN UNCHANGED <<ui, keychain>>
       ELSE ui' = LoggedIn(Freed(t)) /\ Remember(job[t].pw)
    /\ UNCHANGED <<disk, account, session, gen, past, flows, faults>>

(* publishKeys, and the flow returns to the screen: a registration's phrase  *)
(* is displayed, unless the screen is gone; the others enter the main window.*)
Publish(t) ==
    /\ job[t].step = "publish"
    /\ job' = [job EXCEPT ![t] = Idle]
    /\ IF ~job[t].waited THEN UNCHANGED <<ui, keychain, past>>
       ELSE IF job[t].op = "register"
         THEN LET seen == ui.screen = "login"
              IN  /\ ui' = [Freed(t) EXCEPT !.pending = IF seen THEN job[t].id ELSE 0]
                  /\ past' = [past EXCEPT !.shown = IF seen THEN @ \cup {job[t].id} ELSE @,
                                          !.stopped = @ \/ ~seen]
                  /\ UNCHANGED keychain
         ELSE /\ ui' = LoggedIn(Freed(t))
              /\ IF job[t].op = "login" THEN Remember(job[t].pw) ELSE UNCHANGED keychain
              /\ UNCHANGED past
    /\ UNCHANGED <<disk, account, session, gen, flows, faults>>

-----------------------------------------------------------------------------

(* The connection fails, a put is rejected, or the answer to the request     *)
(* before got lost.                                                          *)
Fail(t) ==
    /\ job[t].step \in {"write", "connect", "enrol", "login", "publish"}
    /\ faults < MaxFaults
    /\ faults' = faults + 1
    /\ job' = [job EXCEPT ![t] = Idle]
    /\ ui' = Freed(t)
    /\ past' = [past EXCEPT !.stopped = @ \/ job[t].op = "register",
                            !.cut = @ \/ job[t].step = "write"]
    /\ session' = IF job[t].step = "connect" THEN [by |-> t, in |-> FALSE] ELSE session
    /\ UNCHANGED <<disk, account, keychain, gen, flows>>

(* _run_coro gives up after 30 seconds; the coroutine goes on.               *)
Timeout(t) ==
    /\ job[t] # Idle /\ job[t].waited
    /\ faults < MaxFaults
    /\ faults' = faults + 1
    /\ job' = [job EXCEPT ![t].waited = FALSE]
    /\ ui' = Freed(t)
    /\ past' = [past EXCEPT !.stopped = @ \/ job[t].op = "register"]
    /\ UNCHANGED <<disk, account, session, keychain, gen, flows>>

(* The tab is reloaded, or the client quits and is started again.  A         *)
(* remembered user is offered biometrics, if they are available this time.   *)
Reload ==
    /\ faults < MaxFaults
    /\ faults' = faults + 1
    /\ job' = [t \in Tasks |-> Idle]
    /\ session' = [by |-> Null, in |-> FALSE]
    /\ \E form \in IF keychain = Null THEN {"manual"} ELSE {"manual", "prompt"} :
          ui' = [screen |-> "login", form |-> form, busy |-> FALSE, rbusy |-> Null,
                 field |-> Null, pending |-> 0]
    /\ past' = [past EXCEPT !.stopped = @ \/ \E t \in Tasks : job[t].op = "register",
                            !.cut = @ \/ \E t \in Tasks : job[t].step = "write"]
    /\ UNCHANGED <<disk, account, keychain, gen, flows>>

(* The user types a password into the login form.                            *)
TypePassword(pw) ==
    /\ ui.screen = "login" /\ ui.form = "manual" /\ ui.field # pw
    /\ ui' = [ui EXCEPT !.field = pw]
    /\ past' = [past EXCEPT !.edited = @ \/ ui.pending # 0 \/ Running # {}]
    /\ UNCHANGED <<disk, account, job, session, keychain, gen, flows, faults>>

(* Forgot password?                                                          *)
ShowRecovery ==
    /\ ui.screen = "login" /\ ui.form = "manual" /\ ui.pending = 0
    /\ ui' = [ui EXCEPT !.form = "recovery", !.rbusy = Null]
    /\ UNCHANGED <<disk, account, job, session, keychain, gen, past, flows, faults>>

(* The Cancel button of the recovery form is never disabled.                 *)
CancelRecovery ==
    /\ ui.screen = "login" /\ ui.form = "recovery"
    /\ ui' = [ui EXCEPT !.form = "manual", !.rbusy = Null]
    /\ UNCHANGED <<disk, account, job, session, keychain, gen, past, flows, faults>>

(* handleRecoveryPhraseAcknowledged: the password in the form is remembered. *)
Acknowledge ==
    /\ ui.screen = "login" /\ ui.pending # 0
    /\ ui' = LoggedIn(ui)
    /\ Remember(ui.field)
    /\ UNCHANGED <<disk, account, job, session, gen, past, flows, faults>>

(* handleNotYou: forgets the password.                                       *)
NotYou ==
    /\ ui.screen = "login" /\ ui.form = "prompt"
    /\ keychain' = Null
    /\ ui' = [ui EXCEPT !.form = "manual"]
    /\ UNCHANGED <<disk, account, job, session, gen, past, flows, faults>>

Step(t) ==
    \/ CheckLocal(t) \/ CreateIdentity(t) \/ ReadSalt(t) \/ Unlock(t)
    \/ UnlockWithRecovery(t) \/ SaveMeta(t) \/ Connect(t) \/ Enrol(t) \/ LogIn(t)
    \/ Publish(t)

Next ==
    \/ \E t \in Tasks :
          \/ StartRegister(t) \/ StartLogin(t) \/ StartBiometric(t)
          \/ \E id \in 0..gen.ids, pw \in Passwords : StartRecover(t, id, pw)
          \/ Step(t)
          \/ Fail(t) \/ Timeout(t)
    \/ \E pw \in Passwords : TypePassword(pw)
    \/ ShowRecovery \/ CancelRecovery \/ Acknowledge \/ NotYou
    \/ Reload

Spec == Init /\ [][Next]_vars

-----------------------------------------------------------------------------

Rows == 0..gen.ids

(* A box is of a generated salt and identity; a form that is busy waits for  *)
(* a recovery in hand; the relay has a token only of an identity that was    *)
(* generated here, or a foreign one (storage.ts:106-242, LoginScreen.tsx,    *)
(* RecoveryFlow.tsx:22-43).                                                  *)
TypeOK ==
    /\ disk \in [db : BOOLEAN, salt : 0..gen.salts, recovery : Rows, token : Rows,
                 keystore : Rows,
                 wrapped : [pw : Passwords \cup {Null}, salt : 0..gen.salts, id : Rows]]
    /\ account \in Rows \cup {Foreign}
    /\ session.by \in Tasks \cup {Null} /\ session.in \in BOOLEAN
    /\ keychain \in Passwords \cup {Null}
    /\ ui.rbusy # Null => job[ui.rbusy].op = "recover" /\ job[ui.rbusy].waited
    /\ ui.pending \in past.shown \cup {0}
    /\ past.shown \subseteq 1..gen.ids
    /\ \A t \in Tasks : job[t].step = "write" => job[t].writes # <<>> /\ job[t].id # 0

(* storage.ts:12-18: as soon as a store counts as initialised, the phrase of *)
(* its identity unlocks it, through every crash of a creation or a change of *)
(* the password; two identities are only ever generated by registrations     *)
(* that overlap.                                                             *)
PhraseUnlocks ==
    /\ gen.ids > 1 => past.overlapped
    /\ disk.keystore # 0 /\ gen.ids = 1 => OpensWithPhrase(disk.keystore)

(* The password that was set last unlocks the store, unless a flow was cut   *)
(* off between two writes or two flows overlapped (storage.ts:152-165,       *)
(* 198-204: salt and box are put one after the other).                       *)
PasswordUnlocks ==
    /\ disk.keystore # 0
    /\ \A t \in Tasks : job[t].step # "write"
    /\ ~past.cut /\ ~past.overlapped
    => Opens(past.current, disk.salt)

(* webApi.ts:104-113: a token the relay took from this device, and the means *)
(* to get at it, are in its store, whatever broke off or timed out.          *)
AccountIsKept ==
    account \in 1..gen.ids /\ gen.ids = 1 => OpensWithPhrase(account)

(* In the main window the attached client is logged in, with the identity    *)
(* of the store, unless flows overlapped (webApi.ts:57-94, LoginScreen.tsx). *)
MainIsLoggedIn ==
    ui.screen = "main" /\ ~past.overlapped =>
        session.in /\ account = disk.keystore /\ account # 0

(* storage.ts:117-119: the phrase is shown once.  Nobody gets to the main    *)
(* window without it having been displayed, unless a registration was        *)
(* broken off, timed out, or was overtaken by a login.                       *)
PhraseWasShown ==
    ui.screen = "main" /\ ~past.stopped /\ ~past.overlapped =>
        disk.keystore \in past.shown

(* The keychain's password unlocks the store until a recovery sets another   *)
(* one, unless the form was edited in the course of a flow or two flows      *)
(* overlapped (api.py:152-171, LoginScreen.tsx:39-48).                       *)
RememberedUnlocks ==
    keychain # Null /\ ~past.recovered /\ ~past.edited /\ ~past.overlapped =>
        Opens(keychain, disk.salt)

(* LoginScreen.tsx:59-60: "a local identity for this username already        *)
(* exists -- use Log in".  Whoever is told so can log in with the password   *)
(* that was set last.                                                        *)
LogInIsPossible ==
    disk.db /\ Running = {} => Opens(past.current, disk.salt) /\ account = disk.keystore
=============================================================================
