# EE2E-Messaging: specification and proofs

TLA+ models of the end-to-end encrypted messenger in this repository: a relay
server (`server/`), two ports of the same client engine (Python in `client/` and
`crypto/`, TypeScript in `frontend/src/engine/`), and a React interface.  TLC
checks the models on small instances; TLAPS proves theorems about seven of them for
all values of their constants.  Line numbers below are those of the source files.

## 1. The system

| part | state it keeps | operations | talks to |
|---|---|---|---|
| relay server (`server/server.py`, `server/db.py`) | SQLite: users, identities, prekey rows, the mailbox; in memory: `connected`, one `ClientSession` per websocket | register, login, upload_keys, fetch_bundle, send_message; pushes mail and presence | clients, by JSON frames |
| network client (`network.ts`, `network.py`) | the socket, one queue of replies | connect, request, route pushed frames | relay; hands frames to the bridge |
| session manager (`sessionManager.ts`, `session_manager.py`) | the keystore in memory; everything else is in the storage | publish keys, send text / attachment / deletion / picture, create and change groups, handle an incoming envelope | network client, storage, X3DH, ratchet |
| X3DH and prekeys (`x3dh.*`, `identity.*`) | keystore: identity, signed prekey, one-time prekeys | generate, top up, initiate, respond | session manager |
| Double Ratchet (`ratchet.*`) | one state per contact | encrypt, decrypt, skip, DH step | session manager |
| local storage (`storage.ts`, `storage.py`) | IndexedDB or SQLite, values encrypted under a master key: vault, keystore, sessions, contacts, groups, messages, deletion marks | create, unlock, recover, change password; load and save | session manager, bridge |
| bridge (`api.py`, `webApi.ts`, `api.ts`) | the active session, who is online | one method per user action; events to the interface | session manager, keychain |
| keychain (`keychain.py`) | remembered user and password | remember, forget, biometric login | operating system |
| interface (`App.tsx`, `components/`) | React state: open conversation, list, draft | user actions, event handling | bridge |
| spelling, primitives, deployment | none | library calls, start-up | |

How the parts interact.  A client's requests go one by one over its websocket
and are answered in order; pushed frames (mail, presence) come in between.  The
relay is one asyncio process, so the handlers of different connections
interleave exactly at their `await ws.send(...)`.  In the client, the reader of
the socket starts the handling of a pushed envelope while an operation of the
user may be waiting for its reply; both work on the stored session of the same
contact.  In the browser the storage is asynchronous as well, so that two
incoming envelopes can be in hand at once (`Session`'s tasks, `MaxInHand` in
`Groups`); in the Python client the handling of one is a single step, a special
case of both.  Frames reach a client
in the order of the mailbox, so the keys that the ratchet keeps for skipped
messages serve only frames whose handling overlapped, or were lost.

What is hard, and what makes each part correct:

- *Relay.* Push loops for one recipient overlap (two senders, a sender and a
  login), use a socket looked up earlier, and break off when it closes; the
  process may die between the sends and the marks.  Correct: mail reaches only
  its recipient, in order, is marked only once sent, is never forgotten while
  the recipient is online and the sender is not lost; until somebody leaves,
  presence is right.
- *Prekeys.* Generating, saving and uploading are separate steps, and so are
  using a key up, saving that and saving the session; the client may die
  between any two.  All keys are uploaded again at each login.  Correct: a key
  on offer can be answered, a used key is gone, a key serves one peer.
- *Sessions.* Load, wait, store without a lock; crossing first messages;
  repeated and missing frames; the bound on skipped keys.  Correct: messages
  are readable, read once, under a key of their own, and old keys are gone.
- *Groups.* Every client has its own roster; envelopes to different members
  arrive at different times, and one client may handle several at once.  Correct:
  rosters agree, the group has its name, deletions reach everybody, all under the
  conditions the properties name.
- *Vault and signing in.* The store's rows are put one after the other, the
  identity exists locally before the relay has accepted the name, flows that the
  screen has given up on go on, and nothing keeps two of them from running at
  once.  Correct: the phrase always unlocks, the last password and the keychain
  do, an account the relay took is not lost, the main window is logged in.
- *Network client.* Replies carry no identification; mail and presence arrive in
  one burst with the answer to the login; a connection may go without a word.
  Correct: a request gets its own reply and gets one, no pushed message is
  dropped, and a dot that no notice was lost or crossed for is the relay's.
- *Main window.* Every call to the backend is awaited, answers come in any
  order, the component that asked may be gone, and the text box goes on taking
  keys while a correction is awaited.  Correct: at rest the window shows the
  store, what is open stays open, a text is sent once and where it was typed.

`PROJECT.json` lists the components and all hazards, each at its line with the
properties that catch it.  A hazard without one is a thing the program really does
wrong, or that is not modelled; its note says which property has it as a condition.

## 2. Modules

    Relay ---refines---> StoreAndForward         Ratchet <--extends-- Session
      ^                                                                  ^
    MCRelay, RelayProofs             MCSession, SessionProofs, SessionReadProofs
    Prekeys <-- MCPrekeys, PrekeysProofs         Groups <-- MCGroups, GroupsProofs
    Vault <-- MCVault, VaultProofs               Chat <-- MCChat, ChatProofs
    Network <-- MCNetwork, NetworkProofs

What one module takes for granted is what another one is about.  Vault ends
where the main window opens, Network follows the same flow on the wire and goes
on with the operations that share the connection, Chat takes the store's side
of those operations, Session and Groups what an envelope does at its other end.
The relay's half of Network is one handler of Relay.

**Relay** (`server.py`, `db.py`).  `link`, `pc`, `job` and `notify` describe
the handler coroutine of each connection: whether its socket is open, at which
`await` it is suspended, the push loop it runs and the peers its broadcast has
left.  `connected` is the dictionary of that name, `mail` and `delivered` the
mailbox table.  `pushed` and `view` are histories: what was written on a
connection and what its client therefore shows as online. An action is the code
from one send to the next: `Login` ends with `login_ok`, `Snapshot` sends the
list of users, `Deliver` begins the login's push loop, `SendMessage` stores the
row and replies, `Lookup` begins the push to the recipient, `PushRow` and
`Announce` are one send of a loop, `MarkDelivered` and `PushFails` its two
ends, `ReportError` the frame `_dispatch` sends for an exception, `End` and
`Farewell` the `finally` block, `Crash` a restart.  Any other action may come
between two of these: a send waits for the connection's write lock before it
writes and for its buffer after it.  Frames that were received before a
connection closed are still handled, so `Login` and `SendMessage` do not ask
for an open link.  `Login` does ask for a connection that has no user: the code
would take a second login, which neither client sends.  `Refuse` stands for
every request that is answered by an error.

**StoreAndForward** is the abstract mailbox: accept, own a connection, show on a
connection of the recipient once everything older was shown there or settled,
settle what was shown.  `Relay!KeepsPromise` is the refinement.

**Prekeys** (`identity.*`, `x3dh.*`, `publishKeys`, `decryptEnvelope`, the key
tables of `db.py`).  `disk`, `local` and `rows` are the keys in the stored
keystore, in the running client and in the relay's unused rows; a row is a pair
of login and key, because every login inserts its rows anew.  `pub` is where
`publishKeys` is, `stage[p]` how far the first message of peer `p` has come.
`Crash` may strike between any two steps; what it cut short is delivered again
or not, as the relay had marked it or not.

**Ratchet** holds the Double Ratchet as operators on records.  Keys are
symbolic: a Diffie-Hellman result is the set of the two key pairs, a root key
the sequence of results it was derived from, a message key a chain and a
position.  Equality of keys is equality of what went into them, which is what
the HKDF and HMAC of the code are used for.

**Session** (`sendEnvelopeTo`, `decryptEnvelope`).  `saved` is the stored
state, `work` the operations in hand, each with the copy it loaded.  A send is
`StartSend` (load), `Transmit` (bundle, encrypt, the relay stores the frame)
and `FinishSend` (save) or `FailSend` (the request throws although the relay
has the frame); a receive is `Arrive` (load) and `Open` (decrypt and save, or
give up). Operations overlap when a user has two tasks in hand; an overlap,
like a crash, uses up one of `MaxCuts`.  `Repeat` delivers a frame again,
`Crash` is the end of a client.  `Open` saves the ratchet state and counts the
frame as read; that the message is stored some writes later, and lost if the
client dies in between (`sessionManager.ts` 325 and 414), is not modelled.  The
sets `overlapped`, `cut`, `missed` record what happened, for the properties to
refer to.

**Groups** (`session_manager.py` 142-213 and 263-331, `storage.py` 286-321,
`sessionManager.ts` 268-286 and 329-426, `webApi.ts` 60-62).  One group.
`named` and `roster` are the copy of each client, `job` the rounds of envelopes
its operation has yet to send, `mailbox` the relay's mailbox per recipient,
`shown` the texts in each history, `pictures` who has which picture of whom.
`SetProfilePicture` sends to `KnownRecipients`, who are the roster and the
chats besides (`Contacts`); `Handle` is what an envelope does on arrival.  The
first `MaxInHand` envelopes of a mailbox are in hand, as the browser's callback
waits for none: their handlers may write in any order (`Receive`), and one that
finds no group (`Miss`, in `missed`) makes it later (`Degrade`), by when
another may have.  (To take an envelope out of turn uses up one of `MaxOps`.)
`overtaken` records which envelopes a later one got past.  A user has one
fan-out at a time: that two operations of one user overlap is left out, as are
broken sessions and the death of a client with envelopes in hand (see Session
and Relay).  `members`, `left`, `calm`, `rejoined` and `early` are histories:
what the operations made of the group, who left, whether each change was made
by a member while nothing else was on its way and went through, whether a
former member was added again, whether somebody wrote before the founder's
invitations were out.

**Vault** (`storage.ts` 86-242, the sign-in flows of `webApi.ts`, `LoginScreen.tsx`,
`RecoveryFlow.tsx`, `api.py`, `keychain.py`).  One name on one device.  Master key,
phrase, token and keystore are drawn together, so an identity is a number and
each row of `disk` says of which identity it is; the box around the master key
also says under which password and salt.  `job` holds the flows in hand with the
rows they have yet to put, `account` is the token the relay has for the name (at
the start none, or somebody else's), `session` the attached client, `ui` the
screen with its form, password field, busy flags and the phrase it displays.
Each flow is made of `CheckLocal`, `CreateIdentity` or `ReadSalt` and `Unlock` or
`UnlockWithRecovery`, one `SaveMeta` for each row, `Connect`, `Enrol`, `LogIn` and
`Publish`.  A start offers biometrics to whoever is remembered, if they are
available this time.  `Fail`, `Timeout` (30 seconds in the desktop build, after which the
flow goes on unseen) and `Reload` may come at any await.  `past` is a history.

**Network** (`network.ts`, the attachment of `webApi.ts`, `MainWindow.tsx`
46-64, and the part of `server.py` that writes on this connection).  `items`
and `waiters` are the two lists of `AsyncQueue`, `reqs` the requests in their
order, `got` what each await returned, `up` and `down` what is on the wire.
`Arrive` is `handleFrame`, which routes a frame to the queue or to a callback;
`Serve`, `SendSnapshot`, `Finish` and `Stray` are the relay's handler, `Stray`
the error frame it writes after the reply when somebody else's connection was
closing.  `online` is the backend's set and `dots` the main window's, which
asks once and then follows the events.  The handlers of the other users are
here for the presence they write: `PeerJoins` and `PeerLeaves` change the
dictionary (`peers`), and the notice of it is written later (`BeginBroadcast`,
`Tell`), in any order with others, or never (`CutShort`).  `Replaced` is a
login of this user elsewhere, after which this connection is in no broadcast.
`mistold` has the users whose notices crossed or were cut short.  `Die` is a
lost connection, of which the client takes no notice.

**Chat** (`MainWindow.tsx`, `ChatView.tsx`, `MessageInput.tsx`, the calls of
`sessionManager.ts` and the message tables of `storage.ts` behind them).
`store` is what the tables hold, `side` and `view` what the sidebar and the
open conversation show.  What is under way is kept in bags: `loads` (reads,
each asked for, taken from the store, and answered), `calls` (send, delete, new
chat, create group, pin), `asks` (autocorrections), and `events` counts the
events to be emitted.  An entry has a mark `here` that it loses when the
component that asked is gone, as React then drops what is set.  A text is the
sequence of the pieces typed, a corrected piece its negative, so that `typedIn`
can tell where each one belongs. Envelopes come from others by `ReceiveMessage`
(texts, and the lines of membership changes), `ReceiveInvite` and
`ReceiveDelete`, in chats and groups alike. `past` records the circumstances
the properties name.

Definitions named `...OrNone`, `...Late` and the like, each before the
definition it differs from, are mutants: the code with a plausible mistake.  No
specification uses them; each property of section 3 is violated by one of them.

## 3. Runs

| run | question | instance |
|---|---|---|
| `relay` | wrong recipient, forgotten rows, presence before departures | 2 users, 3 connections, 1 mail, 1 restart |
| `relay_order` | marks, order, refinement of StoreAndForward, delivery to online users in the end | 2 users, 2 connections, 2 mails, 1 restart |
| `prekeys` | keys on offer, used keys, refused first messages | 3 peers, target 2, 3 logins |
| `session` | readable frames, forward secrecy, what overlapping operations can break | 2 tasks each, 4 sends, MAX_SKIP 1, 2 cuts, 1 repeat |
| `groups` | rosters, name, deletions, pictures | 3 users with chats with each other, 2 changes, pictures or envelopes out of turn, 1 text, 1 broken fan-out, 2 envelopes in hand |
| `vault` | phrase, password, keychain, account, way into the main window | 2 passwords, 2 tasks, 3 flows, 2 faults |
| `network` | replies, pushed messages, dots, requests that are answered | 2 callers, 1 peer, 4 requests, 2 pushes, comings or goings, 2 stray errors |
| `chat` | what the window shows, what becomes of a text | 2 chats, 1 group, 2 selections, 2 changes, 2 pieces typed, 1 fault |

Four more runs, below, end in a counterexample.

Why these are enough.  Three connections of two users let one user reconnect
while the old connection is still served and somebody pushes to it; two mails
let two loops overlap on a common row with one only the later loop has; one
restart separates the sends of a loop from its mark and finds rows in every
state, and a connection that is left reconnects after it.  (For more mails and
connections there are the theorems of section 4.)  For the prekeys, three peers
are a key's first holder, its second, and one who gets none; two keys and three
logins let a key be offered again, used, topped up and offered once more.
MAX_SKIP 1 with three messages reaches the bound and passes it (with 1000, the
same steps would need 1001 messages); the keys of a chain enter only by
position, so the distance is all that matters.  Two tasks are the least that
overlap; a third adds more of the same lost updates.  Three users are the one
who acts, the one who is acted upon, and a bystander; two envelopes in hand are
an invitation and a text, a text and its deletion, or two envelopes that both
found no group; two changes are a membership change and an envelope that gets
past another (`overlaps`), a change and its reverse, or two pictures.  Three
flows are a registration, a recovery and a login, two faults a broken flow and
a reload after it, two passwords the old and the new one.  Four requests are
the two of the login and one of each overlapping operation; two stray errors
are a lag of two.  A peer who comes and goes, or goes and comes, needs two
changes, and its notices may cross; what one peer does says nothing of
another's dot.  In `chat` two changes are two calls that overlap, or a call and
an event, two selections leave a conversation and return to it, and two pieces
are a text with a word to correct and one more key.

All bounds are constants: `MaxMail`, `MaxCrashes` (Relay), `MaxLogins` (Prekeys),
`MaxSends`, `MaxCuts`, `MaxRepeats` (Session), `MaxOps`, `MaxTexts`, `MaxInHand`,
`MaxFails` (Groups), `MaxFlows`, `MaxFaults` (Vault), `MaxRequests`, `MaxPushes`, `MaxStrays`
(Network), `MaxSelects`, `MaxChanges`, `MaxTyped`, `MaxFaults` (Chat).

Symmetry is used for users, connections, tasks, peers and passwords, in runs of
invariants only.  Deadlock is not asked about: with every bound used up, and all
connections closed, the models stop, as the system does.

Fairness is weak, and stated in two modules.  In `Relay` for the handlers:
asyncio resumes every runnable coroutine, and a send that waits for a slow
reader ends because the reader reads or because the keepalive of the websockets
library closes a connection that does not answer.  Clients and the network
promise nothing.  `OnlineMailIsDelivered` therefore ends in "delivered, or the
connection is lost or replaced, or the sender's was lost"; the last case is
real, since the reply to the sender raises before the recipient is looked up
(`server.py` 156-160).  In `Network` for the relay's handler (`Answering`, for the
same reason) and for `Arrive`: on an open connection the transport delivers what
was written, and the event loop calls `onmessage`.  `RequestsAreAnswered` excludes
a connection that was lost or closed, because `network.ts` fails no waiting
request then: the caller waits for good.

### What does not hold

Four runs end in a counterexample to something the repository says of itself.

- `network_replies`: a push or broadcast to another client's closing connection
  raises inside the request of a client that has its reply already; the error
  frame it gets in addition is taken for the reply to its next request
  (`network.ts` 5-9), and from then on each reply for the request after its own:
  a send that the relay refused is reported as sent.
- `vault_refused`: a database is created before anything is known of the name;
  whoever tried a recovery under a wrong name, or was refused at a registration,
  is then told to log in, which cannot succeed (`LoginScreen.tsx` 59-60).
- `prekeys_reuse`: each login puts all keys on offer again, so a key is handed
  out twice (`identity.ts` 7-8).
- `session_keys`: two overlapping sends to one contact encrypt under one message
  key (`README.md` 48-51).

Other departures are kept out of the properties by their conditions instead.  A
presence broadcast stops at the first closing connection, an offline broadcast
can follow the user's next login, and a connection that a newer login replaced
is told nothing, so a dot may stay wrong (`README.md` 208-209; hence "before
departures" in Relay, `mistold` and `connected = "yes"` in Network).  In the
browser a text that is handled while an invitation is in hand can make the
group under the name "Unknown group", which the invitation does not replace
(`sessionManager.ts` 342-346, `storage.ts` 265-268), and a deletion handled
before its text finds nothing to mark (`storage.ts` 393-405); hence
`overtaken`.  Who is added to a group again keeps the old roster's entries,
since an invitation only adds (`README.md` 65-67; hence `rejoined`).

In the same way the conditions of the `Chat` properties list what can go amiss
there (with two changes TLC needs all but one; that a row may go and come back
while a call waits matters from the third change on).  An outdated answer may replace a newer one.  A message whose send
was under way when its conversation was left and opened again is stored but not
shown until the next event.  A group opened before its creation is through lacks
its first line.  A deletion whose envelope fails has been made locally and still
shows.  A send that fails, or a text typed while Enter waits for a correction,
loses the text; a second Enter then sends it twice.  A call given up after 30
seconds goes on.

The conditions in `UnreadOnlyIfDisturbed`, `RostersInSync`, `ReadOnce` and the
others name precisely when the client's promises fail.  Each was found necessary:
without it TLC has a counterexample.  In particular a conversation that both
users open at once stays unreadable in both directions, because each ignores the
other's X3DH header once it has a session.

## 4. Proofs

The theorems hold for any number of connections, keys, mails, logins, messages,
operations in hand, members and changes of a group, passwords, requests,
conversations, selections, pieces of text and faults.  They assume of the
constants only what the modules state: the bounds and `MaxSkip` are natural
numbers (`MaxSkip` in `RatchetAssumption`, the rest as follows), and

| assumption | besides |
|---|---|
| `RelayAssumption` | `None` is neither a user nor a connection |
| `PrekeysAssumption` | the target is a natural number |
| `SessionAssumption` | there are two users; `Null` is no key pair, no chain and no session |
| `GroupsAssumption` | contacts are pairs of users |
| `VaultAssumption` | `Null` is neither a password nor a task |
| `NetworkAssumption` | the login flow is none of the operations that may overlap |
| `ChatAssumption` | the conversations known at the start are conversations, and `Null` is none |

Each module of proofs begins with the inductive invariant (`IInv`, or the parts that
the theorems name), has one lemma for each action and each part of the invariant
it can disturb, and ends with the theorems.  TLC checked the parts of the
invariants on the instances of section 3 before they were proved.

*Relay.*  `TypeOK` is not inductive by itself: `HandlersReady` adds that a
handler past its login has a user and that a push loop writes to a connection of
the user whose rows it holds, `RegisteredOwn` that the connection registered for
a user is one of his.  `NoGaps` is not inductive either: an older row may be
missing from a connection because the loop that is about to send it there is
suspended.  `LoopsComplete` says of every loop that the rows it has no longer left
were written on its target, and that every older row of its recipient is among
its rows or was delivered by the time it fetched them.  From the four parts
`OnlyToRecipient`, `DeliveredWasPushed`, `NoGaps` and `LoopsComplete` together each
follows for the next state.  `NoMailForgotten` needs in addition that
nobody is registered on a connection that was never opened (`FreshUnused`), so
that opening one cannot put a row into nobody's hands.  `RelayKeepsPromise` maps each action to an action of
`StoreAndForward` or to a stutter; `NoGaps` in the next state supplies `Due`, and
`LoopsComplete` the guard of `Settle`.  `PresenceExactBeforeDepartures` speaks of
moments of rest only.  `ViewsExact` says of every other moment that whoever is
missing in a client's view is about to be announced to it, or the client's own
snapshot is yet to come; `ToldOthers` keeps broadcasts from going to somebody
who is not logged in or to the user's own connection.

*Prekeys.*  The inductive invariant adds four facts to the stated properties.
`StagesOK`: who has no bundle yet has no key, and handling goes on only while a
client runs.  `KeystoresAgree`: keys missing on the disk are about to be saved, and
keys left on it are those whose removal is about to be saved.  `TakenKeysAreGone`:
the key of a message being handled, or of a session, is in nobody else's reach.
`HandedAccounted`: a key that was handed out and is not on the disk was taken by
somebody or lost with a crash that cut somebody's handling short; without it a
refused message could not be traced to its cause.

*Session.*  What could break forward secrecy is a stored state that is older than
a frame its user read or sent.  The invariant therefore follows two relations
between a state and a key through every state that is stored or in hand:
`Consumed` (the state is past a key it received with) and `Spent` (past one it sent
with).  Both are about lengths of chains and counters alone, since a root key
only grows and each chain is shorter than the root key that comes after it;
which key pairs went into a chain need not be known, so these proofs do not rest
on fresh randomness.  `Progress` says that the ratchet never goes back, and
`ProgressKeeps` that a state further on keeps both relations; `DecryptingWorks`
adds that a key just used is consumed and a consumed key opens nothing,
`EncryptingWorks` that a key just used is spent and was not before,
`PastKeysAreGone` that neither can be derived.  `AloneOK` is where overlaps come
in: only a user who never had two operations in hand works on what is stored.
`SentOK` refers to the state about to be stored if there is one, because between
the send and the save the stored one is behind; a crash there is `cut`.

Which frames can be read (`SessionReadProofs`) does depend on the key pairs.  While
nobody was disturbed and the two did not open the conversation at once (`Calm`),
each stands at one session (`Standing`), and `InStep` relates the two: one is a
single Diffie-Hellman step ahead of the other (`Ahead`), each chain a user sent on
has frames without a gap under a key pair of its own (`Sends`), and each frame is of
the chain the other receives on, of the chain its next step leads to, or read, or
its key is in the cache (`Gets`).  `SendStep`, `ReadStep` and `FirstStep` keep this
for an encryption, a decryption and an opening frame; fresh key pairs are what
makes a step of one user unlike every earlier one.  By `Refused` a frame that cannot
be decrypted in this state has more than `MaxSkip` frames before it that were not
read.  That these are not just late is a matter of order: the relay pushes the
oldest first (`OrderOK`), so what was not read when a later frame is opened is
lost for good (`LostBefore`), or was given up earlier for the same reason
(`GivenUpOK`, by which the theorem holds afterwards too).  `FirstOK` is about the
opening: it comes with the first frame, so that a user without a session has
nothing to open before it.

*Groups.*  The invariant is about what is due to a client: the envelopes in its
mailbox and those a fan-out in hand still owes it (`Due`).  A send only moves
an envelope from the one to the other, so most parts notice no more than the
start of an operation and an arrival.  `Base` has what every other part rests
on, among it that nobody is sent its own envelopes (`JobsOK`, `EnvelopesOK`).
`RostersInSync` speaks of moments of rest; `SyncOK` says of every other moment
that at most one envelope that changes a client's roster is due to it
(`Single`), and that handling it makes the roster the membership (`Right`); it
does so in whatever order the envelopes in hand are done with, because making
the group only ever adds. `HandsOK` keeps the envelopes that found no group at
their places.  `TextsOK` is needed for the text that comes before its reader's
invitation, which would otherwise make up a roster. `NameKnownAfterFounding` is
about order: who is on anybody's roster has a name for the group, or an
invitation is stored for it before anything else can be (`Covered`,
`InviteFirst`, `InviteAhead`), and once the group is founded a client invites
one at a time (`OneInvited`); it is kept as long as nothing overtook an
invitation.  `LastPictureArrives` and `DeletedForEveryMember` follow the last
picture and the deletion from the fan-out through the mailbox (`Latest`,
`Undone`); for a deletion, whoever has the text or is to get it must also be on
the author's roster when he retracts it (`Reachable`), which rests on `SyncOK`.
A picture or text that was overtaken is given up (`Passed`, `Lost`).

*Vault.*  The rows of the store are put one by one, so the invariant must say what
is on the disk between any two puts.  `WritersOK` has each writer hold a suffix of
its list of rows, and those before it on the disk; `StoreOK` that the keystore is
the last of an identity's rows, and that no flow goes online before it is
there.  While flows do not overlap, `OneAtATime` and `FlowOK` carry what a flow
has read or established to its next step, and `ShownOK` what a registration left
until its phrase is acknowledged.  `AccountIsKept` and `PhraseUnlocks` need nothing
but that one identity was generated, however flows overlap; the other properties
are conditional on `OneAtATime`.

*Network.*  A reply says nothing of the request it answers, so the invariant
numbers both: the n-th reply, wherever it is by now (returned, in the queue, on
the wire), answers one of the first n requests and at most as many back as
there were stray errors (`ArrivedOK`, `DownOK`, `UpOK`).  On the wire, replies
are mixed with pushed frames; counting them would take an induction over the
sequence, and `DownOK` says instead that there is a function that ranks them,
which each step extends or shortens.  `PresenceOK` says of each user not
`mistold` that a notice of her is yet to be written, or that the last frame
under way that is about her is true, or that there is none and the set is
right.  It rests on `NoticesOK`: the notices of such a user say what is the
case, because one that says the opposite marks her.

*Chat.*  Most of the properties speak of moments of rest; the invariant says of
every other moment what is under way that will put the window right.  `Base` has the
types of the reads, calls and corrections under way, among them that an entry has
its mark only while its component is there, and that no text repeats a piece.
`SideOK` says that the sidebar shows the store or that a list not taken yet, a list
that is the present one, a call that will ask for one, or an event is under way;
`ChatOK` the same of the open conversation, whose own calls and Enters keep their
mark until `past.chat` records that one lost it.  Each step that changes the store
leaves such an entry behind, and each answer that uses one up is the right one or
is recorded.  `RowOK` adds to `ChatStaysOpen` the conversations about to be
selected.  `OnceOK` and `KeptOK` follow each piece through its holders: the box, an
Enter waiting for its correction, a send, a stored message.  By `OnceOK` the holders
share nothing, but for an Enter and the box of its own component, and a send or
an Enter is in its bag once, so that its return leaves no second copy behind.  By
`KeptOK` each piece has a holder in the conversation it was typed in, and the
box has nothing that a waiting Enter of its component has not, since submitting that
text empties the box.
Closing a component (`ClosesEffect`) takes marks away and nothing else that these
parts need; `GoneCounts` is what keeps the bags' counts through it.

Only model-checked: `OnlineMailIsDelivered` and `RequestsAreAnswered`, since liveness
under fairness is beyond the provers.  Every safety property of a passing run is a
theorem.

## 5. Not modelled

Password hashing, the wire and storage formats (JSON, base64 and SQL are
injective encodings here), signature verification, message bodies and
attachments' files, the display of avatars and of time, the dictionaries behind
the spelling correction, the operating system's keychain (what is remembered is
in Vault), the dialogs' own state (what they ask of the session manager is in
Groups and Chat) and deployment.  Encryption is symbolic: a message can be opened
with its key and with nothing else.  `Vault` has one name on one device: the
database of another name is another instance of it, and the same name on a
second device is the foreign account of its initial states.  Left out on
purpose, as said in section 2: a second login on one connection (Relay), the time
between saving a session and storing its message (Session), fan-outs of one user
that overlap (Groups).

## 6. Plan

Done: the models of all parts, and the proofs of every safety property the runs
check.  Next: the state of the group dialogs (`GroupInfoDialog.tsx`), which load a
roster and keep it while it changes.
