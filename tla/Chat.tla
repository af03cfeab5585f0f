-------------------------------- MODULE Chat --------------------------------
(***************************************************************************)
(* The main window over one client's store: the sidebar (MainWindow.tsx),  *)
(* the open conversation (ChatView.tsx) and its text box (MessageInput.tsx) *)
(* together with the backend calls they make (sessionManager.ts, the        *)
(* message tables of storage.ts).                                          *)
(*                                                                         *)
(* Every call to the backend is awaited.  A read is asked for, taken from   *)
(* the store, and answered in steps of their own, and answers come in any   *)
(* order (the desktop bridge serves every call on a thread of its own), so  *)
(* what is under way is a bag.  listConversations takes its tables one      *)
(* after the other; they are one read here, as names are only ever added    *)
(* and whoever adds one refreshes the sidebar afterwards.                   *)
(* React throws away what is set on a component that is gone, so all that   *)
(* is under way carries a mark `here' that is lost when the conversation's  *)
(* component goes.                                                         *)
(***************************************************************************)
EXTENDS Integers, Sequences, FiniteSets, Bags

CONSTANTS Chats,       (* conversations with one other user                 *)
          Groups,      (* group conversations                               *)
          Known,       (* the conversations the store has at the start      *)
          Null,
          MaxSelects,  (* bound: clicks on a row of the sidebar             *)
          MaxChanges,  (* bound: calls that change something and envelopes  *)
          MaxTyped,    (* bound: pieces of text typed                       *)
          MaxFaults    (* bound: requests that fail or time out             *)

ASSUME ChatAssumption ==
    /\ Known \subseteq Chats \cup Groups /\ Null \notin Chats \cup Groups
    /\ MaxSelects \in Nat /\ MaxChanges \in Nat /\ MaxTyped \in Nat /\ MaxFaults \in Nat

VARIABLES
    store,    (* the tables: visible messages, conversations, pins           *)
    texts,    (* the text of each message ever stored, <<>> if not typed here*)
    side,     (* the sidebar                                                 *)
    view,     (* the selected conversation, what is shown of it, its text box*)
    loads,    (* reads under way                                             *)
    calls,    (* calls under way that change something                       *)
    asks,     (* autocorrections under way                                   *)
    events,   (* events that wait to be emitted                              *)
    typedIn,  (* piece -> the conversation it was typed in (history)         *)
    past,     (* what may be amiss after what happened so far (history): the *)
              (* conversation or the sidebar may miss a change, a row may    *)
              (* have gone, a text may be sent twice or lost                 *)
    count     (* selections, calls and envelopes, and faults so far          *)

vars == <<store, texts, side, view, loads, calls, asks, events, typedIn, past, count>>

Convs == Chats \cup Groups

(* What listConversations makes of the tables: names, pins, last messages.   *)
Latest(c) ==
    IF store.msgs[c] = {} THEN 0
    ELSE CHOOSE m \in store.msgs[c] : \A n \in store.msgs[c] : n <= m

Listing ==
    [known |-> store.known, pinned |-> store.pinned,
     last |-> [c \in Convs |-> Latest(c)]]

NoListing == [known |-> {}, pinned |-> {}, last |-> [c \in Convs |-> 0]]

(* A conversation's component is there if the sidebar lists the conversation.*)
Mounted == view.conv \in side.known

With(bag, x) == bag (+) SetToBag({x})
Without(bag, x) == bag (-) SetToBag({x})
Only(bag, P(_)) == [x \in {y \in BagToSet(bag) : P(y)} |-> bag[x]]

(* All entries lose their mark.                                              *)
Gone(bag) ==
    LET marked == {x \in BagToSet(bag) : x.here}
    IN  Only(bag, LAMBDA x : ~x.here)
        (+) [y \in {[x EXCEPT !.here = FALSE] : x \in marked} |-> bag[[y EXCEPT !.here = TRUE]]]

(* Reads of a component that is gone, except those that go on to the sidebar.*)
GoneReads(bag) ==
    Only(bag, LAMBDA x : x.what = "sidebar")
    (+) Gone(Only(bag, LAMBDA x : x.what = "history" /\ x.then))

-----------------------------------------------------------------------------

(* A read: loadHistory, which refreshes the sidebar `then' if its caller     *)
(* does, or refreshSidebar, whose caller selects conv `then'.                *)
Load(what, c, then, here) ==
    [what |-> what, conv |-> c, then |-> then, here |-> here, step |-> "asked",
     seen |-> {}, list |-> NoListing]

History(c, then, here) == Load("history", c, then, here)
Sidebar == Load("sidebar", Null, FALSE, TRUE)
SidebarThenOpen(c) == Load("sidebar", c, TRUE, TRUE)

(* Mutant of Refreshes: an event leaves the open conversation alone.         *)
RefreshesSidebarOnly == {Sidebar}

(* The reads that an event starts.                                           *)
Refreshes == IF Mounted THEN {Sidebar, History(view.conv, FALSE, TRUE)} ELSE {Sidebar}

NoView == [conv |-> Null, shown |-> {}, text |-> <<>>]

Init ==
    /\ store = [msgs |-> [c \in Convs |-> {}], known |-> Known, pinned |-> {}]
    /\ texts = <<>>
    /\ side = NoListing
    /\ view = NoView
    /\ loads = SetToBag({Sidebar})
    /\ calls = EmptyBag /\ asks = EmptyBag /\ events = 0
    /\ typedIn = <<>>
    /\ past = [chat |-> FALSE, side |-> FALSE, row |-> FALSE, twice |-> FALSE, lost |-> FALSE]
    /\ count = [selects |-> 0, changes |-> 0, faults |-> 0]

(* The open conversation's component waits for a call of its own.            *)
Waits ==
    \/ \E call \in BagToSet(calls) : call.kind \in {"send", "delete"} /\ call.here
    \/ \E ask \in BagToSet(asks) : ask.why = "enter" /\ ask.here

(* The conversation's component goes, and what is in its text box with it.   *)
Leave(c, pending) ==
    /\ view' = [NoView EXCEPT !.conv = c]
    /\ loads' = pending
    /\ calls' = Gone(calls) /\ asks' = Gone(asks)
    /\ past' = [past EXCEPT !.chat = @ \/ Waits,
                            !.lost = @ \/ (Mounted /\ view.text # <<>>)]

(* setSelectedId.  The component of the same conversation stays; another one *)
(* is mounted, and loads its history, if the sidebar lists it.               *)
Open(c, pending) ==
    IF c = view.conv THEN loads' = pending /\ UNCHANGED <<view, calls, asks, past>>
    ELSE IF c \in side.known
      THEN Leave(c, With(GoneReads(pending), History(c, FALSE, TRUE)))
    ELSE Leave(c, GoneReads(pending))

-----------------------------------------------------------------------------

(* A read takes its answer from the store.                                   *)
Read(x) ==
    /\ x.step = "asked"
    /\ loads' = With(Without(loads, x),
                     IF x.what = "history"
                       THEN [x EXCEPT !.step = "read", !.seen = store.msgs[x.conv]]
                       ELSE [x EXCEPT !.step = "read", !.list = Listing])
    /\ UNCHANGED <<store, texts, side, view, calls, asks, events, typedIn, past, count>>

(* setMessages in loadHistory.  handleSend and handleDelete go on to refresh *)
(* the sidebar.                                                              *)
ShowHistory(x) ==
    /\ x.what = "history" /\ x.step = "read"
    /\ loads' = IF x.then THEN With(Without(loads, x), Sidebar) ELSE Without(loads, x)
    /\ IF x.here
         THEN /\ view' = [view EXCEPT !.shown = x.seen]
              /\ past' = [past EXCEPT !.chat =
                           @ \/ (view.shown = store.msgs[x.conv] /\ x.seen # view.shown)]
         ELSE UNCHANGED <<view, past>>
    /\ UNCHANGED <<store, texts, side, calls, asks, events, typedIn, count>>

(* setConversations in refreshSidebar: the open conversation's component     *)
(* comes and goes with its row.  Whoever selects a conversation afterwards   *)
(* has to wait for the avatars first.                                        *)
ShowSidebar(x) ==
    LET row == view.conv \in x.list.known
        rest == IF x.then THEN With(Without(loads, x),
                                    [SidebarThenOpen(x.conv) EXCEPT !.step = "avatars"])
                ELSE Without(loads, x)
    IN  /\ x.what = "sidebar" /\ x.step = "read"
        /\ side' = x.list
        /\ past' = [past EXCEPT
             !.side = @ \/ (side = Listing /\ x.list # side),
             !.row = @ \/ ~(side.known \subseteq x.list.known),
             !.chat = @ \/ (Mounted /\ ~row /\ Waits),
             !.lost = @ \/ (Mounted /\ ~row /\ view.text # <<>>)]
        /\ IF Mounted = row THEN loads' = rest /\ UNCHANGED <<view, calls, asks>>
           ELSE /\ view' = [NoView EXCEPT !.conv = view.conv]
                /\ loads' = IF row THEN With(GoneReads(rest), History(view.conv, FALSE, TRUE))
                                   ELSE GoneReads(rest)
                /\ calls' = Gone(calls) /\ asks' = Gone(asks)
        /\ UNCHANGED <<store, texts, events, typedIn, count>>

(* handleNewChat and handleCreateGroup select the new conversation.          *)
OpenNew(x) ==
    /\ x.step = "avatars"
    /\ Open(x.conv, Without(loads, x))
    /\ UNCHANGED <<store, texts, side, events, typedIn, count>>

-----------------------------------------------------------------------------

Counting == count.changes < MaxChanges /\ count' = [count EXCEPT !.changes = @ + 1]

(* A click on a row of the sidebar.                                          *)
Select(c) ==
    /\ c \in side.known /\ c # view.conv
    /\ count.selects < MaxSelects
    /\ count' = [count EXCEPT !.selects = @ + 1]
    /\ Open(c, loads)
    /\ UNCHANGED <<store, texts, side, events, typedIn>>

CallOf(kind, c, msg, text) ==
    [kind |-> kind, conv |-> c, msg |-> msg, text |-> text, here |-> TRUE,
     step |-> IF kind = "send" THEN "out" ELSE "start", waited |-> TRUE]

Start(kind, c, msg) ==
    /\ Counting
    /\ calls' = With(calls, CallOf(kind, c, msg, <<>>))
    /\ UNCHANGED <<store, texts, side, view, loads, asks, events, typedIn, past>>

(* handleDelete, from the menu that only the user's own messages have.       *)
Delete(m) ==
    /\ Mounted /\ m \in view.shown /\ texts[m] # <<>>
    /\ Start("delete", view.conv, m)

(* handleNewChat, handleCreateGroup and togglePin.                           *)
NewChat(c) == Start("new", c, 0)
CreateGroup(g) == g \notin store.known /\ Start("create", g, 0)
TogglePin(c) ==
    /\ c \in side.known
    /\ Start(IF c \in side.pinned THEN "unpin" ELSE "pin", c, 0)

(* What the call does to the store at once, before it sends anything.        *)
Changed(call) ==
    CASE call.kind = "delete" -> [store EXCEPT !.msgs[call.conv] = @ \ {call.msg}]
      [] call.kind = "pin"    -> [store EXCEPT !.pinned = @ \cup {call.conv}]
      [] call.kind = "unpin"  -> [store EXCEPT !.pinned = @ \ {call.conv}]
      [] OTHER                -> [store EXCEPT !.known = @ \cup {call.conv}]

(* Mutants of Following: the new conversation is selected before the sidebar *)
(* has been refreshed, and a pin does not refresh it.                        *)
FollowingUnlisted(call) ==
    CASE call.kind \in {"send", "delete"} -> {History(call.conv, TRUE, call.here)}
      [] call.kind \in {"new", "create"} ->
            {[SidebarThenOpen(call.conv) EXCEPT !.step = "avatars"]}
      [] OTHER -> {Sidebar}

FollowingUnlessPin(call) ==
    CASE call.kind \in {"send", "delete"} -> {History(call.conv, TRUE, call.here)}
      [] call.kind \in {"new", "create"}  -> {SidebarThenOpen(call.conv)}
      [] OTHER -> {}

(* What the caller does when its call returns.                               *)
Following(call) ==
    CASE call.kind \in {"send", "delete"} -> {History(call.conv, TRUE, call.here)}
      [] call.kind \in {"new", "create"}  -> {SidebarThenOpen(call.conv)}
      [] OTHER -> {Sidebar}

Returning(call) == IF call.waited THEN SetToBag(Following(call)) ELSE EmptyBag

(* markDeleted, createGroup of the store, addContact or setPinned; the last  *)
(* two are all there is to their calls.                                      *)
Change(call) ==
    LET rest == Without(calls, call)
        ends == call.kind \notin {"delete", "create"}
    IN  /\ call.step = "start"
        /\ calls' = IF ends THEN rest ELSE With(rest, [call EXCEPT !.step = "out"])
        /\ store' = Changed(call)
        /\ loads' = IF ends THEN loads (+) Returning(call) ELSE loads
        /\ UNCHANGED <<texts, side, view, asks, events, typedIn, past, count>>

(* The envelopes of a deletion have gone out.                                *)
FinishDelete(call) ==
    /\ call.step = "out" /\ call.kind = "delete"
    /\ calls' = Without(calls, call)
    /\ loads' = loads (+) Returning(call)
    /\ UNCHANGED <<store, texts, side, view, asks, events, typedIn, past, count>>

(* The envelopes of a text or an invitation have gone out: only now the text *)
(* is stored, with its contact, or the group's first system message.         *)
Finish(call) ==
    /\ call.step = "out" /\ call.kind # "delete"
    /\ calls' = Without(calls, call)
    /\ texts' = Append(texts, call.text)
    /\ store' = [store EXCEPT !.msgs[call.conv] = @ \cup {Len(texts')},
                              !.known = @ \cup ({call.conv} \cap Chats)]
    /\ loads' = loads (+) Returning(call)
    /\ past' = [past EXCEPT !.chat = @ \/ (call.kind = "create" /\ call.conv = view.conv)]
    /\ UNCHANGED <<side, view, asks, events, typedIn, count>>

Fault ==
    /\ count.faults < MaxFaults
    /\ count' = [count EXCEPT !.faults = @ + 1]
    /\ UNCHANGED <<store, texts, side, view, loads, asks, events, typedIn>>

(* An envelope does not go out: the call throws, and so does its caller,     *)
(* which leaves the store with what the call has changed so far.             *)
Break(call) ==
    /\ call.step = "out"
    /\ calls' = Without(calls, call)
    /\ past' = [past EXCEPT !.chat = @ \/ call.kind = "delete",
                            !.side = @ \/ call.kind \in {"delete", "create"},
                            !.lost = @ \/ call.kind = "send"]
    /\ Fault

(* The desktop bridge gives up on a call, which goes on.                     *)
Timeout(call) ==
    /\ call.step = "out" /\ call.waited
    /\ calls' = With(Without(calls, call), [call EXCEPT !.waited = FALSE])
    /\ past' = [past EXCEPT !.chat = TRUE, !.side = TRUE]
    /\ Fault

-----------------------------------------------------------------------------

(* An envelope is of a contact or of a group, but not of one whose creation  *)
(* here has not got past its first write.                                    *)
MayReceive(c) ==
    \A call \in BagToSet(calls) : call.kind = "create" /\ call.conv = c => c \in store.known

(* handleIncoming stores a message, or a line of a membership change, and    *)
(* its event is emitted later.  A group that is not there is made first.     *)
ReceiveMessage(c) ==
    /\ MayReceive(c)
    /\ Counting
    /\ texts' = Append(texts, <<>>)
    /\ store' = [store EXCEPT !.msgs[c] = @ \cup {Len(texts')}, !.known = @ \cup {c}]
    /\ events' = events + 1
    /\ UNCHANGED <<side, view, loads, calls, asks, typedIn, past>>

(* handleIncoming of an invitation: the group is there, without a message.   *)
ReceiveInvite(g) ==
    /\ MayReceive(g)
    /\ Counting
    /\ store' = [store EXCEPT !.known = @ \cup {g}]
    /\ events' = events + 1
    /\ UNCHANGED <<texts, side, view, loads, calls, asks, typedIn, past>>

(* handleIncoming of somebody's deletion of their message.                   *)
ReceiveDelete(c, m) ==
    /\ m \in store.msgs[c] /\ texts[m] = <<>>
    /\ Counting
    /\ store' = [store EXCEPT !.msgs[c] = @ \ {m}]
    /\ events' = events + 1
    /\ UNCHANGED <<texts, side, view, loads, calls, asks, typedIn, past>>

(* emit, and handleBackendEvent.                                             *)
Event ==
    /\ events > 0
    /\ events' = events - 1
    /\ loads' = loads (+) SetToBag(Refreshes)
    /\ UNCHANGED <<store, texts, side, view, calls, asks, typedIn, past, count>>

-----------------------------------------------------------------------------

Awaited == \E ask \in BagToSet(asks) : ask.why = "enter" /\ ask.here

Ask(why, text) ==
    asks' = With(asks, [why |-> why, conv |-> view.conv, text |-> text, here |-> TRUE])

(* handleChange: another piece of text; if it completes a word that will be  *)
(* corrected, the correction is awaited.                                     *)
Type(word) ==
    LET text == Append(view.text, Len(typedIn) + 1)
    IN  /\ Mounted /\ Len(typedIn) < MaxTyped
        /\ typedIn' = Append(typedIn, view.conv)
        /\ view' = [view EXCEPT !.text = text]
        /\ IF word THEN Ask("word", text) ELSE UNCHANGED asks
        /\ past' = [past EXCEPT !.lost = @ \/ Awaited]
        /\ UNCHANGED <<store, texts, side, loads, calls, events, count>>

(* Mutant of Corrected: the word stays, and its correction follows it.       *)
CorrectedAfter(text) == Append(text, -text[Len(text)])

(* The text with its last piece corrected.                                   *)
Corrected(text) == [text EXCEPT ![Len(text)] = IF @ > 0 THEN -@ ELSE @]

(* Mutant of Unedited: the correction is applied to whatever is in the box.  *)
UneditedNever(ask) == ask.here

(* handleChange's guard on a late answer.                                    *)
Unedited(ask) == ask.here /\ view.text = ask.text

(* The correction of a completed word arrives.                               *)
CorrectWord(ask) ==
    /\ ask.why = "word"
    /\ asks' = Without(asks, ask)
    /\ view' = IF Unedited(ask) THEN [view EXCEPT !.text = Corrected(ask.text)] ELSE view
    /\ UNCHANGED <<store, texts, side, loads, calls, events, typedIn, past, count>>

(* handleKeyDown for Enter, with the text as it is now.                      *)
Enter ==
    /\ Mounted /\ view.text # <<>>
    /\ count.changes + BagCardinality(asks) < MaxChanges
    /\ Ask("enter", view.text)
    /\ past' = [past EXCEPT !.twice = @ \/ Awaited]
    /\ UNCHANGED <<store, texts, side, view, loads, calls, events, typedIn, count>>

(* Mutant of Submit: the box is not emptied.                                 *)
SubmitKeepText(c, here, text) ==
    /\ Counting
    /\ calls' = With(calls, [CallOf("send", c, 0, text) EXCEPT !.here = here])
    /\ UNCHANGED <<store, texts, side, view, loads, events, typedIn>>

(* submit: handleSend starts, and the box, if it is still there, is emptied. *)
Submit(c, here, text) ==
    /\ Counting
    /\ calls' = With(calls, [CallOf("send", c, 0, text) EXCEPT !.here = here])
    /\ view' = IF here THEN [view EXCEPT !.text = <<>>] ELSE view
    /\ UNCHANGED <<store, texts, side, loads, events, typedIn>>

(* The answer that Enter awaited: what is submitted is the text as it was,   *)
(* corrected or not.                                                         *)
CorrectEnter(ask, found) ==
    /\ ask.why = "enter"
    /\ asks' = Without(asks, ask)
    /\ Submit(ask.conv, ask.here, IF found THEN Corrected(ask.text) ELSE ask.text)
    /\ UNCHANGED past

(* The Send button.                                                          *)
ClickSend ==
    /\ Mounted /\ view.text # <<>>
    /\ Submit(view.conv, TRUE, view.text)
    /\ past' = [past EXCEPT !.twice = @ \/ Awaited]
    /\ UNCHANGED asks

Next ==
    \/ \E x \in BagToSet(loads) : Read(x) \/ ShowHistory(x) \/ ShowSidebar(x) \/ OpenNew(x)
    \/ \E call \in BagToSet(calls) :
          \/ Change(call) \/ FinishDelete(call) \/ Finish(call)
          \/ Break(call) \/ Timeout(call)
    \/ \E c \in Convs : Select(c) \/ TogglePin(c) \/ ReceiveMessage(c)
    \/ \E c \in Chats : NewChat(c)
    \/ \E g \in Groups : CreateGroup(g) \/ ReceiveInvite(g)
    \/ \E m \in DOMAIN texts : Delete(m) \/ \E c \in Convs : ReceiveDelete(c, m)
    \/ Event
    \/ \E word \in BOOLEAN : Type(word)
    \/ \E ask \in BagToSet(asks) :
          CorrectWord(ask) \/ \E found \in BOOLEAN : CorrectEnter(ask, found)
    \/ Enter \/ ClickSend

Spec == Init /\ [][Next]_vars

-----------------------------------------------------------------------------

Pieces(text) == {IF text[i] < 0 THEN -text[i] ELSE text[i] : i \in DOMAIN text}

(* The texts that were submitted and are not stored yet.                     *)
Sending == {call \in BagToSet(calls) : call.kind = "send"}

AtRest == loads = EmptyBag /\ calls = EmptyBag /\ events = 0

(* Messages belong to one conversation, what is shown was stored, and no     *)
(* text has a piece twice (storage.ts:354-405, MessageInput.tsx:43-86).      *)
TypeOK ==
    /\ IsABag(loads) /\ IsABag(calls) /\ IsABag(asks)
    /\ \A c, d \in Convs : c # d => store.msgs[c] \cap store.msgs[d] = {}
    /\ view.shown \subseteq DOMAIN texts
    /\ Cardinality(Pieces(view.text)) = Len(view.text)

(* When nothing is under way, the open conversation shows what is stored,    *)
(* unless an outdated answer replaced the right one, a call failed after it  *)
(* had changed the store, a conversation was left while a call of its own    *)
(* was under way, or a group was opened before its creation was through      *)
(* (ChatView.tsx:34-82, MainWindow.tsx:55-72, 99-105).                       *)
ChatShowsTheStore ==
    AtRest /\ Mounted /\ ~past.chat =>
        view.shown = store.msgs[view.conv]

(* The same of the sidebar (MainWindow.tsx:31-37, 89-109).                   *)
SidebarShowsTheStore ==
    AtRest /\ ~past.side => side = Listing

(* MainWindow.tsx:89-113: a conversation that was selected stays open: its   *)
(* row, on which its component depends, is there, unless an older list came  *)
(* after a newer one.                                                        *)
ChatStaysOpen == view.conv # Null /\ ~past.row => Mounted

(* MessageInput.tsx:48-67: nothing is sent twice, unless Enter or Send is    *)
(* pressed again while the correction for an Enter is awaited.               *)
SentOnce ==
    ~past.twice =>
        /\ \A m, n \in DOMAIN texts : m # n => Pieces(texts[m]) \cap Pieces(texts[n]) = {}
        /\ \A x \in Sending :
              /\ calls[x] = 1
              /\ \A y \in Sending : x # y => Pieces(x.text) \cap Pieces(y.text) = {}
              /\ \A m \in DOMAIN texts : Pieces(texts[m]) \cap Pieces(x.text) = {}

(* MessageInput.tsx:55-86, ChatView.tsx:60-64: what was typed is in the box  *)
(* of the conversation it was typed in, about to be sent to it or stored in  *)
(* it, unless it was typed while the correction for an Enter was awaited,    *)
(* its conversation was left, or its call failed.                            *)
NothingTypedIsLost ==
    ~past.lost =>
        \A k \in DOMAIN typedIn :
            \/ k \in Pieces(view.text) /\ view.conv = typedIn[k]
            \/ \E x \in BagToSet(asks) :
                  x.why = "enter" /\ k \in Pieces(x.text) /\ x.conv = typedIn[k]
            \/ \E x \in Sending : k \in Pieces(x.text) /\ x.conv = typedIn[k]
            \/ \E m \in DOMAIN texts :
                  /\ k \in Pieces(texts[m])
                  /\ \A c \in Convs : m \in store.msgs[c] => c = typedIn[k]
=============================================================================
