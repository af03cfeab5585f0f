----------------------------- MODULE ChatProofs -----------------------------
(***************************************************************************)
(* Proofs about Chat, for any conversations and any bounds.                *)
(*                                                                         *)
(* The properties of the main window speak of moments of rest, or of a     *)
(* single change.  The invariants below say of every other moment what is  *)
(* under way that will put the window right, and who holds what was typed. *)
(***************************************************************************)
EXTENDS Chat, FiniteSetTheorems, SequenceTheorems, TLAPS

(* What is under way, each once however often it is.                         *)
Reads == BagToSet(loads)
Calls == BagToSet(calls)
Asks == BagToSet(asks)

(* The messages stored so far.                                               *)
Messages == 1..Len(texts)

(* A text: pieces that were typed, corrected or not, none of them twice.     *)
Piece(n) == IF n < 0 THEN -n ELSE n
IsText(text) ==
    /\ text \in Seq(Int)
    /\ \A i \in DOMAIN text : Piece(text[i]) \in DOMAIN typedIn
    /\ \A i, j \in DOMAIN text : i # j => Piece(text[i]) # Piece(text[j])

IsRead(x) ==
    /\ x = [what |-> x.what, conv |-> x.conv, then |-> x.then, here |-> x.here,
            step |-> x.step, seen |-> x.seen, list |-> x.list]
    /\ x.then \in BOOLEAN /\ x.here \in BOOLEAN
    /\ x.seen \subseteq Messages /\ x.list.known \subseteq Convs
    /\ \/ /\ x.what = "history" /\ x.conv \in Convs /\ x.step \in {"asked", "read"}
          /\ x.here => Mounted /\ x.conv = view.conv
       \/ /\ x.what = "sidebar" /\ x.here
          /\ x.step \in {"asked", "read"} \/ (x.step = "avatars" /\ x.then)
          /\ x.then => x.conv \in store.known
          /\ x.then /\ x.step = "read" => x.conv \in x.list.known

IsCall(call) ==
    /\ call = [kind |-> call.kind, conv |-> call.conv, msg |-> call.msg, text |-> call.text,
               here |-> call.here, step |-> call.step, waited |-> call.waited]
    /\ call.kind \in {"send", "delete", "new", "create", "pin", "unpin"}
    /\ call.conv \in Convs /\ (call.kind = "new" => call.conv \in Chats)
    /\ call.here \in BOOLEAN /\ call.waited \in BOOLEAN
    /\ \/ call.step = "start" /\ call.kind # "send" /\ call.waited
       \/ call.step = "out" /\ call.kind \in {"send", "delete", "create"}
    /\ call.kind = "create" /\ call.step = "out" => call.conv \in store.known
    /\ IF call.kind = "send" THEN IsText(call.text) /\ call.text # <<>> ELSE call.text = <<>>
    /\ call.kind \in {"send", "delete"} /\ call.here => Mounted /\ call.conv = view.conv

IsAsk(ask) ==
    /\ ask = [why |-> ask.why, conv |-> ask.conv, text |-> ask.text, here |-> ask.here]
    /\ ask.why \in {"word", "enter"} /\ ask.conv \in Convs /\ ask.here \in BOOLEAN
    /\ IsText(ask.text) /\ ask.text # <<>>
    /\ ask.here => Mounted /\ ask.conv = view.conv

ReadsOK == IsABag(loads) /\ \A x \in Reads : IsRead(x)
CallsOK == IsABag(calls) /\ \A call \in Calls : IsCall(call)
AsksOK == IsABag(asks) /\ \A ask \in Asks : IsAsk(ask)

StoreOK ==
    /\ store \in [msgs : [Convs -> SUBSET Messages], known : SUBSET Convs, pinned : SUBSET Convs]
    /\ \A c, d \in Convs : c # d => store.msgs[c] \cap store.msgs[d] = {}
    /\ texts \in Seq(Seq(Int)) /\ \A m \in Messages : IsText(texts[m])

ViewOK ==
    /\ view \in [conv : Convs \cup {Null}, shown : SUBSET Messages, text : Seq(Int)]
    /\ IsText(view.text) /\ (view.text # <<>> => Mounted)
    /\ side.known \subseteq Convs

Pasts == [chat : BOOLEAN, side : BOOLEAN, row : BOOLEAN, twice : BOOLEAN, lost : BOOLEAN]
Counts == [selects : Nat, changes : Nat, faults : Nat]
RecordsOK ==
    /\ past \in Pasts /\ count \in Counts /\ events \in Nat /\ typedIn \in Seq(Convs)

Base == ReadsOK /\ CallsOK /\ AsksOK /\ StoreOK /\ ViewOK /\ RecordsOK

-----------------------------------------------------------------------------

(* A row that is there stays, and what is about to be selected has one.      *)
RowOK == ~past.row =>
    /\ view.conv # Null => Mounted
    /\ \A x \in Reads : x.step = "avatars" => x.conv \in side.known

(* Something is under way that will bring the sidebar up to date.            *)
SideRead(x) ==
    \/ /\ x.what = "sidebar"
       /\ x.step = "asked" \/ (x.step = "read" /\ x.list = Listing)
    \/ x.what = "history" /\ x.then
SideCall(call) == call.kind \in {"delete", "create"} /\ call.step = "out"
SideDue ==
    (\E x \in Reads : SideRead(x)) \/ (\E call \in Calls : SideCall(call)) \/ events > 0

SideOK == ~past.side =>
    /\ \A call \in Calls : call.waited
    /\ side = Listing \/ SideDue

(* The same of the open conversation, which waits for all of its own.        *)
ChatRead(x) ==
    /\ x.what = "history" /\ x.here
    /\ x.step = "asked" \/ (x.step = "read" /\ x.seen = store.msgs[view.conv])
ChatCall(call) == call.kind = "delete" /\ call.step = "out"
ChatDue ==
    (\E x \in Reads : ChatRead(x)) \/ (\E call \in Calls : ChatCall(call)) \/ events > 0

Own(call) == call.waited /\ (call.kind \in {"send", "delete"} => call.here)
OwnAsk(ask) == ask.why = "enter" => ask.here
ChatOK == ~past.chat =>
    /\ \A call \in Calls : Own(call)
    /\ \A ask \in Asks : OwnAsk(ask)
    /\ Mounted => view.shown = store.msgs[view.conv] \/ ChatDue

-----------------------------------------------------------------------------

Entered == {ask \in Asks : ask.why = "enter"}
Apart(s, t) == Pieces(s) \cap Pieces(t) = {}

(* Every piece has one holder: a stored text, a send, an Enter that waits or *)
(* the text box, which shares its pieces with an Enter of its own component. *)
Once ==
    /\ \A m, n \in Messages : m # n => Apart(texts[m], texts[n])
    /\ \A x \in Sending :
          /\ calls[x] = 1 /\ Apart(x.text, view.text)
          /\ \A y \in Sending : x # y => Apart(x.text, y.text)
          /\ \A m \in Messages : Apart(texts[m], x.text)
    /\ \A m \in Messages : Apart(texts[m], view.text)
    /\ \A a \in Entered :
          /\ asks[a] = 1
          /\ \A b \in Entered : a # b => Apart(a.text, b.text) /\ ~(a.here /\ b.here)
          /\ \A x \in Sending : Apart(a.text, x.text)
          /\ \A m \in Messages : Apart(texts[m], a.text)
          /\ IF a.here THEN Pieces(a.text) \subseteq Pieces(view.text) ELSE Apart(a.text, view.text)
OnceOK == ~past.twice => Once

(* Every piece has a holder in the conversation it was typed in.             *)
Held(k) ==
    \/ k \in Pieces(view.text) /\ view.conv = typedIn[k]
    \/ \E a \in Entered : k \in Pieces(a.text) /\ a.conv = typedIn[k]
    \/ \E x \in Sending : k \in Pieces(x.text) /\ x.conv = typedIn[k]
    \/ \E m \in Messages :
          /\ k \in Pieces(texts[m])
          /\ \A c \in Convs : m \in store.msgs[c] => c = typedIn[k]
KeptOK == ~past.lost =>
    /\ \A k \in DOMAIN typedIn : Held(k)
    /\ \A a \in Entered : a.here => Pieces(view.text) \subseteq Pieces(a.text)

-----------------------------------------------------------------------------

(* A bag with a further entry, and with one less.                            *)
LEMMA WithBag ==
    ASSUME NEW b, IsABag(b), NEW x
    PROVE  /\ IsABag(With(b, x))
           /\ BagToSet(With(b, x)) = BagToSet(b) \cup {x}
           /\ \A y \in BagToSet(b) \ {x} : With(b, x)[y] = b[y]
           /\ x \notin BagToSet(b) => With(b, x)[x] = 1
BY DEF With, IsABag, SetToBag, BagToSet, (+)

(* A bag with one entry less.                                                *)
LEMMA WithoutBag ==
    ASSUME NEW b, IsABag(b), NEW x
    PROVE  /\ IsABag(Without(b, x))
           /\ BagToSet(Without(b, x)) \subseteq BagToSet(b)
           /\ BagToSet(b) \ {x} \subseteq BagToSet(Without(b, x))
           /\ \A y \in BagToSet(b) \ {x} : Without(b, x)[y] = b[y]
           /\ x \in BagToSet(b) /\ b[x] = 1 => x \notin BagToSet(Without(b, x))
BY DEF Without, IsABag, SetToBag, BagToSet, (-)

(* A bag with all of a set.                                                  *)
LEMMA PlusBag ==
    ASSUME NEW b, IsABag(b), NEW S
    PROVE  /\ IsABag(SetToBag(S)) /\ IsABag(b (+) SetToBag(S))
           /\ BagToSet(b (+) SetToBag(S)) = BagToSet(b) \cup S
BY DEF IsABag, SetToBag, BagToSet, (+)

(* Entries with a mark.                                                      *)
Markable(x) == x = [f \in DOMAIN x |-> x[f]] /\ "here" \in DOMAIN x /\ x.here \in BOOLEAN

Unmarked(x) == [x EXCEPT !.here = FALSE]

(* The entries of a component that is gone: each has lost its mark.          *)
LEMMA GoneBag ==
    ASSUME NEW b, IsABag(b), \A x \in BagToSet(b) : Markable(x)
    PROVE  /\ IsABag(Gone(b))
           /\ BagToSet(Gone(b)) = {Unmarked(x) : x \in BagToSet(b)}
           /\ \A x \in BagToSet(b) :
                 /\ x.here /\ Unmarked(x) \notin BagToSet(b) => Gone(b)[Unmarked(x)] = b[x]
                 /\ ~x.here /\ [x EXCEPT !.here = TRUE] \notin BagToSet(b) => Gone(b)[x] = b[x]
<1> DEFINE marked == {x \in BagToSet(b) : x.here}
           here(y) == [y EXCEPT !.here = TRUE]
           rest == [x \in {y \in BagToSet(b) : ~y.here} |-> b[x]]
           moved == [y \in {Unmarked(x) : x \in marked} |-> b[here(y)]]
<1>1. Gone(b) = rest (+) moved
  BY DEF Gone, Only, Unmarked
<1>2. \A x \in BagToSet(b) : x.here => here(Unmarked(x)) = x
  BY DEF Markable, Unmarked
<1>3. \A x \in BagToSet(b) : ~x.here => Unmarked(x) = x
  BY DEF Markable, Unmarked
<1>4. \A x \in BagToSet(b) : b[x] \in Nat /\ b[x] > 0
  BY DEF IsABag, BagToSet
<1>5. \A y \in DOMAIN moved : moved[y] \in Nat /\ moved[y] > 0
  BY <1>2, <1>4
<1>6. \A y \in DOMAIN rest : rest[y] \in Nat /\ rest[y] > 0
  BY <1>4
<1> DEFINE g == rest (+) moved
<1>7. /\ DOMAIN g = DOMAIN rest \cup DOMAIN moved
      /\ \A y \in DOMAIN g : g[y] = (IF y \in DOMAIN rest THEN rest[y] ELSE 0)
                                  + (IF y \in DOMAIN moved THEN moved[y] ELSE 0)
      /\ g = [y \in DOMAIN g |-> g[y]]
  BY DEF (+)
<1>8. DOMAIN g = {Unmarked(x) : x \in BagToSet(b)}
  <2>1. DOMAIN rest = {x \in BagToSet(b) : ~x.here}
    OBVIOUS
  <2>2. DOMAIN moved = {Unmarked(x) : x \in marked}
    OBVIOUS
  <2>3. \A x \in DOMAIN rest : x \in BagToSet(b) /\ x = Unmarked(x)
    BY <2>1, <1>3
  <2>4. \A x \in BagToSet(b) : Unmarked(x) \in DOMAIN rest \cup DOMAIN moved
    BY <2>1, <2>2, <1>3
  <2>5. \A y \in DOMAIN moved : \E x \in BagToSet(b) : y = Unmarked(x)
    BY <2>2
  <2> HIDE DEF g, rest, moved
  <2> QED
    BY <2>3, <2>4, <2>5, <1>7
<1>9. IsABag(g)
  <2> HIDE DEF g, rest, moved
  <2> QED
    BY <1>5, <1>6, <1>7 DEF IsABag
<1>10. ASSUME NEW x \in BagToSet(b), x.here, Unmarked(x) \notin BagToSet(b)
       PROVE  g[Unmarked(x)] = b[x]
  <2>1. Unmarked(x) \in DOMAIN moved /\ moved[Unmarked(x)] = b[x]
    BY <1>2, <1>10
  <2>2. Unmarked(x) \notin DOMAIN rest
    BY <1>10
  <2> HIDE DEF g, rest, moved
  <2> QED
    BY <2>1, <2>2, <1>4, <1>7
<1>11. ASSUME NEW x \in BagToSet(b), ~x.here, here(x) \notin BagToSet(b)
       PROVE  g[x] = b[x]
  <2>1. x \in DOMAIN rest /\ rest[x] = b[x]
    BY <1>11
  <2>2. x \notin DOMAIN moved
    BY <1>2, <1>11
  <2> HIDE DEF g, rest, moved
  <2> QED
    BY <2>1, <2>2, <1>4, <1>7
<1> QED
  BY <1>1, <1>8, <1>9, <1>10, <1>11 DEF BagToSet

(* The reads that a component leaves behind: those for the sidebar, and those*)
(* that go on to it, which have lost their mark.                             *)
LEMMA GoneReadsBag ==
    ASSUME NEW b, IsABag(b), \A x \in BagToSet(b) : Markable(x)
    PROVE  /\ IsABag(GoneReads(b))
           /\ \A y \in BagToSet(GoneReads(b)) :
                 \/ y.what = "sidebar" /\ y \in BagToSet(b)
                 \/ \E x \in BagToSet(b) : x.what = "history" /\ x.then /\ y = Unmarked(x)
           /\ \A x \in BagToSet(b) :
                 /\ x.what = "sidebar" => x \in BagToSet(GoneReads(b))
                 /\ x.what = "history" /\ x.then => Unmarked(x) \in BagToSet(GoneReads(b))
<1> DEFINE lists == [x \in {y \in BagToSet(b) : y.what = "sidebar"} |-> b[x]]
           going == [x \in {y \in BagToSet(b) : y.what = "history" /\ y.then} |-> b[x]]
<1>1. GoneReads(b) = lists (+) Gone(going)
  BY DEF GoneReads, Only
<1>2. \A x \in BagToSet(b) : b[x] \in Nat /\ b[x] > 0
  BY DEF IsABag, BagToSet
<1>3. /\ IsABag(lists) /\ BagToSet(lists) = {y \in BagToSet(b) : y.what = "sidebar"}
      /\ IsABag(going) /\ BagToSet(going) = {y \in BagToSet(b) : y.what = "history" /\ y.then}
  BY <1>2 DEF IsABag, BagToSet
<1> HIDE DEF lists, going
<1>4. IsABag(Gone(going)) /\ BagToSet(Gone(going)) = {Unmarked(x) : x \in BagToSet(going)}
  BY <1>3, GoneBag
<1> DEFINE gone == Gone(going)
<1>5. /\ IsABag(lists (+) gone)
      /\ BagToSet(lists (+) gone) = BagToSet(lists) \cup BagToSet(gone)
  <2> HIDE DEF gone
  <2>1. IsABag(lists) /\ IsABag(gone)
    BY <1>3, <1>4 DEF gone
  <2> QED
    BY <2>1 DEF IsABag, BagToSet, (+)
<1> QED
  BY <1>1, <1>3, <1>4, <1>5

-----------------------------------------------------------------------------

(* The pieces of a text, and of one with its last piece corrected.           *)
LEMMA PiecesOf ==
    ASSUME NEW text \in Seq(Int)
    PROVE  Pieces(text) = {Piece(text[i]) : i \in DOMAIN text}
BY DEF Pieces, Piece

(* Correcting a word keeps the pieces, in their order.                       *)
LEMMA CorrectedKeeps ==
    ASSUME NEW text, IsText(text), text # <<>>
    PROVE  /\ IsText(Corrected(text)) /\ Corrected(text) # <<>>
           /\ Pieces(Corrected(text)) = Pieces(text)
<1> DEFINE new == Corrected(text)
<1>1. text \in Seq(Int) /\ Len(text) \in DOMAIN text /\ DOMAIN text = 1..Len(text)
  BY DEF IsText
<1>2. /\ new \in Seq(Int) /\ DOMAIN new = DOMAIN text /\ Len(new) = Len(text)
      /\ \A i \in DOMAIN text : new[i] = text[i] \/ (text[i] > 0 /\ new[i] = -text[i])
  BY <1>1 DEF Corrected
<1>3. \A i \in DOMAIN text : text[i] \in Int
  BY <1>1
<1>4. \A i \in DOMAIN text : Piece(new[i]) = Piece(text[i])
  BY <1>2, <1>3 DEF Piece
<1> HIDE DEF new
<1>5. IsText(new) /\ new # <<>>
  BY <1>1, <1>2, <1>4 DEF IsText
<1>6. Pieces(new) = Pieces(text)
  <2>1. Pieces(new) = {Piece(new[i]) : i \in DOMAIN text}
    BY <1>2, PiecesOf
  <2>2. Pieces(text) = {Piece(text[i]) : i \in DOMAIN text}
    BY <1>1, PiecesOf
  <2> QED
    BY <2>1, <2>2, <1>4
<1> QED
  BY <1>5, <1>6 DEF new

(* The empty text, and one with a new piece.                                 *)
LEMMA EmptyText == IsText(<<>>) /\ Pieces(<<>>) = {}
BY DEF IsText, Pieces

(* A text with one more piece, which is in none of it, is a text.            *)
LEMMA AppendedText ==
    ASSUME NEW text, IsText(text), typedIn \in Seq(Convs), NEW c \in Convs,
           typedIn' = Append(typedIn, c), NEW n, n = Len(typedIn) + 1,
           NEW new, new = Append(text, n)
    PROVE  /\ IsText(new)' /\ new # <<>>
           /\ Pieces(new) = Pieces(text) \cup {n}
           /\ n \notin DOMAIN typedIn
<1>1. text \in Seq(Int) /\ DOMAIN text = 1..Len(text) /\ Len(text) \in Nat
  BY DEF IsText
<1>2. DOMAIN typedIn = 1..Len(typedIn) /\ Len(typedIn) \in Nat /\ n \notin DOMAIN typedIn
  OBVIOUS
<1>3. DOMAIN typedIn' = DOMAIN typedIn \cup {n}
  BY <1>2
<1>4. n \in Int /\ Piece(n) = n
  BY <1>2 DEF Piece
<1>5. /\ new \in Seq(Int) /\ DOMAIN new = DOMAIN text \cup {Len(text) + 1}
      /\ new[Len(text) + 1] = n /\ \A i \in DOMAIN text : new[i] = text[i]
      /\ Len(text) + 1 \notin DOMAIN text
  BY <1>1, <1>4
<1>6. \A i \in DOMAIN text : Piece(text[i]) \in DOMAIN typedIn
  BY DEF IsText
<1>7. \A i, j \in DOMAIN text : i # j => Piece(text[i]) # Piece(text[j])
  BY DEF IsText
<1>8. IsText(new)'
  <2>1. \A i \in DOMAIN new : Piece(new[i]) \in DOMAIN typedIn'
    BY <1>3, <1>4, <1>5, <1>6
  <2>2. \A i, j \in DOMAIN new : i # j => Piece(new[i]) # Piece(new[j])
    BY <1>2, <1>4, <1>5, <1>6, <1>7
  <2> QED
    BY <2>1, <2>2, <1>5 DEF IsText
<1>9. Pieces(new) = Pieces(text) \cup {n}
  <2>1. Pieces(new) = {Piece(new[i]) : i \in DOMAIN new}
    BY <1>5, PiecesOf
  <2>2. Pieces(text) = {Piece(text[i]) : i \in DOMAIN text}
    BY <1>1, PiecesOf
  <2> QED
    BY <2>1, <2>2, <1>4, <1>5
<1> QED
  BY <1>2, <1>5, <1>8, <1>9

(* A text stays one when more is typed.                                      *)
LEMMA TextStays ==
    ASSUME NEW text, IsText(text), DOMAIN typedIn \subseteq DOMAIN typedIn'
    PROVE  IsText(text)'
BY DEF IsText

(* As many pieces as it is long.                                             *)
LEMMA TextLength ==
    ASSUME NEW text, IsText(text)
    PROVE  Cardinality(Pieces(text)) = Len(text)
<1>1. text \in Seq(Int) /\ DOMAIN text = 1..Len(text) /\ Len(text) \in Nat
  BY DEF IsText
<1> DEFINE f == [i \in 1..Len(text) |-> Piece(text[i])]
<1>2. f \in Bijection(1..Len(text), Pieces(text))
  <2>1. Pieces(text) = {f[i] : i \in 1..Len(text)}
    BY <1>1, PiecesOf
  <2>2. \A i, j \in 1..Len(text) : f[i] = f[j] => i = j
    BY <1>1 DEF IsText
  <2> QED
    BY <2>1, <2>2 DEF Bijection, Injection, Surjection, IsInjective
<1>3. IsFiniteSet(1..Len(text)) /\ Cardinality(1..Len(text)) = Len(text)
  BY <1>1, FS_Interval
<1> QED
  BY <1>2, <1>3, FS_Bijection DEF ExistsBijection

-----------------------------------------------------------------------------

(* Nothing that was stored or typed goes, and the open conversation stays.   *)
Grows ==
    /\ Messages \subseteq Messages' /\ store.known \subseteq store'.known
    /\ DOMAIN typedIn \subseteq DOMAIN typedIn'
SameOpen == Mounted => Mounted' /\ view'.conv = view.conv

(* Then what is under way is as good as it was.                              *)
LEMMA ReadStays ==
    ASSUME NEW x, IsRead(x), Grows, SameOpen
    PROVE  IsRead(x)'
BY DEF IsRead, Grows, SameOpen

(* A call and an answer awaited stay what they are as the window moves on.   *)
LEMMA CallStays ==
    ASSUME NEW call, IsCall(call), Grows, SameOpen
    PROVE  IsCall(call)'
BY TextStays DEF IsCall, Grows, SameOpen

LEMMA AskStays ==
    ASSUME NEW ask, IsAsk(ask), Grows, SameOpen
    PROVE  IsAsk(ask)'
BY TextStays DEF IsAsk, Grows, SameOpen

(* What is under way can lose its mark, whatever opens.                      *)
LEMMA UnmarkedRead ==
    ASSUME NEW x, IsRead(x)
    PROVE  /\ Markable(x)
           /\ LET y == Unmarked(x)
              IN  /\ y.what = x.what /\ y.conv = x.conv /\ y.then = x.then /\ ~y.here
                  /\ y.step = x.step /\ y.seen = x.seen /\ y.list = x.list
           /\ Grows /\ x.what = "history" => IsRead(Unmarked(x))'
<1>1. Markable(x)
  BY DEF IsRead, Markable
<1> DEFINE y == Unmarked(x)
<1>2. y \in [what : {x.what}, conv : {x.conv}, then : {x.then}, here : {FALSE},
          step : {x.step}, seen : {x.seen}, list : {x.list}]
  <2>1. x \in [what : {x.what}, conv : {x.conv}, then : {x.then}, here : BOOLEAN,
          step : {x.step}, seen : {x.seen}, list : {x.list}]
    BY DEF IsRead
  <2> QED
    BY <2>1 DEF Unmarked
<1> HIDE DEF y
<1>3. /\ y.what = x.what /\ y.conv = x.conv /\ y.then = x.then /\ ~y.here
      /\ y.step = x.step /\ y.seen = x.seen /\ y.list = x.list /\ y.here = FALSE
  BY <1>2
<1>4. ASSUME Grows, x.what = "history"
      PROVE  IsRead(y)'
  <2>1. y = [what |-> y.what, conv |-> y.conv, then |-> y.then, here |-> y.here,
             step |-> y.step, seen |-> y.seen, list |-> y.list]
    BY <1>2
  <2> QED
    BY <2>1, <1>3, <1>4 DEF IsRead, Grows
<1> QED
  BY <1>1, <1>3, <1>4 DEF y

(* A call whose component is gone is still a call.                           *)
LEMMA UnmarkedCall ==
    ASSUME NEW call, IsCall(call)
    PROVE  /\ Markable(call)
           /\ LET y == Unmarked(call)
              IN  /\ y.kind = call.kind /\ y.conv = call.conv /\ y.msg = call.msg
                  /\ y.text = call.text /\ ~y.here /\ y.step = call.step /\ y.waited = call.waited
           /\ Grows => IsCall(Unmarked(call))'
<1>1. Markable(call)
  BY DEF IsCall, Markable
<1> DEFINE y == Unmarked(call)
<1>2. y \in [kind : {call.kind}, conv : {call.conv}, msg : {call.msg}, text : {call.text},
          here : {FALSE}, step : {call.step}, waited : {call.waited}]
  <2>1. call \in [kind : {call.kind}, conv : {call.conv}, msg : {call.msg}, text : {call.text},
          here : BOOLEAN, step : {call.step}, waited : {call.waited}]
    BY DEF IsCall
  <2> QED
    BY <2>1 DEF Unmarked
<1> HIDE DEF y
<1>3. /\ y.kind = call.kind /\ y.conv = call.conv /\ y.msg = call.msg
      /\ y.text = call.text /\ ~y.here /\ y.step = call.step /\ y.waited = call.waited
      /\ y.here = FALSE
  BY <1>2
<1>4. ASSUME Grows
      PROVE  IsCall(y)'
  <2>1. y = [kind |-> y.kind, conv |-> y.conv, msg |-> y.msg, text |-> y.text,
             here |-> y.here, step |-> y.step, waited |-> y.waited]
    BY <1>2
  <2> QED
    BY <2>1, <1>3, <1>4, TextStays DEF IsCall, Grows
<1> QED
  BY <1>1, <1>3, <1>4 DEF y

(* The same of an answer awaited.                                            *)
LEMMA UnmarkedAsk ==
    ASSUME NEW ask, IsAsk(ask)
    PROVE  /\ Markable(ask)
           /\ LET y == Unmarked(ask)
              IN  y.why = ask.why /\ y.conv = ask.conv /\ y.text = ask.text /\ ~y.here
           /\ Grows => IsAsk(Unmarked(ask))'
<1>1. Markable(ask)
  BY DEF IsAsk, Markable
<1> DEFINE y == Unmarked(ask)
<1>2. y \in [why : {ask.why}, conv : {ask.conv}, text : {ask.text}, here : {FALSE}]
  <2>1. ask \in [why : {ask.why}, conv : {ask.conv}, text : {ask.text}, here : BOOLEAN]
    BY DEF IsAsk
  <2> QED
    BY <2>1 DEF Unmarked
<1> HIDE DEF y
<1>3. y.why = ask.why /\ y.conv = ask.conv /\ y.text = ask.text /\ y.here = FALSE
  BY <1>2
<1>4. ASSUME Grows
      PROVE  IsAsk(y)'
  <2>1. y = [why |-> y.why, conv |-> y.conv, text |-> y.text, here |-> y.here]
    BY <1>2
  <2> QED
    BY <2>1, <1>3, <1>4, TextStays DEF IsAsk, Grows
<1> QED
  BY <1>1, <1>3, <1>4 DEF y

(* The reads that are asked for.                                             *)
LEMMA HistoryMade ==
    ASSUME NEW c \in Convs, NEW then \in BOOLEAN, NEW here \in BOOLEAN
    PROVE  LET x == History(c, then, here)
           IN  /\ x.what = "history" /\ x.conv = c /\ x.then = then /\ x.here = here
               /\ x.step = "asked" /\ x.seen = {}
               /\ (here => Mounted' /\ c = view'.conv) => IsRead(x)'
BY DEF History, Load, NoListing, IsRead

(* What asking for the sidebar's list adds to the reads.                     *)
LEMMA SidebarMade ==
    /\ Sidebar.what = "sidebar" /\ Sidebar.then = FALSE /\ Sidebar.here = TRUE
    /\ Sidebar.step = "asked" /\ IsRead(Sidebar)'
BY DEF Sidebar, Load, NoListing, IsRead

(* A read on its way: asked, answered, or waiting for the avatars.           *)
LEMMA ReadMoved ==
    ASSUME NEW x,
           x = [what |-> x.what, conv |-> x.conv, then |-> x.then, here |-> x.here,
                step |-> x.step, seen |-> x.seen, list |-> x.list],
           NEW step, NEW seen, NEW list, NEW y,
           \/ y = [x EXCEPT !.step = step] /\ seen = x.seen /\ list = x.list
           \/ y = [x EXCEPT !.step = step, !.seen = seen] /\ list = x.list
           \/ y = [x EXCEPT !.step = step, !.list = list] /\ seen = x.seen
    PROVE  /\ y = [what |-> x.what, conv |-> x.conv, then |-> x.then, here |-> x.here,
                   step |-> step, seen |-> seen, list |-> list]
           /\ y.what = x.what /\ y.conv = x.conv /\ y.then = x.then /\ y.here = x.here
           /\ y.step = step /\ y.seen = seen /\ y.list = list
<1>1. x \in [what : {x.what}, conv : {x.conv}, then : {x.then}, here : {x.here},
             step : {x.step, step}, seen : {x.seen, seen}, list : {x.list, list}]
  OBVIOUS
<1>2. y \in [what : {x.what}, conv : {x.conv}, then : {x.then}, here : {x.here},
             step : {step}, seen : {seen}, list : {list}]
  BY <1>1
<1> QED
  BY <1>2

(* What asking for it before a conversation opens adds.                      *)
LEMMA SidebarThenOpenMade ==
    ASSUME NEW c \in Convs
    PROVE  LET x == SidebarThenOpen(c)
               y == [x EXCEPT !.step = "avatars"]
           IN  /\ x.what = "sidebar" /\ x.conv = c /\ x.then = TRUE /\ x.here = TRUE
               /\ x.step = "asked"
               /\ y.what = "sidebar" /\ y.conv = c /\ y.then = TRUE /\ y.here = TRUE
               /\ y.step = "avatars"
               /\ c \in store'.known => IsRead(x)' /\ IsRead(y)'
<1> DEFINE x == SidebarThenOpen(c)
           y == [x EXCEPT !.step = "avatars"]
<1>1. x = [what |-> "sidebar", conv |-> c, then |-> TRUE, here |-> TRUE, step |-> "asked",
           seen |-> {}, list |-> NoListing]
  BY DEF SidebarThenOpen, Load
<1>2. y = [what |-> "sidebar", conv |-> c, then |-> TRUE, here |-> TRUE, step |-> "avatars",
           seen |-> {}, list |-> NoListing]
  <2>1. y = [x EXCEPT !.step = "avatars"]
    OBVIOUS
  <2> HIDE DEF x, y
  <2>2. /\ x.what = "sidebar" /\ x.conv = c /\ x.then = TRUE /\ x.here = TRUE
        /\ x.step = "asked" /\ x.seen = {} /\ x.list = NoListing
    BY <1>1
  <2> QED
    BY <1>1, <2>1, <2>2, ReadMoved
<1> HIDE DEF x, y
<1>3. NoListing.known = {}
  BY DEF NoListing
<1>4. /\ x.what = "sidebar" /\ x.conv = c /\ x.then = TRUE /\ x.here = TRUE
      /\ x.step = "asked" /\ x.seen = {} /\ x.list = NoListing
  BY <1>1
<1>5. /\ y.what = "sidebar" /\ y.conv = c /\ y.then = TRUE /\ y.here = TRUE
      /\ y.step = "avatars" /\ y.seen = {} /\ y.list = NoListing
  BY <1>2
<1>6. c \in store'.known => IsRead(x)' /\ IsRead(y)'
  BY <1>1, <1>2, <1>3, <1>4, <1>5 DEF IsRead
<1> QED
  BY <1>4, <1>5, <1>6 DEF x, y

-----------------------------------------------------------------------------

(* One entry of a bag becomes another.                                       *)
LEMMA ReplacedBag ==
    ASSUME NEW b, IsABag(b), NEW x, NEW y, NEW new, new = With(Without(b, x), y)
    PROVE  /\ IsABag(new)
           /\ BagToSet(new) \subseteq BagToSet(b) \cup {y}
           /\ BagToSet(b) \ {x} \subseteq BagToSet(new) /\ y \in BagToSet(new)
           /\ \A z \in BagToSet(b) \ {x, y} : new[z] = b[z]
           /\ y \notin BagToSet(b) => new[y] = 1
           /\ x \in BagToSet(b) /\ b[x] = 1 /\ x # y => x \notin BagToSet(new)
<1> DEFINE rest == Without(b, x)
<1>1. /\ IsABag(rest) /\ BagToSet(rest) \subseteq BagToSet(b)
      /\ BagToSet(b) \ {x} \subseteq BagToSet(rest)
      /\ \A z \in BagToSet(b) \ {x} : rest[z] = b[z]
      /\ x \in BagToSet(b) /\ b[x] = 1 => x \notin BagToSet(rest)
  BY WithoutBag
<1> HIDE DEF rest
<1>2. /\ IsABag(With(rest, y)) /\ BagToSet(With(rest, y)) = BagToSet(rest) \cup {y}
      /\ \A z \in BagToSet(rest) \ {y} : With(rest, y)[z] = rest[z]
      /\ y \notin BagToSet(rest) => With(rest, y)[y] = 1
  BY <1>1, WithBag
<1>3. new = With(rest, y)
  BY DEF rest
<1> QED
  BY <1>1, <1>2, <1>3

(* The open conversation's component goes, and with d another one comes.     *)
Closes(d, rest) ==
    /\ view' = [NoView EXCEPT !.conv = d]
    /\ loads' = IF d \in side'.known THEN With(GoneReads(rest), History(d, FALSE, TRUE))
                ELSE GoneReads(rest)
    /\ calls' = Gone(calls) /\ asks' = Gone(asks)
    /\ UNCHANGED <<store, texts, typedIn, events>>
    /\ side'.known \subseteq Convs

(* What closing the open component does to all that is under way.            *)
LEMMA ClosesEffect ==
    ASSUME Base, NEW d \in Convs \cup {Null}, NEW rest, IsABag(rest),
           \A x \in BagToSet(rest) : IsRead(x), Closes(d, rest)
    PROVE  /\ view' = [conv |-> d, shown |-> {}, text |-> <<>>]
           /\ IsABag(loads')
           /\ \A y \in Reads' :
                 \/ y.what = "sidebar" /\ y \in BagToSet(rest)
                 \/ \E x \in BagToSet(rest) : x.what = "history" /\ x.then /\ y = Unmarked(x)
                 \/ d \in side'.known /\ y = History(d, FALSE, TRUE)
           /\ \A x \in BagToSet(rest) :
                 /\ x.what = "sidebar" => x \in Reads'
                 /\ x.what = "history" /\ x.then => Unmarked(x) \in Reads'
           /\ d \in side'.known => History(d, FALSE, TRUE) \in Reads'
           /\ IsABag(calls') /\ Calls' = {Unmarked(x) : x \in Calls}
           /\ IsABag(asks') /\ Asks' = {Unmarked(x) : x \in Asks}
<1>1. view' = [conv |-> d, shown |-> {}, text |-> <<>>]
  <2>1. NoView \in [conv : {Null, d}, shown : {{}}, text : {<<>>}]
    BY DEF NoView
  <2>2. view' \in [conv : {d}, shown : {{}}, text : {<<>>}]
    BY <2>1 DEF Closes
  <2> QED
    BY <2>2
<1>2. \A x \in BagToSet(rest) : Markable(x)
  BY UnmarkedRead
<1> DEFINE gone == GoneReads(rest)
<1>3. /\ IsABag(gone)
      /\ \A y \in BagToSet(gone) :
            \/ y.what = "sidebar" /\ y \in BagToSet(rest)
            \/ \E x \in BagToSet(rest) : x.what = "history" /\ x.then /\ y = Unmarked(x)
      /\ \A x \in BagToSet(rest) :
            /\ x.what = "sidebar" => x \in BagToSet(gone)
            /\ x.what = "history" /\ x.then => Unmarked(x) \in BagToSet(gone)
  BY <1>2, GoneReadsBag
<1> HIDE DEF gone
<1>4. /\ IsABag(With(gone, History(d, FALSE, TRUE)))
      /\ BagToSet(With(gone, History(d, FALSE, TRUE))) = BagToSet(gone) \cup {History(d, FALSE, TRUE)}
  BY <1>3, WithBag
<1>5. loads' = IF d \in side'.known THEN With(gone, History(d, FALSE, TRUE)) ELSE gone
  BY DEF Closes, gone
<1>6. IsABag(calls) /\ IsABag(asks) /\ (\A x \in Calls : Markable(x)) /\ (\A x \in Asks : Markable(x))
  BY UnmarkedCall, UnmarkedAsk DEF Base, CallsOK, AsksOK
<1>7. IsABag(calls') /\ Calls' = {Unmarked(x) : x \in Calls}
  BY <1>6, GoneBag DEF Closes, Calls
<1>8. IsABag(asks') /\ Asks' = {Unmarked(x) : x \in Asks}
  BY <1>6, GoneBag DEF Closes, Asks
<1>9. /\ IsABag(loads') /\ BagToSet(loads') = Reads'
      /\ Reads' = IF d \in side'.known THEN BagToSet(gone) \cup {History(d, FALSE, TRUE)} ELSE BagToSet(gone)
  BY <1>3, <1>4, <1>5 DEF Reads
<1> QED
  BY <1>1, <1>3, <1>7, <1>8, <1>9

(* What is shown of a conversation fits what is stored, also when another    *)
(* one opens.                                                                *)
LEMMA ClosesBase ==
    ASSUME Base, NEW d \in Convs \cup {Null}, NEW rest, IsABag(rest),
           \A x \in BagToSet(rest) : IsRead(x), Closes(d, rest)
    PROVE  ReadsOK' /\ CallsOK' /\ AsksOK' /\ StoreOK' /\ ViewOK'
<1>1. Grows
  BY DEF Closes, Grows, Messages
<1>2. /\ view'.conv = d /\ view'.shown = {} /\ view'.text = <<>>
      /\ view' \in [conv : Convs \cup {Null}, shown : SUBSET Messages', text : Seq(Int)]
      /\ Mounted' <=> d \in side'.known
  <2>1. view' = [conv |-> d, shown |-> {}, text |-> <<>>]
    BY ClosesEffect
  <2> QED
    BY <2>1 DEF Mounted
<1>3. ReadsOK'
  <2>1. IsABag(loads')
    BY ClosesEffect
  <2>2. ASSUME NEW y \in Reads'
        PROVE  IsRead(y)'
    <3>1. CASE y.what = "sidebar" /\ y \in BagToSet(rest)
      BY <1>1, <3>1 DEF IsRead, Grows
    <3>2. CASE \E x \in BagToSet(rest) : x.what = "history" /\ x.then /\ y = Unmarked(x)
      BY <1>1, <3>2, UnmarkedRead
    <3>3. CASE d \in side'.known /\ y = History(d, FALSE, TRUE)
      <4>1. d \in Convs /\ Mounted' /\ d = view'.conv
        BY <1>2, <3>3 DEF Closes
      <4> QED
        BY <4>1, <3>3, HistoryMade
    <3> QED
      BY <3>1, <3>2, <3>3, ClosesEffect
  <2> QED
    BY <2>1, <2>2 DEF ReadsOK
<1>4. CallsOK'
  BY <1>1, ClosesEffect, UnmarkedCall DEF Base, CallsOK
<1>5. AsksOK'
  BY <1>1, ClosesEffect, UnmarkedAsk DEF Base, AsksOK
<1>6. StoreOK'
  BY DEF Base, StoreOK, Closes, Messages, IsText
<1>7. ViewOK'
  <2>1. IsText(<<>>)'
    BY DEF IsText
  <2> QED
    BY <1>2, <2>1 DEF Closes, ViewOK
<1> QED
  BY <1>3, <1>4, <1>5, <1>6, <1>7

(* setSelectedId: the conversation is open already, or it opens.             *)
LEMMA OpenCases ==
    ASSUME Base, NEW c \in Convs, NEW pending, Open(c, pending),
           UNCHANGED <<store, texts, side, typedIn, events>>
    PROVE  \/ c = view.conv /\ loads' = pending /\ UNCHANGED <<view, calls, asks, past>>
           \/ /\ c # view.conv /\ Closes(c, pending)
              /\ past' = [past EXCEPT !.chat = @ \/ Waits,
                                      !.lost = @ \/ (Mounted /\ view.text # <<>>)]
BY DEF Base, ViewOK, Open, Leave, Closes

-----------------------------------------------------------------------------

(* A step that only adds to what is under way keeps it all in order.         *)
LEMMA UnderWay ==
    ASSUME Base, Grows, SameOpen, IsABag(loads'), IsABag(calls'), IsABag(asks'),
           \A x \in Reads' \ Reads : IsRead(x)', \A x \in Calls' \ Calls : IsCall(x)',
           \A x \in Asks' \ Asks : IsAsk(x)'
    PROVE  ReadsOK' /\ CallsOK' /\ AsksOK'
<1>1. \A x \in Reads : IsRead(x)'
  BY ReadStays DEF Base, ReadsOK
<1>2. \A x \in Calls : IsCall(x)'
  BY CallStays DEF Base, CallsOK
<1>3. \A x \in Asks : IsAsk(x)'
  BY AskStays DEF Base, AsksOK
<1> QED
  BY <1>1, <1>2, <1>3 DEF ReadsOK, CallsOK, AsksOK

(* Steps that leave the tables, or the window, alone.                        *)
LEMMA SameStore ==
    ASSUME Base, UNCHANGED <<store, texts>>, DOMAIN typedIn \subseteq DOMAIN typedIn'
    PROVE  StoreOK'
BY TextStays DEF Base, StoreOK, Messages

(* A window that changes in nothing is still well-formed.                    *)
LEMMA SameView ==
    ASSUME Base, UNCHANGED <<view, side>>, Messages \subseteq Messages',
           DOMAIN typedIn \subseteq DOMAIN typedIn'
    PROVE  ViewOK'
BY TextStays DEF Base, ViewOK, Mounted

LEMMA SameAll ==
    ASSUME UNCHANGED <<store, texts, view, side, typedIn>>
    PROVE  Grows /\ SameOpen
BY DEF Grows, SameOpen, Messages, Mounted

(* A read takes its answer.                                                  *)
LEMMA ReadEffect ==
    ASSUME Base, NEW x \in Reads, Read(x)
    PROVE  /\ x.step = "asked" /\ IsABag(loads')
           /\ \E y : /\ Reads' \subseteq Reads \cup {y} /\ Reads \ {x} \subseteq Reads'
                     /\ y \in Reads' /\ IsRead(y)'
                     /\ y.what = x.what /\ y.conv = x.conv /\ y.then = x.then /\ y.here = x.here
                     /\ y.step = "read"
                     /\ x.what = "history" => y.seen = store.msgs[x.conv]
                     /\ x.what = "sidebar" => y.list = Listing
<1>1. IsRead(x) /\ IsABag(loads)
  BY DEF Base, ReadsOK
<1>2. PICK y :
         /\ y = IF x.what = "history"
                  THEN [x EXCEPT !.step = "read", !.seen = store.msgs[x.conv]]
                  ELSE [x EXCEPT !.step = "read", !.list = Listing]
         /\ loads' = With(Without(loads, x), y) /\ x.step = "asked"
  BY DEF Read
<1>3. /\ y = [what |-> y.what, conv |-> y.conv, then |-> y.then, here |-> y.here,
              step |-> y.step, seen |-> y.seen, list |-> y.list]
      /\ y.what = x.what /\ y.conv = x.conv /\ y.then = x.then /\ y.here = x.here
      /\ y.step = "read"
      /\ IF x.what = "history" THEN y.seen = store.msgs[x.conv] /\ y.list = x.list
                               ELSE y.seen = x.seen /\ y.list = Listing
  <2>1. x = [what |-> x.what, conv |-> x.conv, then |-> x.then, here |-> x.here,
             step |-> x.step, seen |-> x.seen, list |-> x.list]
    BY <1>1 DEF IsRead
  <2>2. CASE x.what = "history"
    <3> DEFINE seen == store.msgs[x.conv]
    <3>1. y = [x EXCEPT !.step = "read", !.seen = seen]
      BY <1>2, <2>2
    <3> HIDE DEF seen
    <3>2. /\ y = [what |-> x.what, conv |-> x.conv, then |-> x.then, here |-> x.here,
                  step |-> "read", seen |-> seen, list |-> x.list]
          /\ y.what = x.what /\ y.conv = x.conv /\ y.then = x.then /\ y.here = x.here
          /\ y.step = "read" /\ y.seen = seen /\ y.list = x.list
      BY <2>1, <3>1, ReadMoved
    <3> QED
      BY <2>2, <3>2 DEF seen
  <2>3. CASE x.what # "history"
    <3> DEFINE list == Listing
    <3>1. y = [x EXCEPT !.step = "read", !.list = list]
      BY <1>2, <2>3
    <3> HIDE DEF list
    <3>2. /\ y = [what |-> x.what, conv |-> x.conv, then |-> x.then, here |-> x.here,
                  step |-> "read", seen |-> x.seen, list |-> list]
          /\ y.what = x.what /\ y.conv = x.conv /\ y.then = x.then /\ y.here = x.here
          /\ y.step = "read" /\ y.seen = x.seen /\ y.list = list
      BY <2>1, <3>1, ReadMoved
    <3> QED
      BY <2>3, <3>2 DEF list
  <2> QED
    BY <2>2, <2>3
<1>4. IsABag(loads') /\ Reads' \subseteq Reads \cup {y} /\ Reads \ {x} \subseteq Reads' /\ y \in Reads'
  BY <1>1, <1>2, ReplacedBag DEF Reads
<1>5. /\ x.what = "history" => y.seen = store.msgs[x.conv]
      /\ x.what = "sidebar" => y.list = Listing
  BY <1>3
<1>6. IsRead(y)'
  <2>1. Grows /\ SameOpen
    BY SameAll DEF Read
  <2>2. IsRead(x)'
    BY <1>1, <2>1, ReadStays
  <2>3. Listing.known = store.known /\ store.known \subseteq Convs
    BY DEF Listing, Base, StoreOK
  <2>4. y.seen \subseteq Messages' /\ y.list.known \subseteq Convs
    <3>1. CASE x.what = "history"
      <4>1. x.conv \in Convs /\ y.seen = store.msgs[x.conv] /\ y.list = x.list
        BY <1>1, <1>3, <3>1 DEF IsRead
      <4> QED
        BY <1>1, <2>1, <4>1 DEF Base, StoreOK, IsRead, Grows
    <3>2. CASE x.what # "history"
      BY <1>1, <1>3, <2>1, <2>3, <3>2 DEF IsRead, Grows
    <3> QED
      BY <3>1, <3>2
  <2>5. y.then /\ x.what = "sidebar" => y.conv \in y.list.known
    BY <1>1, <1>3, <1>5, <2>3 DEF IsRead
  <2>6. CASE x.what = "history"
    BY <1>3, <2>2, <2>4, <2>6 DEF IsRead
  <2>7. CASE x.what # "history"
    BY <1>3, <2>2, <2>4, <2>5, <2>7 DEF IsRead
  <2> QED
    BY <2>6, <2>7
<1> QED
  BY <1>2, <1>3, <1>4, <1>5, <1>6

(* A call returns: what follows it is read.                                  *)
LEMMA FollowingMade ==
    ASSUME NEW call, IsCall(call)
    PROVE  \E f : /\ Following(call) = {f} /\ f.step = "asked"
                  /\ call.kind \in {"send", "delete"} =>
                        f.what = "history" /\ f.conv = call.conv /\ f.then = TRUE /\ f.here = call.here
                  /\ call.kind \notin {"send", "delete"} => f.what = "sidebar"
                  /\ Grows /\ SameOpen /\ (call.kind \in {"new", "create"} => call.conv \in store'.known)
                        => IsRead(f)'
<1>0. call.conv \in Convs /\ call.here \in BOOLEAN
  BY DEF IsCall
<1>1. CASE call.kind \in {"send", "delete"}
  <2> DEFINE f == History(call.conv, TRUE, call.here)
  <2>1. Following(call) = {f}
    BY <1>1 DEF Following
  <2>2. Grows /\ SameOpen /\ call.here => Mounted' /\ call.conv = view'.conv
    BY <1>1 DEF IsCall, SameOpen
  <2>3. /\ f.what = "history" /\ f.conv = call.conv /\ f.then = TRUE /\ f.here = call.here
        /\ f.step = "asked"
    BY DEF History, Load
  <2>4. ASSUME Grows, SameOpen
        PROVE  \A g : g = f => IsRead(g)'
    BY <1>0, <2>2, <2>4 DEF History, Load, NoListing, IsRead
  <2> QED
    BY <1>1, <2>1, <2>3, <2>4
<1>2. CASE call.kind \in {"new", "create"}
  <2>1. Following(call) = {SidebarThenOpen(call.conv)}
    BY <1>2 DEF Following
  <2> QED
    BY <1>0, <1>2, <2>1, SidebarThenOpenMade
<1>3. CASE call.kind \notin {"send", "delete", "new", "create"}
  <2>1. Following(call) = {Sidebar}
    BY <1>3 DEF Following
  <2> QED
    BY <1>3, <2>1, SidebarMade
<1> QED
  BY <1>1, <1>2, <1>3

(* What a call that returns leaves under way.                                *)
LEMMA ReturningEffect ==
    ASSUME Base, NEW call \in Calls, loads' = loads (+) Returning(call)
    PROVE  /\ IsABag(loads')
           /\ Reads' = Reads \cup (IF call.waited THEN Following(call) ELSE {})
           /\ Grows /\ SameOpen /\ (call.kind \in {"new", "create"} => call.conv \in store'.known)
                => \A x \in Reads' \ Reads : IsRead(x)'
<1> DEFINE S == IF call.waited THEN Following(call) ELSE {}
<1>1. Returning(call) = SetToBag(S)
  BY DEF Returning, EmptyBag
<1> HIDE DEF S
<1>2. IsABag(loads') /\ Reads' = Reads \cup S
  BY <1>1, PlusBag DEF Base, ReadsOK, Reads
<1>3. IsCall(call)
  BY DEF Base, CallsOK
<1> QED
  BY <1>2, <1>3, FollowingMade DEF S

(* A call that has gone on.                                                  *)
LEMMA CallMoved ==
    ASSUME NEW call, IsCall(call), NEW step, NEW waited, NEW y,
           \/ y = [call EXCEPT !.step = step] /\ waited = call.waited
           \/ y = [call EXCEPT !.waited = waited] /\ step = call.step
    PROVE  /\ y = [kind |-> y.kind, conv |-> y.conv, msg |-> y.msg, text |-> y.text,
                   here |-> y.here, step |-> y.step, waited |-> y.waited]
           /\ y.kind = call.kind /\ y.conv = call.conv /\ y.msg = call.msg
           /\ y.text = call.text /\ y.here = call.here /\ y.step = step /\ y.waited = waited
<1>1. call \in [kind : {call.kind}, conv : {call.conv}, msg : {call.msg}, text : {call.text},
                here : {call.here}, step : {call.step, step}, waited : {call.waited, waited}]
  BY DEF IsCall
<1>2. y \in [kind : {call.kind}, conv : {call.conv}, msg : {call.msg}, text : {call.text},
             here : {call.here}, step : {step}, waited : {waited}]
  BY <1>1
<1> QED
  BY <1>2

(* What a call changes in the store at once.                                 *)
LEMMA ChangedStore ==
    ASSUME Base, NEW call, IsCall(call), call.kind # "send", store' = Changed(call),
           UNCHANGED <<texts, typedIn>>
    PROVE  /\ StoreOK'
           /\ store'.known = store.known \cup
                 (IF call.kind \in {"new", "create"} THEN {call.conv} ELSE {})
           /\ \A c \in Convs : store'.msgs[c] =
                 IF call.kind = "delete" /\ c = call.conv THEN store.msgs[c] \ {call.msg}
                                                          ELSE store.msgs[c]
<1> DEFINE Stores == [msgs : [Convs -> SUBSET Messages], known : SUBSET Convs, pinned : SUBSET Convs]
<1>1. store \in Stores /\ call.conv \in Convs
  BY DEF Base, StoreOK, IsCall
<1>2. /\ store' \in Stores
      /\ store'.known = store.known \cup
            (IF call.kind \in {"new", "create"} THEN {call.conv} ELSE {})
      /\ \A c \in Convs : store'.msgs[c] =
            IF call.kind = "delete" /\ c = call.conv THEN store.msgs[c] \ {call.msg}
                                                     ELSE store.msgs[c]
  <2>1. CASE call.kind = "delete"
    <3> DEFINE msgs == [store.msgs EXCEPT ![call.conv] = @ \ {call.msg}]
    <3>1. store' = [store EXCEPT !.msgs = msgs]
      BY <2>1 DEF Changed
    <3>2. msgs \in [Convs -> SUBSET Messages]
      BY <1>1
    <3>3. \A c \in Convs : msgs[c] =
             IF c = call.conv THEN store.msgs[c] \ {call.msg} ELSE store.msgs[c]
      BY <1>1
    <3> HIDE DEF msgs
    <3>4. store' \in Stores /\ store'.msgs = msgs /\ store'.known = store.known
      BY <1>1, <3>1, <3>2
    <3> QED
      BY <2>1, <3>3, <3>4
  <2>2. CASE call.kind = "pin"
    <3>1. store' = [store EXCEPT !.pinned = @ \cup {call.conv}]
      BY <2>2 DEF Changed
    <3> QED
      BY <1>1, <2>2, <3>1
  <2>3. CASE call.kind = "unpin"
    <3>1. store' = [store EXCEPT !.pinned = @ \ {call.conv}]
      BY <2>3 DEF Changed
    <3> QED
      BY <1>1, <2>3, <3>1
  <2>4. CASE call.kind \in {"new", "create"}
    <3>1. store' = [store EXCEPT !.known = @ \cup {call.conv}]
      BY <2>4 DEF Changed
    <3> QED
      BY <1>1, <2>4, <3>1
  <2> QED
    BY <2>1, <2>2, <2>3, <2>4 DEF IsCall
<1> HIDE DEF Stores
<1>3. \A c \in Convs : store'.msgs[c] \subseteq store.msgs[c]
  BY <1>2
<1>4. Messages' = Messages
  BY DEF Messages
<1>5. \A c, d \in Convs : c # d => store'.msgs[c] \cap store'.msgs[d] = {}
  BY <1>3 DEF Base, StoreOK
<1>6. texts' \in Seq(Seq(Int)) /\ (\A m \in Messages : IsText(texts[m]))'
  BY <1>4 DEF Base, StoreOK, IsText
<1> QED
  BY <1>2, <1>4, <1>5, <1>6 DEF StoreOK, Stores

(* A call does what it does before it sends anything.                        *)
LEMMA ChangeEffect ==
    ASSUME Base, NEW call \in Calls, Change(call)
    PROVE  /\ IsCall(call) /\ call.step = "start" /\ call.waited /\ call.kind # "send"
           /\ IsABag(calls') /\ IsABag(loads') /\ Grows /\ SameOpen
           /\ call.kind \notin {"delete", "create"} =>
                 /\ Calls' \subseteq Calls /\ Calls \ {call} \subseteq Calls'
                 /\ Reads' = Reads \cup Following(call)
                 /\ \A x \in Reads' \ Reads : IsRead(x)'
           /\ call.kind \in {"delete", "create"} =>
                 /\ loads' = loads
                 /\ \E y : /\ Calls' \subseteq Calls \cup {y} /\ Calls \ {call} \subseteq Calls'
                           /\ y \in Calls' /\ IsCall(y)'
                           /\ y.kind = call.kind /\ y.conv = call.conv /\ y.msg = call.msg
                           /\ y.here = call.here /\ y.step = "out" /\ y.waited
           /\ \A y \in Calls \ {call} : calls'[y] = calls[y] \/ y.kind # "send"
<1>1. IsCall(call) /\ IsABag(calls) /\ IsABag(loads)
  BY DEF Base, CallsOK, ReadsOK
<1>2. call.step = "start" /\ call.waited /\ call.kind # "send"
  BY <1>1 DEF IsCall, Change
<1>3. store'.known = store.known \cup (IF call.kind \in {"new", "create"} THEN {call.conv} ELSE {})
  BY <1>1, <1>2, ChangedStore DEF Change
<1>4. Grows /\ SameOpen
  BY <1>3 DEF Grows, SameOpen, Change, Messages, Mounted
<1>5. CASE call.kind \notin {"delete", "create"}
  <2>1. calls' = Without(calls, call) /\ loads' = loads (+) Returning(call)
    BY <1>5 DEF Change
  <2>2. /\ IsABag(calls') /\ Calls' \subseteq Calls /\ Calls \ {call} \subseteq Calls'
        /\ \A y \in Calls \ {call} : calls'[y] = calls[y]
    BY <1>1, <2>1, WithoutBag DEF Calls
  <2>3. /\ IsABag(loads') /\ Reads' = Reads \cup Following(call)
        /\ \A x \in Reads' \ Reads : IsRead(x)'
    BY <1>2, <1>3, <1>4, <1>5, <2>1, ReturningEffect
  <2> QED
    BY <1>1, <1>2, <1>4, <1>5, <2>2, <2>3
<1>6. CASE call.kind \in {"delete", "create"}
  <2>1. PICK y : y = [call EXCEPT !.step = "out"] /\ calls' = With(Without(calls, call), y)
                 /\ loads' = loads
    BY <1>6 DEF Change
  <2>2. /\ y = [kind |-> y.kind, conv |-> y.conv, msg |-> y.msg, text |-> y.text,
                here |-> y.here, step |-> y.step, waited |-> y.waited]
        /\ y.kind = call.kind /\ y.conv = call.conv /\ y.msg = call.msg
        /\ y.text = call.text /\ y.here = call.here /\ y.step = "out" /\ y.waited = call.waited
    BY <1>1, <2>1, CallMoved
  <2>3. /\ IsABag(calls') /\ Calls' \subseteq Calls \cup {y} /\ Calls \ {call} \subseteq Calls'
        /\ y \in Calls' /\ \A z \in Calls \ {call, y} : calls'[z] = calls[z]
    BY <1>1, <2>1, ReplacedBag DEF Calls
  <2>4. IsCall(y)'
    <3>1. IsCall(call)'
      BY <1>1, <1>4, CallStays
    <3> QED
      BY <1>3, <1>6, <2>2, <3>1 DEF IsCall
  <2> QED
    BY <1>1, <1>2, <1>4, <1>6, <2>1, <2>2, <2>3, <2>4
<1> QED
  BY <1>5, <1>6

(* A message is stored: it has a number of its own.                          *)
LEMMA StoredMessage ==
    ASSUME Base, NEW c \in Convs, NEW text, IsText(text), NEW new \in SUBSET Convs,
           texts' = Append(texts, text), UNCHANGED typedIn,
           store' = [store EXCEPT !.msgs[c] = @ \cup {Len(texts')}, !.known = @ \cup new]
    PROVE  LET n == Len(texts) + 1
           IN  /\ StoreOK' /\ store'.known = store.known \cup new
               /\ n \notin Messages /\ Messages' = Messages \cup {n}
               /\ texts'[n] = text /\ \A m \in Messages : texts'[m] = texts[m]
               /\ \A d \in Convs :
                     store'.msgs[d] = IF d = c THEN store.msgs[d] \cup {n} ELSE store.msgs[d]
<1> DEFINE Stores == [msgs : [Convs -> SUBSET Messages'], known : SUBSET Convs, pinned : SUBSET Convs]
<1>1. PICK n : n = Len(texts) + 1
  OBVIOUS
<1>2. texts \in Seq(Seq(Int)) /\ text \in Seq(Int) /\ Len(texts) \in Nat
  BY DEF Base, StoreOK, IsText
<1>3. /\ texts' \in Seq(Seq(Int)) /\ Len(texts') = n /\ n \in Nat
      /\ n \notin Messages /\ Messages' = Messages \cup {n}
      /\ texts'[n] = text /\ \A m \in Messages : texts'[m] = texts[m]
  BY <1>1, <1>2 DEF Messages
<1>4. store \in [msgs : [Convs -> SUBSET Messages], known : SUBSET Convs, pinned : SUBSET Convs]
  BY DEF Base, StoreOK
<1> DEFINE msgs == [store.msgs EXCEPT ![c] = @ \cup {n}]
           known == store.known \cup new
<1>5. store' = [store EXCEPT !.msgs = msgs, !.known = known]
  BY <1>3
<1>6. msgs \in [Convs -> SUBSET Messages'] /\ known \in SUBSET Convs
  BY <1>3, <1>4
<1>7. \A d \in Convs : msgs[d] = IF d = c THEN store.msgs[d] \cup {n} ELSE store.msgs[d]
  BY <1>4
<1>8. store \in Stores
  BY <1>3, <1>4
<1> HIDE DEF msgs, known
<1>9. store' \in Stores /\ store'.msgs = msgs /\ store'.known = known
  BY <1>5, <1>6, <1>8
<1>10. \A d \in Convs : n \notin store.msgs[d]
  BY <1>3, <1>4
<1>11. \A d, e \in Convs : d # e => store'.msgs[d] \cap store'.msgs[e] = {}
  <2>1. \A d, e \in Convs : d # e => store.msgs[d] \cap store.msgs[e] = {}
    BY DEF Base, StoreOK
  <2>2. \A d \in Convs : \A m \in msgs[d] : m \in store.msgs[d] \/ (d = c /\ m = n)
    BY <1>7
  <2> SUFFICES ASSUME NEW d \in Convs, NEW e \in Convs, d # e,
                      NEW m, m \in msgs[d], m \in msgs[e]
               PROVE  FALSE
    BY <1>9
  <2>3. m \in store.msgs[d] \/ (d = c /\ m = n)
    BY <2>2
  <2>4. m \in store.msgs[e] \/ (e = c /\ m = n)
    BY <2>2
  <2> QED
    BY <1>10, <2>1, <2>3, <2>4
<1>12. (\A m \in Messages : IsText(texts[m]))'
  <2>1. \A t : IsText(t) => IsText(t)'
    BY TextStays
  <2>2. \A m \in Messages : IsText(texts[m])
    BY DEF Base, StoreOK
  <2>3. \A m \in Messages' : IsText(texts'[m])
    BY <1>3, <2>2
  <2> QED
    BY <2>1, <2>3
<1>13. StoreOK'
  BY <1>3, <1>9, <1>11, <1>12 DEF StoreOK
<1> QED
  BY <1>1, <1>3, <1>7, <1>9, <1>13 DEF known

(* The envelopes of a deletion have gone out.                                *)
LEMMA FinishDeleteEffect ==
    ASSUME Base, NEW call \in Calls, FinishDelete(call)
    PROVE  /\ IsCall(call) /\ call.kind = "delete" /\ Grows /\ SameOpen
           /\ IsABag(calls') /\ Calls' \subseteq Calls /\ Calls \ {call} \subseteq Calls'
           /\ \A y \in Calls \ {call} : calls'[y] = calls[y]
           /\ IsABag(loads') /\ \A x \in Reads' \ Reads : IsRead(x)'
           /\ Reads' = Reads \cup (IF call.waited THEN Following(call) ELSE {})
<1>1. IsCall(call) /\ IsABag(calls)
  BY DEF Base, CallsOK
<1>2. Grows /\ SameOpen
  BY SameAll DEF FinishDelete
<1>3. call.kind = "delete" /\ calls' = Without(calls, call) /\ loads' = loads (+) Returning(call)
  BY DEF FinishDelete
<1>4. /\ IsABag(calls') /\ Calls' \subseteq Calls /\ Calls \ {call} \subseteq Calls'
      /\ \A y \in Calls \ {call} : calls'[y] = calls[y]
  BY <1>1, <1>3, WithoutBag DEF Calls
<1> QED
  BY <1>1, <1>2, <1>3, <1>4, ReturningEffect

(* The envelopes of a text or an invitation have gone out, and it is stored. *)
LEMMA FinishEffect ==
    ASSUME Base, NEW call \in Calls, Finish(call)
    PROVE  /\ IsCall(call) /\ call.kind \in {"send", "create"} /\ call.step = "out"
           /\ Grows /\ SameOpen /\ StoreOK'
           /\ IsABag(calls') /\ Calls' \subseteq Calls /\ Calls \ {call} \subseteq Calls'
           /\ \A y \in Calls \ {call} : calls'[y] = calls[y]
           /\ calls[call] = 1 => call \notin Calls'
           /\ IsABag(loads') /\ \A x \in Reads' \ Reads : IsRead(x)'
           /\ Reads' = Reads \cup (IF call.waited THEN Following(call) ELSE {})
           /\ LET n == Len(texts) + 1
              IN  /\ n \notin Messages /\ Messages' = Messages \cup {n}
                  /\ texts'[n] = call.text /\ \A m \in Messages : texts'[m] = texts[m]
                  /\ \A d \in Convs : store'.msgs[d] =
                        IF d = call.conv THEN store.msgs[d] \cup {n} ELSE store.msgs[d]
<1>1. IsCall(call) /\ IsABag(calls)
  BY DEF Base, CallsOK
<1>2. call.kind \in {"send", "create"} /\ call.step = "out"
  BY <1>1 DEF Finish, IsCall
<1>3. call.conv \in Convs /\ IsText(call.text)
  BY <1>1, EmptyText DEF IsCall
<1>4. {call.conv} \cap Chats \in SUBSET Convs
  BY DEF Convs
<1>5. LET n == Len(texts) + 1
      IN  /\ StoreOK' /\ store'.known = store.known \cup ({call.conv} \cap Chats)
          /\ n \notin Messages /\ Messages' = Messages \cup {n}
          /\ texts'[n] = call.text /\ \A m \in Messages : texts'[m] = texts[m]
          /\ \A d \in Convs : store'.msgs[d] =
                IF d = call.conv THEN store.msgs[d] \cup {n} ELSE store.msgs[d]
  BY <1>3, <1>4, StoredMessage DEF Finish
<1>6. Grows /\ SameOpen
  BY <1>5 DEF Grows, SameOpen, Finish, Mounted
<1>7. calls' = Without(calls, call) /\ loads' = loads (+) Returning(call)
  BY DEF Finish
<1>8. /\ IsABag(calls') /\ Calls' \subseteq Calls /\ Calls \ {call} \subseteq Calls'
      /\ \A y \in Calls \ {call} : calls'[y] = calls[y]
      /\ calls[call] = 1 => call \notin Calls'
  BY <1>1, <1>7, WithoutBag DEF Calls
<1>9. call.kind = "create" => call.conv \in store'.known
  BY <1>1, <1>2, <1>5 DEF IsCall
<1>10. /\ IsABag(loads') /\ \A x \in Reads' \ Reads : IsRead(x)'
       /\ Reads' = Reads \cup (IF call.waited THEN Following(call) ELSE {})
  BY <1>2, <1>6, <1>7, <1>9, ReturningEffect
<1> QED
  BY <1>1, <1>2, <1>5, <1>6, <1>8, <1>10

(* A call fails.                                                             *)
LEMMA BreakEffect ==
    ASSUME Base, NEW call \in Calls, Break(call)
    PROVE  /\ IsCall(call) /\ call.step = "out" /\ Grows /\ SameOpen
           /\ IsABag(calls') /\ Calls' \subseteq Calls /\ Calls \ {call} \subseteq Calls'
           /\ \A y \in Calls \ {call} : calls'[y] = calls[y]
           /\ calls[call] = 1 => call \notin Calls'
<1>1. IsCall(call) /\ IsABag(calls)
  BY DEF Base, CallsOK
<1>2. Grows /\ SameOpen
  BY SameAll DEF Break, Fault
<1>3. /\ IsABag(calls') /\ Calls' \subseteq Calls /\ Calls \ {call} \subseteq Calls'
      /\ \A y \in Calls \ {call} : calls'[y] = calls[y]
      /\ calls[call] = 1 => call \notin Calls'
  BY <1>1, WithoutBag DEF Break, Calls
<1> QED
  BY <1>1, <1>2, <1>3 DEF Break

(* A call is given up, and goes on.                                          *)
LEMMA TimeoutEffect ==
    ASSUME Base, NEW call \in Calls, Timeout(call)
    PROVE  /\ IsCall(call) /\ Grows /\ SameOpen /\ IsABag(calls')
           /\ \E y : /\ Calls' \subseteq Calls \cup {y} /\ Calls \ {call} \subseteq Calls'
                     /\ y \in Calls' /\ IsCall(y)'
                     /\ \A z \in Calls \ {call, y} : calls'[z] = calls[z]
                     /\ y \notin Calls => calls'[y] = 1
                     /\ calls[call] = 1 => call \notin Calls'
                     /\ y # call /\ y.kind = call.kind /\ y.conv = call.conv /\ y.text = call.text
<1>1. IsCall(call) /\ IsABag(calls)
  BY DEF Base, CallsOK
<1>2. Grows /\ SameOpen
  BY SameAll DEF Timeout, Fault
<1>3. PICK y, no : /\ no = FALSE /\ y = [call EXCEPT !.waited = no]
                   /\ calls' = With(Without(calls, call), y)
  BY DEF Timeout
<1>4. /\ y = [kind |-> y.kind, conv |-> y.conv, msg |-> y.msg, text |-> y.text,
              here |-> y.here, step |-> y.step, waited |-> y.waited]
      /\ y.kind = call.kind /\ y.conv = call.conv /\ y.msg = call.msg
      /\ y.text = call.text /\ y.here = call.here /\ y.step = call.step /\ y.waited = no
  BY <1>1, <1>3, CallMoved
<1>5. /\ IsABag(calls') /\ Calls' \subseteq Calls \cup {y} /\ Calls \ {call} \subseteq Calls'
      /\ y \in Calls' /\ \A z \in Calls \ {call, y} : calls'[z] = calls[z]
      /\ y \notin Calls => calls'[y] = 1
      /\ calls[call] = 1 /\ y # call => call \notin Calls'
  BY <1>1, <1>3, ReplacedBag DEF Calls
<1>6. IsCall(y)'
  <2>1. IsCall(call)'
    BY <1>1, <1>2, CallStays
  <2> QED
    BY <1>3, <1>4, <2>1 DEF IsCall, Timeout
<1>7. y # call
  BY <1>3, <1>4 DEF Timeout
<1> QED
  BY <1>1, <1>2, <1>4, <1>5, <1>6, <1>7

(* A call is made.                                                           *)
LEMMA StartEffect ==
    ASSUME Base, NEW kind \in {"delete", "new", "create", "pin", "unpin"}, NEW c \in Convs, NEW m,
           kind = "new" => c \in Chats, kind = "delete" => Mounted /\ c = view.conv,
           Start(kind, c, m)
    PROVE  /\ Base'
           /\ \E y : /\ Calls' = Calls \cup {y} /\ \A z \in Calls \ {y} : calls'[z] = calls[z]
                     /\ y.kind = kind /\ y.conv = c /\ y.here = TRUE
                     /\ y.step = "start" /\ y.waited = TRUE
<1>1. IsABag(calls)
  BY DEF Base, CallsOK
<1>2. PICK y : y = CallOf(kind, c, m, <<>>) /\ calls' = With(calls, y)
  BY DEF Start
<1>3. /\ y = [kind |-> y.kind, conv |-> y.conv, msg |-> y.msg, text |-> y.text,
              here |-> y.here, step |-> y.step, waited |-> y.waited]
      /\ y.kind = kind /\ y.conv = c /\ y.text = <<>> /\ y.here = TRUE
      /\ y.step = "start" /\ y.waited = TRUE
  BY <1>2 DEF CallOf
<1>4. /\ IsABag(calls') /\ Calls' = Calls \cup {y}
      /\ \A z \in Calls \ {y} : calls'[z] = calls[z]
  BY <1>1, <1>2, WithBag DEF Calls
<1>5. Grows /\ SameOpen
  BY SameAll DEF Start
<1>6. IsCall(y)'
  BY <1>3, <1>5 DEF IsCall, SameOpen
<1>7. ReadsOK' /\ CallsOK' /\ AsksOK'
  <2>1. /\ IsABag(loads') /\ IsABag(asks') /\ Reads' = Reads /\ Asks' = Asks
    BY DEF Start, Base, ReadsOK, AsksOK, Reads, Asks
  <2> QED
    BY <1>4, <1>5, <1>6, <2>1, UnderWay
<1>8. StoreOK' /\ ViewOK'
  BY <1>5, SameStore, SameView DEF Start, Grows
<1>9. RecordsOK'
  BY DEF Base, RecordsOK, Start, Counting, Counts
<1> QED
  BY <1>3, <1>4, <1>7, <1>8, <1>9 DEF Base

(* A text is submitted, and the box is emptied if it is still there.         *)
LEMMA SubmitEffect ==
    ASSUME Base, NEW c \in Convs, NEW here \in BOOLEAN, NEW text, IsText(text), text # <<>>,
           here => Mounted /\ c = view.conv, Submit(c, here, text)
    PROVE  /\ Grows /\ SameOpen /\ IsABag(calls') /\ ViewOK' /\ count' \in Counts
           /\ view'.conv = view.conv /\ view'.shown = view.shown
           /\ view'.text = IF here THEN <<>> ELSE view.text
           /\ \E y : /\ Calls' = Calls \cup {y} /\ IsCall(y)'
                     /\ \A z \in Calls \ {y} : calls'[z] = calls[z]
                     /\ y \notin Calls => calls'[y] = 1
                     /\ y.kind = "send" /\ y.conv = c /\ y.text = text /\ (here => y.here)
                     /\ y.step = "out" /\ y.waited = TRUE
<1>1. IsABag(calls)
  BY DEF Base, CallsOK
<1>2. PICK y : y = [CallOf("send", c, 0, text) EXCEPT !.here = here] /\ calls' = With(calls, y)
  BY DEF Submit
<1>3. /\ y = [kind |-> y.kind, conv |-> y.conv, msg |-> y.msg, text |-> y.text,
              here |-> y.here, step |-> y.step, waited |-> y.waited]
      /\ y.kind = "send" /\ y.conv = c /\ y.text = text /\ y.here = here
      /\ y.step = "out" /\ y.waited = TRUE
  <2> DEFINE x == CallOf("send", c, 0, text)
  <2>1. x \in [kind : {"send"}, conv : {c}, msg : {0}, text : {text}, here : {here, TRUE},
               step : {"out"}, waited : {TRUE}]
    BY DEF CallOf
  <2>2. y = [x EXCEPT !.here = here]
    BY <1>2
  <2> HIDE DEF x
  <2>3. y \in [kind : {"send"}, conv : {c}, msg : {0}, text : {text}, here : {here},
               step : {"out"}, waited : {TRUE}]
    BY <2>1, <2>2
  <2> QED
    BY <2>3
<1>4. /\ IsABag(calls') /\ Calls' = Calls \cup {y}
      /\ \A z \in Calls \ {y} : calls'[z] = calls[z]
      /\ y \notin Calls => calls'[y] = 1
  BY <1>1, <1>2, WithBag DEF Calls
<1>5. /\ view' \in [conv : Convs \cup {Null}, shown : SUBSET Messages, text : Seq(Int)]
      /\ view'.conv = view.conv /\ view'.shown = view.shown
      /\ view'.text = IF here THEN <<>> ELSE view.text
  <2>1. view \in [conv : Convs \cup {Null}, shown : SUBSET Messages, text : Seq(Int)]
    BY DEF Base, ViewOK
  <2>2. CASE here
    <3>1. view' = [view EXCEPT !.text = <<>>]
      BY <2>2 DEF Submit
    <3>2. <<>> \in Seq(Int)
      OBVIOUS
    <3>3. /\ view' \in [conv : Convs \cup {Null}, shown : SUBSET Messages, text : Seq(Int)]
          /\ view'.conv = view.conv /\ view'.shown = view.shown /\ view'.text = <<>>
      BY <2>1, <3>1, <3>2
    <3> QED
      BY <2>2, <3>3
  <2>3. CASE ~here
    BY <2>1, <2>3 DEF Submit
  <2> QED
    BY <2>2, <2>3
<1>6. Grows /\ SameOpen
  BY <1>5 DEF Submit, Grows, SameOpen, Messages, Mounted
<1>7. ViewOK'
  <2>1. IsText(view.text)'
    BY <1>5, EmptyText DEF Base, ViewOK, IsText, Submit
  <2> QED
    BY <1>5, <1>6, <2>1 DEF Base, ViewOK, Submit, Messages, Mounted
<1>8. IsCall(y)'
  <2>1. IsText(text)'
    BY <1>6, TextStays DEF Grows
  <2> QED
    BY <1>3, <1>6, <2>1 DEF IsCall, SameOpen
<1>9. count' \in Counts
  BY DEF Base, RecordsOK, Submit, Counting, Counts
<1> QED
  BY <1>3, <1>4, <1>5, <1>6, <1>7, <1>8, <1>9

(* The text is with one more call, whatever becomes of the box.              *)
LEMMA SubmitCall ==
    ASSUME Base, NEW c, NEW here, NEW text, Submit(c, here, text)
    PROVE  \E y : /\ Calls' = Calls \cup {y} /\ \A z \in Calls \ {y} : calls'[z] = calls[z]
                  /\ y \notin Calls => calls'[y] = 1
                  /\ y.kind = "send" /\ y.conv = c /\ y.text = text
<1>1. IsABag(calls)
  BY DEF Base, CallsOK
<1>2. PICK x, y : /\ x = CallOf("send", c, 0, text) /\ y = [x EXCEPT !.here = here]
                  /\ calls' = With(calls, y)
  BY DEF Submit
<1>3. x \in [kind : {"send"}, conv : {c}, msg : {0}, text : {text}, here : {here, TRUE},
             step : {"out"}, waited : {TRUE}]
  BY <1>2 DEF CallOf
<1>4. y \in [kind : {"send"}, conv : {c}, msg : {0}, text : {text}, here : {here},
             step : {"out"}, waited : {TRUE}]
  BY <1>2, <1>3
<1>5. y.kind = "send" /\ y.conv = c /\ y.text = text
  BY <1>4
<1>6. /\ Calls' = Calls \cup {y} /\ \A z \in Calls \ {y} : calls'[z] = calls[z]
      /\ y \notin Calls => calls'[y] = 1
  BY <1>1, <1>2, WithBag DEF Calls
<1> QED
  BY <1>5, <1>6

(* A correction is asked for.                                                *)
LEMMA AskEffect ==
    ASSUME Base, NEW why \in {"word", "enter"}, NEW text, IsText(text)', text # <<>>,
           Mounted, Mounted', view'.conv = view.conv, Ask(why, text)
    PROVE  /\ IsABag(asks')
           /\ \E y : /\ Asks' = Asks \cup {y} /\ IsAsk(y)'
                     /\ \A z \in Asks \ {y} : asks'[z] = asks[z]
                     /\ y \notin Asks => asks'[y] = 1
                     /\ y.why = why /\ y.conv = view.conv /\ y.text = text /\ y.here = TRUE
<1>1. IsABag(asks)
  BY DEF Base, AsksOK
<1>2. PICK y : y = [why |-> why, conv |-> view.conv, text |-> text, here |-> TRUE]
               /\ asks' = With(asks, y)
  BY DEF Ask
<1>3. /\ IsABag(asks') /\ Asks' = Asks \cup {y}
      /\ \A z \in Asks \ {y} : asks'[z] = asks[z]
      /\ y \notin Asks => asks'[y] = 1
  BY <1>1, <1>2, WithBag DEF Asks
<1>4. view.conv \in Convs
  BY DEF Base, ViewOK, Mounted
<1>5. y.why = why /\ y.conv = view.conv /\ y.text = text /\ y.here = TRUE
  BY <1>2
<1>6. IsAsk(y)'
  BY <1>2, <1>4, <1>5 DEF IsAsk
<1> QED
  BY <1>3, <1>5, <1>6

(* An answer that was awaited is taken.                                      *)
LEMMA AskTaken ==
    ASSUME Base, NEW ask \in Asks, asks' = Without(asks, ask)
    PROVE  /\ IsABag(asks') /\ Asks' \subseteq Asks /\ Asks \ {ask} \subseteq Asks'
           /\ \A z \in Asks \ {ask} : asks'[z] = asks[z]
           /\ asks[ask] = 1 => ask \notin Asks'
           /\ IsAsk(ask) /\ IsText(Corrected(ask.text)) /\ Corrected(ask.text) # <<>>
           /\ Pieces(Corrected(ask.text)) = Pieces(ask.text)
<1>1. IsABag(asks) /\ IsAsk(ask)
  BY DEF Base, AsksOK
<1>2. /\ IsText(Corrected(ask.text)) /\ Corrected(ask.text) # <<>>
      /\ Pieces(Corrected(ask.text)) = Pieces(ask.text)
  BY <1>1, CorrectedKeeps DEF IsAsk
<1> QED
  BY <1>1, <1>2, WithoutBag DEF Asks

(* A read is taken.                                                          *)
LEMMA ReadTaken ==
    ASSUME Base, NEW x \in Reads, NEW y, NEW rest,
           rest = Without(loads, x) \/ rest = With(Without(loads, x), y)
    PROVE  /\ IsABag(rest) /\ BagToSet(rest) \subseteq Reads \cup {y} /\ Reads \ {x} \subseteq BagToSet(rest)
           /\ rest = With(Without(loads, x), y) => y \in BagToSet(rest)
           /\ rest = Without(loads, x) => BagToSet(rest) \subseteq Reads
           /\ IsRead(x)
<1>1. IsABag(loads) /\ IsRead(x)
  BY DEF Base, ReadsOK
<1> QED
  BY <1>1, WithoutBag, ReplacedBag DEF Reads

-----------------------------------------------------------------------------

(* A read takes its answer from the store: Base holds after it.              *)
LEMMA ReadBase ==
    ASSUME Base, NEW x \in Reads, Read(x)
    PROVE  Base'
<1>1. Grows /\ SameOpen
  BY SameAll DEF Read
<1>2. IsABag(calls') /\ IsABag(asks') /\ Calls' = Calls /\ Asks' = Asks
  BY DEF Base, CallsOK, AsksOK, Read, Calls, Asks
<1>3. ReadsOK' /\ CallsOK' /\ AsksOK'
  BY <1>1, <1>2, ReadEffect, UnderWay
<1>4. StoreOK' /\ ViewOK'
  BY <1>1, SameStore, SameView DEF Read, Grows
<1>5. RecordsOK'
  BY DEF Base, RecordsOK, Read
<1> QED
  BY <1>3, <1>4, <1>5 DEF Base

(* What a read of the history does to the window.                            *)
LEMMA ShowHistoryEffect ==
    ASSUME Base, NEW x \in Reads, ShowHistory(x)
    PROVE  /\ IsRead(x) /\ x.what = "history" /\ x.step = "read" /\ Grows /\ SameOpen /\ ViewOK'
           /\ IsABag(loads') /\ Reads' \subseteq Reads \cup {Sidebar} /\ Reads \ {x} \subseteq Reads'
           /\ x.then => Sidebar \in Reads'
           /\ view'.conv = view.conv /\ view'.text = view.text
           /\ view'.shown = IF x.here THEN x.seen ELSE view.shown
<1>1. /\ IsABag(loads') /\ Reads' \subseteq Reads \cup {Sidebar} /\ Reads \ {x} \subseteq Reads'
      /\ x.then => Sidebar \in Reads'
      /\ IsRead(x)
  BY ReadTaken DEF ShowHistory, Reads
<1>2. /\ view' \in [conv : Convs \cup {Null}, shown : SUBSET Messages, text : Seq(Int)]
      /\ view'.conv = view.conv /\ view'.text = view.text
      /\ view'.shown = IF x.here THEN x.seen ELSE view.shown
  <2>1. view \in [conv : Convs \cup {Null}, shown : SUBSET Messages, text : Seq(Int)]
    BY DEF Base, ViewOK
  <2>2. x.seen \in SUBSET Messages
    BY <1>1 DEF IsRead
  <2>3. CASE x.here
    <3>1. view' = [view EXCEPT !.shown = x.seen]
      BY <2>3 DEF ShowHistory
    <3> QED
      BY <2>1, <2>2, <2>3, <3>1
  <2>4. CASE ~x.here
    BY <2>1, <2>4 DEF ShowHistory
  <2> QED
    BY <2>3, <2>4
<1>3. Grows /\ SameOpen
  BY <1>2 DEF ShowHistory, Grows, SameOpen, Messages, Mounted
<1>4. ViewOK'
  <2>1. IsText(view.text)'
    BY <1>2 DEF Base, ViewOK, IsText, ShowHistory
  <2> QED
    BY <1>2, <1>3, <2>1 DEF Base, ViewOK, ShowHistory, Messages, Mounted
<1> QED
  BY <1>1, <1>2, <1>3, <1>4 DEF ShowHistory

(* Base, after a history is shown.                                           *)
LEMMA ShowHistoryBase ==
    ASSUME Base, NEW x \in Reads, ShowHistory(x)
    PROVE  Base'
<1>1. /\ Grows /\ SameOpen /\ ViewOK' /\ IsABag(loads') /\ Reads' \subseteq Reads \cup {Sidebar}
  BY ShowHistoryEffect
<1>2. IsABag(calls') /\ IsABag(asks') /\ Calls' = Calls /\ Asks' = Asks
  BY DEF Base, CallsOK, AsksOK, ShowHistory, Calls, Asks
<1>3. ReadsOK' /\ CallsOK' /\ AsksOK'
  BY <1>1, <1>2, SidebarMade, UnderWay
<1>4. StoreOK'
  BY <1>1, SameStore DEF ShowHistory, Grows
<1>5. RecordsOK'
  <2>1. past' \in Pasts
    BY DEF Base, RecordsOK, ShowHistory, Pasts
  <2> QED
    BY <2>1 DEF Base, RecordsOK, ShowHistory
<1> QED
  BY <1>1, <1>3, <1>4, <1>5 DEF Base

(* An answer for the sidebar: the component of the open conversation stays   *)
(* as it is, or it comes or goes.                                            *)
LEMMA ShowSidebarEffect ==
    ASSUME Base, NEW x \in Reads, ShowSidebar(x)
    PROVE  /\ IsRead(x) /\ x.what = "sidebar" /\ x.step = "read" /\ side' = x.list
           /\ \E rest : /\ IsABag(rest) /\ \A y \in BagToSet(rest) : IsRead(y)
                        /\ \A y \in BagToSet(rest) \ Reads :
                              y.what = "sidebar" /\ y.step = "avatars" /\ y.conv = x.conv /\ x.then
                        /\ Reads \ {x} \subseteq BagToSet(rest)
                        /\ \/ /\ Mounted <=> view.conv \in x.list.known
                              /\ loads' = rest /\ UNCHANGED <<view, calls, asks>>
                           \/ /\ ~(Mounted <=> view.conv \in x.list.known)
                              /\ Closes(view.conv, rest)
<1>1. IsRead(x) /\ x.what = "sidebar" /\ x.step = "read"
  BY ReadTaken DEF ShowSidebar
<1>2. PICK y : y = [SidebarThenOpen(x.conv) EXCEPT !.step = "avatars"]
  OBVIOUS
<1>3. PICK rest : rest = IF x.then THEN With(Without(loads, x), y) ELSE Without(loads, x)
  OBVIOUS
<1>4. /\ IsABag(rest) /\ BagToSet(rest) \subseteq Reads \cup (IF x.then THEN {y} ELSE {})
      /\ Reads \ {x} \subseteq BagToSet(rest)
  BY <1>3, ReadTaken
<1>5. x.then => y.what = "sidebar" /\ y.step = "avatars" /\ y.conv = x.conv /\ IsRead(y)
  <2>1. x.then => x.conv \in store.known /\ x.conv \in Convs
    BY <1>1 DEF IsRead, Base, StoreOK
  <2>2. y = [what |-> "sidebar", conv |-> x.conv, then |-> TRUE, here |-> TRUE,
             step |-> "avatars", seen |-> {}, list |-> NoListing]
    <3> DEFINE z == SidebarThenOpen(x.conv)
    <3>1. z = [what |-> "sidebar", conv |-> x.conv, then |-> TRUE, here |-> TRUE,
               step |-> "asked", seen |-> {}, list |-> NoListing]
      BY DEF SidebarThenOpen, Load
    <3>2. y = [z EXCEPT !.step = "avatars"]
      BY <1>2
    <3> HIDE DEF z
    <3>3. z \in [what : {"sidebar"}, conv : {x.conv}, then : {TRUE}, here : {TRUE},
                 step : {"asked", "avatars"}, seen : {{}}, list : {NoListing}]
      BY <3>1
    <3>4. y \in [what : {"sidebar"}, conv : {x.conv}, then : {TRUE}, here : {TRUE},
                 step : {"avatars"}, seen : {{}}, list : {NoListing}]
      BY <3>2, <3>3
    <3> QED
      BY <3>4
  <2>3. NoListing.known = {}
    BY DEF NoListing
  <2> QED
    BY <2>1, <2>2, <2>3 DEF IsRead
<1>6. \A z \in BagToSet(rest) : IsRead(z)
  BY <1>4, <1>5 DEF Base, ReadsOK
<1>7. CASE Mounted <=> view.conv \in x.list.known
  <2>1. loads' = rest /\ UNCHANGED <<view, calls, asks>>
    BY <1>2, <1>3, <1>7 DEF ShowSidebar
  <2> QED
    BY <1>1, <1>4, <1>5, <1>6, <1>7, <2>1 DEF ShowSidebar
<1>8. CASE ~(Mounted <=> view.conv \in x.list.known)
  <2>1. Closes(view.conv, rest)
    <3>1. side' = x.list /\ x.list.known \subseteq Convs
      BY <1>1 DEF ShowSidebar, IsRead
    <3> QED
      BY <1>2, <1>3, <1>8, <3>1 DEF ShowSidebar, Closes
  <2> QED
    BY <1>1, <1>4, <1>5, <1>6, <1>8, <2>1 DEF ShowSidebar
<1> QED
  BY <1>7, <1>8

(* Base, after a list is shown.                                              *)
LEMMA ShowSidebarBase ==
    ASSUME Base, NEW x \in Reads, ShowSidebar(x)
    PROVE  Base'
<1>1. IsRead(x) /\ side' = x.list
  BY ShowSidebarEffect
<1>2. PICK rest :
         /\ IsABag(rest) /\ \A y \in BagToSet(rest) : IsRead(y)
         /\ \/ /\ Mounted <=> view.conv \in x.list.known
               /\ loads' = rest /\ UNCHANGED <<view, calls, asks>>
            \/ Closes(view.conv, rest)
  BY ShowSidebarEffect
<1>3. RecordsOK'
  <2>1. past' \in Pasts
    BY DEF Base, RecordsOK, ShowSidebar, Pasts
  <2> QED
    BY <2>1 DEF Base, RecordsOK, ShowSidebar
<1>4. CASE /\ Mounted <=> view.conv \in x.list.known
           /\ loads' = rest /\ UNCHANGED <<view, calls, asks>>
  <2>1. Grows /\ SameOpen
    BY <1>1, <1>4 DEF Grows, SameOpen, ShowSidebar, Messages, Mounted
  <2>2. /\ IsABag(calls') /\ IsABag(asks') /\ Calls' = Calls /\ Asks' = Asks
        /\ IsABag(loads') /\ \A y \in Reads' : IsRead(y)'
    BY <1>2, <1>4, <2>1, ReadStays DEF Base, CallsOK, AsksOK, Calls, Asks, Reads
  <2>3. ReadsOK' /\ CallsOK' /\ AsksOK'
    BY <2>1, <2>2, UnderWay
  <2>4. StoreOK'
    BY <2>1, SameStore DEF ShowSidebar, Grows
  <2>5. ViewOK'
    <3>1. x.list.known \subseteq Convs
      BY <1>1 DEF IsRead
    <3> QED
      BY <1>1, <1>4, <3>1, TextStays DEF Base, ViewOK, ShowSidebar, Messages, Mounted
  <2> QED
    BY <1>3, <2>3, <2>4, <2>5 DEF Base
<1>5. CASE Closes(view.conv, rest)
  <2>1. view.conv \in Convs \cup {Null}
    BY DEF Base, ViewOK
  <2> QED
    BY <1>2, <1>3, <1>5, <2>1, ClosesBase DEF Base
<1> QED
  BY <1>2, <1>4, <1>5

(* A conversation is selected.                                               *)
LEMMA OpenBase ==
    ASSUME Base, NEW c \in Convs, NEW pending, IsABag(pending),
           \A x \in BagToSet(pending) : IsRead(x), Open(c, pending),
           UNCHANGED <<store, texts, side, typedIn, events>>, count' \in Counts
    PROVE  Base'
<1>1. CASE c = view.conv /\ loads' = pending /\ UNCHANGED <<view, calls, asks, past>>
  <2>1. Grows /\ SameOpen
    BY <1>1, SameAll
  <2>2. /\ IsABag(calls') /\ IsABag(asks') /\ Calls' = Calls /\ Asks' = Asks
        /\ IsABag(loads') /\ \A y \in Reads' : IsRead(y)'
    BY <1>1, <2>1, ReadStays DEF Base, CallsOK, AsksOK, Calls, Asks, Reads
  <2>3. ReadsOK' /\ CallsOK' /\ AsksOK'
    BY <2>1, <2>2, UnderWay
  <2>4. StoreOK' /\ ViewOK'
    BY <1>1, <2>1, SameStore, SameView DEF Grows
  <2>5. RecordsOK'
    BY <1>1 DEF Base, RecordsOK
  <2> QED
    BY <2>3, <2>4, <2>5 DEF Base
<1>2. CASE /\ Closes(c, pending)
           /\ past' = [past EXCEPT !.chat = @ \/ Waits,
                                   !.lost = @ \/ (Mounted /\ view.text # <<>>)]
  <2>1. RecordsOK'
    <3>1. past' \in Pasts
      BY <1>2 DEF Base, RecordsOK, Pasts
    <3> QED
      BY <3>1 DEF Base, RecordsOK
  <2> QED
    BY <1>2, <2>1, ClosesBase DEF Base
<1> QED
  BY <1>1, <1>2, OpenCases

(* A new conversation is selected once the avatars are there.                *)
LEMMA OpenNewBase ==
    ASSUME Base, NEW x \in Reads, OpenNew(x)
    PROVE  Base'
<1>1. IsRead(x) /\ IsABag(Without(loads, x)) /\ BagToSet(Without(loads, x)) \subseteq Reads
  BY ReadTaken
<1>2. x.conv \in Convs
  BY <1>1 DEF OpenNew, IsRead, Base, StoreOK
<1>3. \A y \in BagToSet(Without(loads, x)) : IsRead(y)
  BY <1>1 DEF Base, ReadsOK
<1>4. count' \in Counts
  BY DEF OpenNew, Base, RecordsOK
<1> QED
  BY <1>1, <1>2, <1>3, <1>4, OpenBase DEF OpenNew

(* A click on a row.                                                         *)
LEMMA SelectBase ==
    ASSUME Base, NEW c \in Convs, Select(c)
    PROVE  Base'
<1>1. IsABag(loads) /\ \A y \in BagToSet(loads) : IsRead(y)
  BY DEF Base, ReadsOK, Reads
<1>2. count' \in Counts
  BY DEF Select, Base, RecordsOK, Counts
<1> QED
  BY <1>1, <1>2, OpenBase DEF Select

(* The steps of a call.                                                      *)
LEMMA ChangeBase ==
    ASSUME Base, NEW call \in Calls, Change(call)
    PROVE  Base'
<1>1. /\ IsCall(call) /\ call.kind # "send" /\ IsABag(calls') /\ IsABag(loads') /\ Grows /\ SameOpen
      /\ \A x \in Reads' \ Reads : IsRead(x)'
      /\ \A x \in Calls' \ Calls : IsCall(x)'
  BY ChangeEffect DEF Reads
<1>2. IsABag(asks') /\ Asks' = Asks
  BY DEF Base, AsksOK, Change, Asks
<1>3. ReadsOK' /\ CallsOK' /\ AsksOK'
  BY <1>1, <1>2, UnderWay
<1>4. StoreOK'
  BY <1>1, ChangedStore DEF Change
<1>5. ViewOK'
  BY <1>1, SameView DEF Change, Grows
<1>6. RecordsOK'
  BY DEF Base, RecordsOK, Change
<1> QED
  BY <1>3, <1>4, <1>5, <1>6 DEF Base

(* A deletion whose envelopes are out.                                       *)
LEMMA FinishDeleteBase ==
    ASSUME Base, NEW call \in Calls, FinishDelete(call)
    PROVE  Base'
<1>1. /\ IsABag(calls') /\ IsABag(loads') /\ Grows /\ SameOpen
      /\ Calls' \subseteq Calls /\ \A x \in Reads' \ Reads : IsRead(x)'
  BY FinishDeleteEffect
<1>2. IsABag(asks') /\ Asks' = Asks
  BY DEF Base, AsksOK, FinishDelete, Asks
<1>3. ReadsOK' /\ CallsOK' /\ AsksOK'
  BY <1>1, <1>2, UnderWay
<1>4. StoreOK' /\ ViewOK'
  BY <1>1, SameStore, SameView DEF FinishDelete, Grows
<1>5. RecordsOK'
  BY DEF Base, RecordsOK, FinishDelete
<1> QED
  BY <1>3, <1>4, <1>5 DEF Base

(* A send or the creation of a group that went through.                      *)
LEMMA FinishBase ==
    ASSUME Base, NEW call \in Calls, Finish(call)
    PROVE  Base'
<1>1. /\ IsABag(calls') /\ IsABag(loads') /\ Grows /\ SameOpen /\ StoreOK'
      /\ Calls' \subseteq Calls /\ \A x \in Reads' \ Reads : IsRead(x)'
  BY FinishEffect
<1>2. IsABag(asks') /\ Asks' = Asks
  BY DEF Base, AsksOK, Finish, Asks
<1>3. ReadsOK' /\ CallsOK' /\ AsksOK'
  BY <1>1, <1>2, UnderWay
<1>4. ViewOK'
  BY <1>1, SameView DEF Finish, Grows
<1>5. RecordsOK'
  <2>1. past' \in Pasts
    BY DEF Base, RecordsOK, Finish, Pasts
  <2> QED
    BY <2>1 DEF Base, RecordsOK, Finish
<1> QED
  BY <1>1, <1>3, <1>4, <1>5 DEF Base

(* A fault changes nothing but its count and what `past` says.               *)
LEMMA FaultBase ==
    ASSUME Base, Fault, IsABag(calls'), \A x \in Calls' \ Calls : IsCall(x)', past' \in Pasts
    PROVE  Base'
<1>1. Grows /\ SameOpen
  BY SameAll DEF Fault
<1>2. IsABag(asks') /\ IsABag(loads') /\ Asks' = Asks /\ Reads' = Reads
  BY DEF Base, AsksOK, ReadsOK, Fault, Asks, Reads
<1>3. ReadsOK' /\ CallsOK' /\ AsksOK'
  BY <1>1, <1>2, UnderWay
<1>4. StoreOK' /\ ViewOK'
  BY <1>1, SameStore, SameView DEF Fault, Grows
<1>5. RecordsOK'
  BY DEF Base, RecordsOK, Fault, Counts
<1> QED
  BY <1>3, <1>4, <1>5 DEF Base

(* A call that fails.                                                        *)
LEMMA BreakBase ==
    ASSUME Base, NEW call \in Calls, Break(call)
    PROVE  Base'
<1>1. IsABag(calls') /\ Calls' \subseteq Calls
  BY BreakEffect
<1>2. past' \in Pasts
  BY DEF Base, RecordsOK, Break, Pasts
<1> QED
  BY <1>1, <1>2, FaultBase DEF Break

(* A call that is given up.                                                  *)
LEMMA TimeoutBase ==
    ASSUME Base, NEW call \in Calls, Timeout(call)
    PROVE  Base'
<1>1. IsABag(calls') /\ \A x \in Calls' \ Calls : IsCall(x)'
  BY TimeoutEffect
<1>2. past' \in Pasts
  BY DEF Base, RecordsOK, Timeout, Pasts
<1> QED
  BY <1>1, <1>2, FaultBase DEF Timeout

(* The calls that the user makes.                                            *)
LEMMA StartBase ==
    ASSUME Base,
           \/ \E c \in Convs : TogglePin(c)
           \/ \E c \in Chats : NewChat(c)
           \/ \E g \in Groups : CreateGroup(g)
           \/ \E m \in DOMAIN texts : Delete(m)
    PROVE  \E kind \in {"delete", "new", "create", "pin", "unpin"}, c \in Convs : \E m :
              /\ kind = "new" => c \in Chats
              /\ kind = "delete" => Mounted /\ c = view.conv
              /\ Start(kind, c, m)
<1>1. ASSUME NEW c \in Convs, TogglePin(c)
      PROVE  \E kind \in {"pin", "unpin"} : Start(kind, c, 0)
  BY <1>1 DEF TogglePin
<1>2. ASSUME NEW c \in Chats, NewChat(c)
      PROVE  c \in Convs /\ Start("new", c, 0)
  BY <1>2 DEF NewChat, Convs
<1>3. ASSUME NEW g \in Groups, CreateGroup(g)
      PROVE  g \in Convs /\ Start("create", g, 0)
  BY <1>3 DEF CreateGroup, Convs
<1>4. ASSUME NEW m \in DOMAIN texts, Delete(m)
      PROVE  Mounted /\ view.conv \in Convs /\ Start("delete", view.conv, m)
  BY <1>4 DEF Delete, Base, ViewOK, Mounted
<1>5. CASE \E c \in Convs : TogglePin(c)
  BY <1>1, <1>5
<1>6. CASE \E c \in Chats : NewChat(c)
  BY <1>2, <1>6
<1>7. CASE \E g \in Groups : CreateGroup(g)
  BY <1>3, <1>7
<1>8. CASE \E m \in DOMAIN texts : Delete(m)
  BY <1>4, <1>8
<1> QED
  BY <1>5, <1>6, <1>7, <1>8

(* An envelope arrives.                                                      *)
LEMMA ReceiveMessageEffect ==
    ASSUME Base, NEW c \in Convs, ReceiveMessage(c)
    PROVE  /\ Grows /\ SameOpen /\ StoreOK'
           /\ LET n == Len(texts) + 1
              IN  /\ n \notin Messages /\ Messages' = Messages \cup {n}
                  /\ texts'[n] = <<>> /\ \A m \in Messages : texts'[m] = texts[m]
                  /\ \A d \in Convs :
                        store'.msgs[d] = IF d = c THEN store.msgs[d] \cup {n} ELSE store.msgs[d]
<1>1. {c} \in SUBSET Convs /\ IsText(<<>>)
  BY EmptyText
<1>2. LET n == Len(texts) + 1
      IN  /\ StoreOK' /\ store'.known = store.known \cup {c}
          /\ n \notin Messages /\ Messages' = Messages \cup {n}
          /\ texts'[n] = <<>> /\ \A m \in Messages : texts'[m] = texts[m]
          /\ \A d \in Convs :
                store'.msgs[d] = IF d = c THEN store.msgs[d] \cup {n} ELSE store.msgs[d]
  BY <1>1, StoredMessage DEF ReceiveMessage
<1> QED
  BY <1>2 DEF ReceiveMessage, Grows, SameOpen, Mounted

(* An envelope that retracts a message.                                      *)
LEMMA ReceiveDeleteEffect ==
    ASSUME Base, NEW c \in Convs, NEW m, ReceiveDelete(c, m)
    PROVE  /\ Grows /\ SameOpen /\ StoreOK'
           /\ \A d \in Convs : store'.msgs[d] \subseteq store.msgs[d]
<1> DEFINE Stores == [msgs : [Convs -> SUBSET Messages], known : SUBSET Convs, pinned : SUBSET Convs]
           msgs == [store.msgs EXCEPT ![c] = @ \ {m}]
<1>1. store \in Stores
  BY DEF Base, StoreOK
<1>2. store' = [store EXCEPT !.msgs = msgs]
  BY DEF ReceiveDelete
<1>3. msgs \in [Convs -> SUBSET Messages] /\ \A d \in Convs : msgs[d] \subseteq store.msgs[d]
  BY <1>1
<1> HIDE DEF msgs
<1>4. store' \in Stores /\ store'.msgs = msgs /\ store'.known = store.known
  BY <1>1, <1>2, <1>3
<1>5. \A d, e \in Convs : d # e => store'.msgs[d] \cap store'.msgs[e] = {}
  <2>1. \A d, e \in Convs : d # e => store.msgs[d] \cap store.msgs[e] = {}
    BY DEF Base, StoreOK
  <2> QED
    BY <1>3, <1>4, <2>1
<1>6. texts' = texts /\ typedIn' = typedIn /\ view' = view /\ side' = side
  BY DEF ReceiveDelete
<1>7. StoreOK'
  <2> HIDE DEF Stores
  <2> QED
    BY <1>4, <1>5, <1>6 DEF Base, StoreOK, Stores, Messages, IsText
<1> QED
  BY <1>3, <1>4, <1>6, <1>7 DEF Grows, SameOpen, Messages, Mounted

(* An invitation.                                                            *)
LEMMA ReceiveInviteEffect ==
    ASSUME Base, NEW c \in Convs, ReceiveInvite(c)
    PROVE  /\ Grows /\ SameOpen /\ StoreOK'
           /\ store'.msgs = store.msgs /\ UNCHANGED <<texts, typedIn>>
<1> DEFINE Stores == [msgs : [Convs -> SUBSET Messages], known : SUBSET Convs, pinned : SUBSET Convs]
           known == store.known \cup {c}
<1>1. store \in Stores
  BY DEF Base, StoreOK
<1>2. store' = [store EXCEPT !.known = known]
  BY DEF ReceiveInvite
<1>3. known \in SUBSET Convs /\ store.known \subseteq known
  BY <1>1
<1> HIDE DEF known
<1>4. store' \in Stores /\ store'.msgs = store.msgs /\ store.known \subseteq store'.known
  BY <1>1, <1>2, <1>3
<1>5. UNCHANGED <<texts, typedIn, view, side>>
  BY DEF ReceiveInvite
<1>6. StoreOK'
  <2> HIDE DEF Stores
  <2> QED
    BY <1>4, <1>5 DEF Base, StoreOK, Stores, Messages, IsText
<1> QED
  BY <1>4, <1>5, <1>6 DEF Grows, SameOpen, Messages, Mounted

(* An envelope is handled.                                                   *)
Receives(c, m) == ReceiveMessage(c) \/ ReceiveDelete(c, m) \/ ReceiveInvite(c)

(* Base, after an envelope.                                                  *)
LEMMA ReceiveBase ==
    ASSUME Base, NEW c \in Convs, NEW m, Receives(c, m)
    PROVE  Base'
<1>1. Grows /\ SameOpen /\ StoreOK'
  BY ReceiveMessageEffect, ReceiveDeleteEffect, ReceiveInviteEffect DEF Receives
<1>2. UNCHANGED <<side, view, loads, calls, asks, typedIn, past>> /\ Counting /\ events' = events + 1
  BY DEF Receives, ReceiveMessage, ReceiveDelete, ReceiveInvite
<1>3. ReadsOK' /\ CallsOK' /\ AsksOK'
  BY <1>1, <1>2, UnderWay DEF Base, ReadsOK, CallsOK, AsksOK, Reads, Calls, Asks
<1>4. ViewOK'
  BY <1>1, <1>2, SameView DEF Grows
<1>5. RecordsOK'
  BY <1>2 DEF Base, RecordsOK, Counting, Counts
<1> QED
  BY <1>1, <1>3, <1>4, <1>5 DEF Base

(* An event is emitted.                                                      *)
LEMMA EventEffect ==
    ASSUME Base, Event
    PROVE  /\ Grows /\ SameOpen /\ IsABag(loads') /\ Reads \subseteq Reads' /\ Sidebar \in Reads'
           /\ Mounted => History(view.conv, FALSE, TRUE) \in Reads'
           /\ \A x \in Reads' \ Reads :
                 IsRead(x)' /\ (x = Sidebar \/ (Mounted /\ x = History(view.conv, FALSE, TRUE)))
<1>1. Grows /\ SameOpen
  BY SameAll DEF Event
<1>2. IsABag(loads') /\ Reads' = Reads \cup Refreshes
  BY PlusBag DEF Base, ReadsOK, Reads, Event
<1>3. PICK h : h = History(view.conv, FALSE, TRUE)
  OBVIOUS
<1>4. ASSUME Mounted
      PROVE  IsRead(h)'
  <2>1. PICK c \in Convs : c = view.conv
    BY <1>4 DEF Base, ViewOK, Mounted
  <2>2. Mounted' /\ c = view'.conv
    BY <1>1, <1>4, <2>1 DEF SameOpen
  <2>3. \A x : x = History(c, FALSE, TRUE) => IsRead(x)'
    BY <2>2, HistoryMade
  <2> QED
    BY <1>3, <2>1, <2>3
<1>5. PICK s : s = Sidebar
  OBVIOUS
<1>6. IsRead(s)'
  BY <1>5, SidebarMade
<1>7. Refreshes = IF Mounted THEN {s, h} ELSE {s}
  BY <1>3, <1>5 DEF Refreshes
<1>8. \A x \in Reads' \ Reads : IsRead(x)' /\ (x = s \/ (Mounted /\ x = h))
  BY <1>2, <1>4, <1>6, <1>7
<1>9. s \in Reads' /\ (Mounted => h \in Reads') /\ Reads \subseteq Reads'
  BY <1>2, <1>7
<1> QED
  BY <1>1, <1>2, <1>3, <1>5, <1>8, <1>9

(* Base, after an event.                                                     *)
LEMMA EventBase ==
    ASSUME Base, Event
    PROVE  Base'
<1>1. Grows /\ SameOpen /\ IsABag(loads') /\ \A x \in Reads' \ Reads : IsRead(x)'
  BY EventEffect
<1>2. IsABag(asks') /\ IsABag(calls') /\ Asks' = Asks /\ Calls' = Calls
  BY DEF Base, AsksOK, CallsOK, Event, Asks, Calls
<1>3. ReadsOK' /\ CallsOK' /\ AsksOK'
  BY <1>1, <1>2, UnderWay
<1>4. StoreOK' /\ ViewOK'
  BY <1>1, SameStore, SameView DEF Event, Grows
<1>5. RecordsOK'
  BY DEF Base, RecordsOK, Event
<1> QED
  BY <1>3, <1>4, <1>5 DEF Base

(* Another piece is typed.                                                   *)
LEMMA TypeEffect ==
    ASSUME Base, NEW word \in BOOLEAN, Type(word)
    PROVE  LET n == Len(typedIn) + 1
           IN  /\ Mounted /\ Grows /\ SameOpen /\ ViewOK'
               /\ view'.conv = view.conv /\ view'.shown = view.shown
               /\ Pieces(view'.text) = Pieces(view.text) \cup {n}
               /\ n \notin DOMAIN typedIn /\ DOMAIN typedIn' = DOMAIN typedIn \cup {n}
               /\ typedIn' \in Seq(Convs) /\ typedIn'[n] = view.conv
               /\ \A k \in DOMAIN typedIn : typedIn'[k] = typedIn[k]
               /\ IsABag(asks') /\ Asks \subseteq Asks'
               /\ \A ask \in Asks' \ Asks : IsAsk(ask)' /\ ask.why = "word"
               /\ \A ask \in Entered : asks'[ask] = asks[ask]
<1>1. PICK n, text : n = Len(typedIn) + 1 /\ text = Append(view.text, n)
  OBVIOUS
<1>2. /\ Mounted /\ typedIn' = Append(typedIn, view.conv) /\ view' = [view EXCEPT !.text = text]
      /\ IF word THEN Ask("word", text) ELSE UNCHANGED asks
      /\ UNCHANGED <<store, texts, side>>
  BY <1>1 DEF Type
<1>3. /\ view \in [conv : Convs \cup {Null}, shown : SUBSET Messages, text : Seq(Int)]
      /\ view.conv \in Convs /\ IsText(view.text) /\ typedIn \in Seq(Convs) /\ side.known \subseteq Convs
  BY <1>2 DEF Base, ViewOK, RecordsOK, Mounted
<1>4. /\ IsText(text)' /\ text # <<>> /\ Pieces(text) = Pieces(view.text) \cup {n}
      /\ n \notin DOMAIN typedIn
  BY <1>1, <1>2, <1>3, AppendedText
<1>5. text \in Seq(Int)
  BY <1>4 DEF IsText
<1>6. /\ view' \in [conv : Convs \cup {Null}, shown : SUBSET Messages, text : Seq(Int)]
      /\ view'.conv = view.conv /\ view'.shown = view.shown /\ view'.text = text
  BY <1>2, <1>3, <1>5
<1>7. /\ DOMAIN typedIn' = DOMAIN typedIn \cup {n} /\ typedIn' \in Seq(Convs)
      /\ typedIn'[n] = view.conv /\ \A k \in DOMAIN typedIn : typedIn'[k] = typedIn[k]
  BY <1>1, <1>2, <1>3
<1>8. Grows /\ SameOpen /\ Mounted'
  BY <1>2, <1>6, <1>7 DEF Grows, SameOpen, Messages, Mounted
<1>9. ViewOK'
  <2>1. IsText(view.text)'
    BY <1>4, <1>6 DEF IsText
  <2> QED
    BY <1>2, <1>3, <1>6, <1>8, <2>1 DEF ViewOK, Messages
<1>10. /\ IsABag(asks') /\ Asks \subseteq Asks'
       /\ \A ask \in Asks' \ Asks : IsAsk(ask)' /\ ask.why = "word"
       /\ \A ask \in Entered : asks'[ask] = asks[ask]
  <2>1. CASE word
    <3>1. PICK why : why = "word"
      OBVIOUS
    <3>2. Ask(why, text) /\ why \in {"word", "enter"} /\ IsABag(asks)
      BY <1>2, <2>1, <3>1 DEF Base, AsksOK
    <3>3. PICK y : /\ Asks' = Asks \cup {y} /\ IsAsk(y)' /\ IsABag(asks')
                   /\ \A z \in Asks \ {y} : asks'[z] = asks[z]
                   /\ y.why = "word"
      BY <1>2, <1>4, <1>6, <1>8, <3>1, <3>2, AskEffect
    <3> QED
      BY <3>3 DEF Entered
  <2>2. CASE ~word
    BY <1>2, <2>2 DEF Base, AsksOK, Asks
  <2> QED
    BY <2>1, <2>2
<1> QED
  BY <1>1, <1>2, <1>4, <1>6, <1>7, <1>8, <1>9, <1>10

(* Base, after a key.                                                        *)
LEMMA TypeBase ==
    ASSUME Base, NEW word \in BOOLEAN, Type(word)
    PROVE  Base'
<1>1. /\ Grows /\ SameOpen /\ ViewOK' /\ typedIn' \in Seq(Convs) /\ IsABag(asks')
      /\ \A ask \in Asks' \ Asks : IsAsk(ask)'
  BY TypeEffect
<1>2. IsABag(loads') /\ IsABag(calls') /\ Reads' = Reads /\ Calls' = Calls
  BY DEF Base, ReadsOK, CallsOK, Type, Reads, Calls
<1>3. ReadsOK' /\ CallsOK' /\ AsksOK'
  BY <1>1, <1>2, UnderWay
<1>4. StoreOK'
  BY <1>1, SameStore DEF Type, Grows
<1>5. RecordsOK'
  <2>1. past' \in Pasts
    BY DEF Base, RecordsOK, Type, Pasts
  <2> QED
    BY <1>1, <2>1 DEF Base, RecordsOK, Type
<1> QED
  BY <1>1, <1>3, <1>4, <1>5 DEF Base

(* A word is corrected, if the text is as it was.                            *)
LEMMA CorrectWordEffect ==
    ASSUME Base, NEW ask \in Asks, CorrectWord(ask)
    PROVE  /\ Grows /\ SameOpen /\ ViewOK'
           /\ view'.conv = view.conv /\ view'.shown = view.shown
           /\ Pieces(view'.text) = Pieces(view.text)
<1>1. /\ ask.here \in BOOLEAN /\ IsText(ask.text) /\ (ask.here => Mounted)
      /\ IsText(Corrected(ask.text)) /\ Pieces(Corrected(ask.text)) = Pieces(ask.text)
  BY AskTaken DEF CorrectWord, IsAsk
<1>2. /\ view \in [conv : Convs \cup {Null}, shown : SUBSET Messages, text : Seq(Int)]
      /\ IsText(view.text) /\ (view.text # <<>> => Mounted)
  BY DEF Base, ViewOK
<1>3. PICK text : /\ IsText(text) /\ Pieces(text) = Pieces(view.text)
                  /\ view' \in [conv : {view.conv}, shown : {view.shown}, text : {text}]
                  /\ text # <<>> => Mounted
  <2>1. CASE Unedited(ask)
    <3>1. view' = [view EXCEPT !.text = Corrected(ask.text)] /\ view.text = ask.text /\ ask.here
      BY <2>1 DEF CorrectWord, Unedited
    <3>2. view' \in [conv : {view.conv}, shown : {view.shown}, text : {Corrected(ask.text)}]
      BY <1>2, <3>1
    <3> QED
      BY <1>1, <3>1, <3>2
  <2>2. CASE ~Unedited(ask)
    <3>1. view' = view
      BY <2>2 DEF CorrectWord
    <3> QED
      BY <1>2, <3>1
  <2> QED
    BY <2>1, <2>2
<1>4. view'.conv = view.conv /\ view'.shown = view.shown /\ view'.text = text /\ text \in Seq(Int)
  BY <1>3 DEF IsText
<1>5. Grows /\ SameOpen
  BY <1>4 DEF CorrectWord, Grows, SameOpen, Messages, Mounted
<1>6. ViewOK'
  <2>1. IsText(view.text)'
    BY <1>3, <1>4 DEF CorrectWord, IsText
  <2>2. view' \in [conv : Convs \cup {Null}, shown : SUBSET Messages, text : Seq(Int)]
    BY <1>2, <1>3, <1>4
  <2> QED
    BY <1>3, <1>4, <1>5, <2>1, <2>2 DEF Base, ViewOK, CorrectWord, Messages, Mounted
<1> QED
  BY <1>3, <1>4, <1>5, <1>6

(* Base, after the correction of a word.                                     *)
LEMMA CorrectWordBase ==
    ASSUME Base, NEW ask \in Asks, CorrectWord(ask)
    PROVE  Base'
<1>1. Grows /\ SameOpen /\ ViewOK'
  BY CorrectWordEffect
<1>2. IsABag(asks') /\ Asks' \subseteq Asks
  BY AskTaken DEF CorrectWord
<1>3. IsABag(loads') /\ IsABag(calls') /\ Reads' = Reads /\ Calls' = Calls
  BY DEF Base, ReadsOK, CallsOK, CorrectWord, Reads, Calls
<1>4. ReadsOK' /\ CallsOK' /\ AsksOK'
  BY <1>1, <1>2, <1>3, UnderWay
<1>5. StoreOK'
  BY <1>1, SameStore DEF CorrectWord, Grows
<1>6. RecordsOK'
  BY DEF Base, RecordsOK, CorrectWord
<1> QED
  BY <1>1, <1>4, <1>5, <1>6 DEF Base

(* Enter, and what comes of it.                                              *)
LEMMA EnterEffect ==
    ASSUME Base, Enter
    PROVE  /\ Grows /\ SameOpen /\ IsABag(asks')
           /\ \E y : /\ Asks' = Asks \cup {y} /\ IsAsk(y)'
                     /\ \A z \in Asks \ {y} : asks'[z] = asks[z]
                     /\ y \notin Asks => asks'[y] = 1
                     /\ y.why = "enter" /\ y.conv = view.conv /\ y.text = view.text /\ y.here = TRUE
<1>1. Grows /\ SameOpen
  BY SameAll DEF Enter
<1>2. PICK text : text = view.text
  OBVIOUS
<1>3. IsText(text)' /\ text # <<>> /\ Mounted /\ Mounted' /\ view'.conv = view.conv /\ Ask("enter", text)
  BY <1>1, <1>2, TextStays DEF Enter, Base, ViewOK, SameOpen, Grows
<1> QED
  BY <1>1, <1>2, <1>3, AskEffect

(* Base, after Enter.                                                        *)
LEMMA EnterBase ==
    ASSUME Base, Enter
    PROVE  Base'
<1>1. /\ Grows /\ SameOpen /\ IsABag(asks')
      /\ \A ask \in Asks' \ Asks : IsAsk(ask)'
  BY EnterEffect
<1>2. IsABag(loads') /\ IsABag(calls') /\ Reads' = Reads /\ Calls' = Calls
  BY DEF Base, ReadsOK, CallsOK, Enter, Reads, Calls
<1>3. ReadsOK' /\ CallsOK' /\ AsksOK'
  BY <1>1, <1>2, UnderWay
<1>4. StoreOK' /\ ViewOK'
  BY <1>1, SameStore, SameView DEF Enter, Grows
<1>5. RecordsOK'
  <2>1. past' \in Pasts
    BY DEF Base, RecordsOK, Enter, Pasts
  <2> QED
    BY <2>1 DEF Base, RecordsOK, Enter
<1> QED
  BY <1>3, <1>4, <1>5 DEF Base

(* What CorrectEnter and ClickSend submit.                                   *)
LEMMA CorrectEnterSubmits ==
    ASSUME Base, NEW ask \in Asks, NEW found \in BOOLEAN, CorrectEnter(ask, found)
    PROVE  \E text : /\ IsText(text) /\ text # <<>> /\ Pieces(text) = Pieces(ask.text)
                     /\ Submit(ask.conv, ask.here, text) /\ ask.conv \in Convs /\ ask.here \in BOOLEAN
                     /\ ask.here => Mounted /\ ask.conv = view.conv
<1>1. /\ IsAsk(ask) /\ IsText(Corrected(ask.text)) /\ Corrected(ask.text) # <<>>
      /\ Pieces(Corrected(ask.text)) = Pieces(ask.text)
  BY AskTaken DEF CorrectEnter
<1> QED
  BY <1>1 DEF CorrectEnter, IsAsk

(* Base, after a text is submitted.                                          *)
LEMMA SubmitBase ==
    ASSUME Base, NEW c \in Convs, NEW here \in BOOLEAN, NEW text, IsText(text), text # <<>>,
           here => Mounted /\ c = view.conv, Submit(c, here, text),
           IsABag(asks'), Asks' \subseteq Asks, past' \in Pasts
    PROVE  Base'
<1>1. /\ Grows /\ SameOpen /\ IsABag(calls') /\ ViewOK' /\ count' \in Counts
      /\ \E y : Calls' = Calls \cup {y} /\ IsCall(y)'
  <2>1. (here => Mounted /\ c = view.conv) /\ IsText(text) /\ text # <<>> /\ Submit(c, here, text)
    OBVIOUS
  <2> QED
    BY <2>1, SubmitEffect, Zenon
<1>2. IsABag(loads') /\ Reads' = Reads
  BY DEF Base, ReadsOK, Submit, Reads
<1>3. ReadsOK' /\ CallsOK' /\ AsksOK'
  BY <1>1, <1>2, UnderWay
<1>4. StoreOK'
  BY <1>1, SameStore DEF Submit, Grows
<1>5. RecordsOK'
  BY <1>1 DEF Base, RecordsOK, Submit
<1> QED
  BY <1>1, <1>3, <1>4, <1>5 DEF Base

(* The answer an Enter waited for.                                           *)
LEMMA CorrectEnterBase ==
    ASSUME Base, NEW ask \in Asks, NEW found \in BOOLEAN, CorrectEnter(ask, found)
    PROVE  Base'
<1>1. IsABag(asks') /\ Asks' \subseteq Asks
  BY AskTaken DEF CorrectEnter
<1>2. past' \in Pasts
  BY DEF Base, RecordsOK, CorrectEnter
<1> QED
  BY <1>1, <1>2, CorrectEnterSubmits, SubmitBase

(* A click on Send.                                                          *)
LEMMA ClickSendBase ==
    ASSUME Base, ClickSend
    PROVE  Base'
<1>1. /\ IsText(view.text) /\ view.text # <<>> /\ view.conv \in Convs /\ Mounted
      /\ Submit(view.conv, TRUE, view.text)
  BY DEF Base, ViewOK, ClickSend, Mounted
<1>2. IsABag(asks') /\ Asks' \subseteq Asks
  BY DEF Base, AsksOK, ClickSend, Asks
<1>3. past' \in Pasts
  BY DEF Base, RecordsOK, ClickSend, Pasts
<1>4. PICK here \in BOOLEAN : here = TRUE
  OBVIOUS
<1> QED
  BY <1>1, <1>2, <1>3, <1>4, SubmitBase

-----------------------------------------------------------------------------

(* A window that was just opened satisfies Base.                             *)
LEMMA InitBase ==
    ASSUME Init
    PROVE  Base
<1>1. IsABag(loads) /\ Reads = {Sidebar} /\ IsABag(calls) /\ Calls = {} /\ IsABag(asks) /\ Asks = {}
  BY DEF Init, Reads, Calls, Asks, IsABag, SetToBag, BagToSet, EmptyBag
<1>2. IsRead(Sidebar)
  BY DEF Sidebar, Load, NoListing, IsRead
<1>3. StoreOK
  <2>1. store \in [msgs : [Convs -> SUBSET Messages], known : SUBSET Convs, pinned : SUBSET Convs]
    BY ChatAssumption DEF Init, Convs
  <2>2. \A c, d \in Convs : store.msgs[c] \cap store.msgs[d] = {}
    BY DEF Init
  <2>3. texts \in Seq(Seq(Int)) /\ Messages = {}
    BY DEF Init, Messages
  <2> QED
    BY <2>1, <2>2, <2>3 DEF StoreOK
<1>4. ViewOK
  <2>1. view \in [conv : Convs \cup {Null}, shown : SUBSET Messages, text : Seq(Int)] /\ view.text = <<>>
    BY DEF Init, NoView
  <2>2. side.known = {}
    BY DEF Init, NoListing
  <2> QED
    BY <2>1, <2>2, EmptyText DEF ViewOK
<1>5. RecordsOK
  BY DEF Init, RecordsOK, Pasts, Counts
<1> QED
  BY <1>1, <1>2, <1>3, <1>4, <1>5 DEF Base, ReadsOK, CallsOK, AsksOK

(* The steps, by what they are a step of.                                    *)
LEMMA NextCases ==
    ASSUME Base, [Next]_vars
    PROVE  \/ \E x \in Reads : Read(x) \/ ShowHistory(x) \/ ShowSidebar(x) \/ OpenNew(x)
           \/ \E call \in Calls :
                 \/ Change(call) \/ FinishDelete(call) \/ Finish(call)
                 \/ Break(call) \/ Timeout(call)
           \/ \E c \in Convs : Select(c)
           \/ \E kind \in {"delete", "new", "create", "pin", "unpin"}, c \in Convs : \E m :
                 /\ kind = "new" => c \in Chats
                 /\ kind = "delete" => Mounted /\ c = view.conv
                 /\ Start(kind, c, m)
           \/ \E c \in Convs : \E m : Receives(c, m)
           \/ Event
           \/ \E word \in BOOLEAN : Type(word)
           \/ \E ask \in Asks :
                 CorrectWord(ask) \/ \E found \in BOOLEAN : CorrectEnter(ask, found)
           \/ Enter \/ ClickSend
           \/ UNCHANGED vars
<1>1. CASE \/ \E c \in Convs : TogglePin(c)
           \/ \E c \in Chats : NewChat(c)
           \/ \E g \in Groups : CreateGroup(g)
           \/ \E m \in DOMAIN texts : Delete(m)
  BY <1>1, StartBase
<1>2. CASE ~ \/ \E c \in Convs : TogglePin(c)
             \/ \E c \in Chats : NewChat(c)
             \/ \E g \in Groups : CreateGroup(g)
             \/ \E m \in DOMAIN texts : Delete(m)
  BY <1>2 DEF Next, Receives, Convs, Reads, Calls, Asks
<1> QED
  BY <1>1, <1>2

(* Every step keeps Base.                                                    *)
LEMMA NextBase ==
    ASSUME Base, [Next]_vars
    PROVE  Base'
<1>1. ASSUME NEW x \in Reads, Read(x) \/ ShowHistory(x) \/ ShowSidebar(x) \/ OpenNew(x)
      PROVE  Base'
  BY <1>1, ReadBase, ShowHistoryBase, ShowSidebarBase, OpenNewBase
<1>2. ASSUME NEW call \in Calls,
             Change(call) \/ FinishDelete(call) \/ Finish(call) \/ Break(call) \/ Timeout(call)
      PROVE  Base'
  BY <1>2, ChangeBase, FinishDeleteBase, FinishBase, BreakBase, TimeoutBase
<1>3. ASSUME NEW kind \in {"delete", "new", "create", "pin", "unpin"}, NEW c \in Convs, NEW m,
             kind = "new" => c \in Chats, kind = "delete" => Mounted /\ c = view.conv,
             Start(kind, c, m)
      PROVE  Base'
  BY <1>3, StartEffect
<1>4. ASSUME UNCHANGED vars
      PROVE  Base'
  BY <1>4 DEF vars, Base, ReadsOK, CallsOK, AsksOK, StoreOK, ViewOK, RecordsOK, IsRead, IsCall,
              IsAsk, IsText, Reads, Calls, Asks, Messages, Mounted
<1> QED
  BY <1>1, <1>2, <1>3, <1>4, NextCases, SelectBase, ReceiveBase, EventBase, TypeBase,
     CorrectWordBase, CorrectEnterBase, EnterBase, ClickSendBase

(* Base is an invariant; all other parts rest on it.                         *)
LEMMA BaseInvariant == Spec => []Base
<1>1. Init => Base
  BY InitBase
<1>2. Base /\ [Next]_vars => Base'
  BY NextBase
<1> QED
  BY <1>1, <1>2, PTL DEF Spec

(* The types: of what is under way, what is stored and what is shown.        *)
THEOREM ChatTypeCorrect == Spec => []TypeOK
<1>1. Base => TypeOK
  <2> SUFFICES ASSUME Base
               PROVE  TypeOK
    OBVIOUS
  <2>1. IsABag(loads) /\ IsABag(calls) /\ IsABag(asks)
    BY DEF Base, ReadsOK, CallsOK, AsksOK
  <2>2. \A c, d \in Convs : c # d => store.msgs[c] \cap store.msgs[d] = {}
    BY DEF Base, StoreOK
  <2>3. view.shown \subseteq DOMAIN texts
    BY DEF Base, StoreOK, ViewOK, Messages
  <2>4. Cardinality(Pieces(view.text)) = Len(view.text)
    BY TextLength DEF Base, ViewOK
  <2> QED
    BY <2>1, <2>2, <2>3, <2>4 DEF TypeOK
<1> QED
  BY <1>1, BaseInvariant, PTL

-----------------------------------------------------------------------------

(* Only a list for the sidebar and what selects a conversation can take a    *)
(* row from under the open conversation.                                     *)
LEMMA RowKept ==
    ASSUME RowOK, past'.row = past.row, side' = side, view'.conv = view.conv,
           \A x \in Reads' : x.step = "avatars" => x \in Reads
    PROVE  RowOK'
BY DEF RowOK, Mounted

(* What is selected has a row if the list it was selected from had one.      *)
LEMMA OpenRow ==
    ASSUME Base, RowOK, ~past.row, NEW c \in side.known, NEW pending, IsABag(pending),
           BagToSet(pending) \subseteq Reads, Open(c, pending),
           UNCHANGED <<store, texts, side, typedIn, events>>
    PROVE  RowOK'
<1>1. \A x \in Reads : x.step = "avatars" => x.conv \in side.known
  BY DEF RowOK
<1>2. c \in Convs /\ \A x \in BagToSet(pending) : IsRead(x)
  BY DEF Base, ViewOK, ReadsOK
<1>3. CASE c = view.conv /\ loads' = pending /\ UNCHANGED <<view, calls, asks, past>>
  BY <1>3, RowKept DEF Reads
<1>4. CASE Closes(c, pending)
  <2>1. view'.conv = c /\ Mounted'
    <3>1. view' = [conv |-> c, shown |-> {}, text |-> <<>>]
      BY <1>2, <1>4, ClosesEffect
    <3> QED
      BY <3>1 DEF Mounted
  <2>2. ASSUME NEW y \in Reads', y.step = "avatars"
        PROVE  y.conv \in side'.known
    <3>1. CASE y \in BagToSet(pending)
      BY <1>1, <2>2, <3>1
    <3>2. CASE \E x \in BagToSet(pending) : x.what = "history" /\ x.then /\ y = Unmarked(x)
      BY <1>2, <2>2, <3>2, UnmarkedRead DEF IsRead
    <3>3. CASE y = History(c, FALSE, TRUE)
      BY <2>2, <3>3 DEF History, Load
    <3> QED
      BY <1>2, <1>4, <3>1, <3>2, <3>3, ClosesEffect
  <2> QED
    BY <2>1, <2>2 DEF RowOK
<1> QED
  BY <1>2, <1>3, <1>4, OpenCases

(* A list that is not older than what is open keeps its row.                 *)
LEMMA ShowSidebarRow ==
    ASSUME Base, RowOK, NEW x \in Reads, ShowSidebar(x)
    PROVE  RowOK'
<1> SUFFICES ASSUME ~past'.row
             PROVE  RowOK'
  BY DEF RowOK
<1>1. ~past.row /\ side.known \subseteq x.list.known
  BY DEF Base, RecordsOK, Pasts, ShowSidebar
<1>2. /\ view.conv # Null => Mounted
      /\ \A y \in Reads : y.step = "avatars" => y.conv \in side.known
  BY <1>1 DEF RowOK
<1>3. IsRead(x) /\ x.what = "sidebar" /\ x.step = "read" /\ side' = x.list
  BY ShowSidebarEffect
<1>4. PICK rest :
         /\ IsABag(rest) /\ \A y \in BagToSet(rest) : IsRead(y)
         /\ \A y \in BagToSet(rest) \ Reads :
               y.what = "sidebar" /\ y.step = "avatars" /\ y.conv = x.conv /\ x.then
         /\ \/ loads' = rest /\ UNCHANGED <<view, calls, asks>>
            \/ Closes(view.conv, rest)
  BY ShowSidebarEffect
<1>5. \A y \in BagToSet(rest) : y.step = "avatars" => y.conv \in side'.known
  BY <1>1, <1>2, <1>3, <1>4 DEF IsRead
<1>6. CASE loads' = rest /\ UNCHANGED <<view, calls, asks>>
  BY <1>1, <1>2, <1>3, <1>5, <1>6 DEF RowOK, Mounted, Reads
<1>7. CASE Closes(view.conv, rest)
  <2>1. view.conv \in Convs \cup {Null}
    BY DEF Base, ViewOK
  <2>2. view'.conv = view.conv
    <3>1. view' = [conv |-> view.conv, shown |-> {}, text |-> <<>>]
      BY <1>4, <1>7, <2>1, ClosesEffect
    <3> QED
      BY <3>1
  <2>3. ASSUME NEW y \in Reads', y.step = "avatars"
        PROVE  y.conv \in side'.known
    <3>1. CASE y \in BagToSet(rest)
      BY <1>5, <2>3, <3>1
    <3>2. CASE \E z \in BagToSet(rest) : z.what = "history" /\ z.then /\ y = Unmarked(z)
      BY <1>4, <2>3, <3>2, UnmarkedRead DEF IsRead
    <3>3. CASE y = History(view.conv, FALSE, TRUE)
      BY <2>3, <3>3 DEF History, Load
    <3>4. \/ y \in BagToSet(rest)
          \/ \E z \in BagToSet(rest) : z.what = "history" /\ z.then /\ y = Unmarked(z)
          \/ y = History(view.conv, FALSE, TRUE)
      BY <1>4, <1>7, <2>1, ClosesEffect
    <3> QED
      BY <3>1, <3>2, <3>3, <3>4
  <2> QED
    BY <1>1, <1>2, <1>3, <2>2, <2>3 DEF RowOK, Mounted
<1> QED
  BY <1>4, <1>6, <1>7

(* What follows a call has yet to be taken from the store.                   *)
LEMMA FollowingAsked ==
    ASSUME Base, NEW call \in Calls
    PROVE  \A x \in Following(call) : x.step = "asked"
BY FollowingMade DEF Base, CallsOK

(* Every step keeps RowOK.                                                   *)
LEMMA NextRow ==
    ASSUME Base, RowOK, [Next]_vars
    PROVE  RowOK'
<1>0. past \in Pasts
  BY DEF Base, RecordsOK
<1>1. ASSUME NEW x \in Reads, Read(x)
      PROVE  RowOK'
  <2>1. PICK y : Reads' \subseteq Reads \cup {y} /\ y.step = "read"
    BY <1>1, ReadEffect
  <2> QED
    BY <1>1, <2>1, RowKept DEF Read
<1>2. ASSUME NEW x \in Reads, ShowHistory(x)
      PROVE  RowOK'
  <2>1. Reads' \subseteq Reads \cup {Sidebar} /\ view'.conv = view.conv /\ Sidebar.step = "asked"
    BY <1>2, ShowHistoryEffect, SidebarMade
  <2>2. past'.row = past.row
    BY <1>0, <1>2 DEF ShowHistory, Pasts
  <2> QED
    BY <1>2, <2>1, <2>2, RowKept DEF ShowHistory
<1>3. ASSUME NEW x \in Reads, OpenNew(x)
      PROVE  RowOK'
  <2>1. CASE ~past.row
    <3>1. x.conv \in side.known
      BY <1>3, <2>1 DEF OpenNew, RowOK
    <3>2. IsABag(Without(loads, x)) /\ BagToSet(Without(loads, x)) \subseteq Reads
      BY ReadTaken
    <3> QED
      BY <1>3, <2>1, <3>1, <3>2, OpenRow DEF OpenNew
  <2>2. CASE past.row
    <3>1. past'.row
      BY <1>0, <1>3, <2>2 DEF OpenNew, Open, Leave, Pasts
    <3> QED
      BY <3>1 DEF RowOK
  <2> QED
    BY <2>1, <2>2
<1>4. ASSUME NEW c \in Convs, Select(c)
      PROVE  RowOK'
  <2>1. CASE ~past.row
    <3>1. c \in side.known /\ IsABag(loads) /\ BagToSet(loads) \subseteq Reads
      BY <1>4 DEF Select, Base, ReadsOK, Reads
    <3> QED
      BY <1>4, <2>1, <3>1, OpenRow DEF Select
  <2>2. CASE past.row
    <3>1. past'.row
      BY <1>0, <1>4, <2>2 DEF Select, Open, Leave, Pasts
    <3> QED
      BY <3>1 DEF RowOK
  <2> QED
    BY <2>1, <2>2
<1>5. ASSUME NEW call \in Calls, Change(call)
      PROVE  RowOK'
  <2>1. Reads' = Reads \/ Reads' = Reads \cup Following(call)
    BY <1>5, ChangeEffect DEF Reads
  <2> QED
    BY <1>5, <2>1, FollowingAsked, RowKept DEF Change
<1>6. ASSUME NEW call \in Calls, FinishDelete(call)
      PROVE  RowOK'
  <2>1. Reads' \subseteq Reads \cup Following(call)
    BY <1>6, FinishDeleteEffect
  <2> QED
    BY <1>6, <2>1, FollowingAsked, RowKept DEF FinishDelete
<1>7. ASSUME NEW call \in Calls, Finish(call)
      PROVE  RowOK'
  <2>1. Reads' \subseteq Reads \cup Following(call)
    BY <1>7, FinishEffect
  <2>2. past'.row = past.row
    BY <1>0, <1>7 DEF Finish, Pasts
  <2> QED
    BY <1>7, <2>1, <2>2, FollowingAsked, RowKept DEF Finish
<1>8. ASSUME Event
      PROVE  RowOK'
  <2>1. \A x \in Reads' \ Reads : x.step = "asked"
    BY <1>8, EventEffect, SidebarMade DEF History, Load
  <2> QED
    BY <1>8, <2>1, RowKept DEF Event
<1>9. ASSUME past'.row = past.row, side' = side, view'.conv = view.conv, loads' = loads
      PROVE  RowOK'
  BY <1>9, RowKept DEF Reads
<1>10. ASSUME NEW call \in Calls, Break(call) \/ Timeout(call)
       PROVE  past'.row = past.row /\ side' = side /\ view'.conv = view.conv /\ loads' = loads
  BY <1>0, <1>10 DEF Break, Timeout, Fault, Pasts
<1>11. ASSUME \/ \E kind, c, m : Start(kind, c, m)
              \/ \E c, m : Receives(c, m)
              \/ UNCHANGED vars
       PROVE  past'.row = past.row /\ side' = side /\ view'.conv = view.conv /\ loads' = loads
  BY <1>11 DEF Start, Receives, ReceiveMessage, ReceiveDelete, ReceiveInvite, vars
<1>12. ASSUME NEW word \in BOOLEAN, Type(word)
       PROVE  past'.row = past.row /\ side' = side /\ view'.conv = view.conv /\ loads' = loads
  BY <1>0, <1>12, TypeEffect DEF Type, Pasts
<1>13. ASSUME NEW ask \in Asks, CorrectWord(ask)
       PROVE  past'.row = past.row /\ side' = side /\ view'.conv = view.conv /\ loads' = loads
  BY <1>0, <1>13, CorrectWordEffect DEF CorrectWord
<1>14. ASSUME NEW ask \in Asks, NEW found \in BOOLEAN, CorrectEnter(ask, found)
       PROVE  past'.row = past.row /\ side' = side /\ view'.conv = view.conv /\ loads' = loads
  <2>1. view'.conv = view.conv
    BY <1>14, CorrectEnterSubmits, SubmitEffect
  <2> QED
    BY <1>14, <2>1 DEF CorrectEnter, Submit
<1>15. ASSUME Enter \/ ClickSend
       PROVE  past'.row = past.row /\ side' = side /\ view'.conv = view.conv /\ loads' = loads
  <2>1. view \in [conv : Convs \cup {Null}, shown : SUBSET Messages, text : Seq(Int)]
    BY DEF Base, ViewOK
  <2> QED
    BY <1>0, <1>15, <2>1 DEF Enter, ClickSend, Submit, Pasts
<1> QED
  BY <1>1, <1>2, <1>3, <1>4, <1>5, <1>6, <1>7, <1>8, <1>9, <1>10, <1>11, <1>12, <1>13, <1>14, <1>15,
     ShowSidebarRow, NextCases

(* MainWindow.tsx:89-113: a conversation that was selected stays open: its   *)
(* row is there, unless an older list came after a newer one.                *)
THEOREM SelectedStaysOpen == Spec => []ChatStaysOpen
<1>1. Init => RowOK
  BY SidebarMade DEF Init, RowOK, NoView, Sidebar, Load, Reads, SetToBag, BagToSet
<1>2. Base /\ RowOK /\ [Next]_vars => RowOK'
  BY NextRow
<1>3. RowOK => ChatStaysOpen
  BY DEF RowOK, ChatStaysOpen
<1> QED
  BY <1>1, <1>2, <1>3, BaseInvariant, PTL DEF Spec

-----------------------------------------------------------------------------

(* The list that the sidebar should show depends on the tables alone.        *)
LEMMA SameListing ==
    ASSUME store' = store
    PROVE  Listing' = Listing
BY DEF Listing, Latest

(* What would bring the sidebar up to date still will.                       *)
LEMMA SideKept ==
    ASSUME SideOK, ~past'.side => ~past.side, UNCHANGED <<store, side>>, events' = events,
           \A x \in Reads : SideRead(x) => \E y \in Reads' : SideRead(y),
           \A x \in Calls : SideCall(x) => \E y \in Calls' : SideCall(y),
           (\A x \in Calls : x.waited) => \A x \in Calls' : x.waited
    PROVE  SideOK'
<1>1. Listing' = Listing
  BY SameListing
<1>2. \A x : SideRead(x) => SideRead(x)'
  BY <1>1 DEF SideRead
<1>3. \A x : SideCall(x) => SideCall(x)'
  BY DEF SideCall
<1> QED
  BY <1>1, <1>2, <1>3 DEF SideOK, SideDue

(* A list that was asked for will do it.                                     *)
LEMMA SideStarted ==
    ASSUME NEW x \in Reads', SideRead(x)', \A call \in Calls' : call.waited
    PROVE  SideOK'
BY DEF SideOK, SideDue

(* Closing a component drops no list that is due.                            *)
LEMMA ClosesSide ==
    ASSUME Base, NEW d \in Convs \cup {Null}, NEW rest, IsABag(rest),
           \A x \in BagToSet(rest) : IsRead(x), Closes(d, rest)
    PROVE  /\ \A x \in BagToSet(rest) : SideRead(x) => \E y \in Reads' : SideRead(y)
           /\ \A x \in Calls : SideCall(x) => \E y \in Calls' : SideCall(y)
           /\ (\A x \in Calls : x.waited) => \A x \in Calls' : x.waited
<1>1. ASSUME NEW x \in BagToSet(rest), SideRead(x)
      PROVE  \E y \in Reads' : SideRead(y)
  <2>1. CASE x.what = "sidebar"
    BY <1>1, <2>1, ClosesEffect
  <2>2. CASE x.what = "history" /\ x.then
    <3>1. Unmarked(x) \in Reads'
      BY <2>2, ClosesEffect
    <3>2. Unmarked(x).what = x.what /\ Unmarked(x).then = x.then
      BY UnmarkedRead
    <3> QED
      BY <2>2, <3>1, <3>2 DEF SideRead
  <2> QED
    BY <1>1, <2>1, <2>2 DEF SideRead
<1>2. Calls' = {Unmarked(x) : x \in Calls}
  BY ClosesEffect
<1>3. \A x \in Calls : /\ Unmarked(x).kind = x.kind /\ Unmarked(x).step = x.step
                       /\ Unmarked(x).waited = x.waited
  BY UnmarkedCall DEF Base, CallsOK
<1> QED
  BY <1>1, <1>2, <1>3 DEF SideCall

(* Nor does selecting another conversation.                                  *)
LEMMA OpenSide ==
    ASSUME Base, SideOK, NEW c \in Convs, NEW pending, IsABag(pending),
           BagToSet(pending) \subseteq Reads,
           \A x \in Reads \ BagToSet(pending) : x.step = "avatars", Open(c, pending),
           UNCHANGED <<store, texts, side, typedIn, events>>
    PROVE  SideOK'
<1>1. \A x \in BagToSet(pending) : IsRead(x)
  BY DEF Base, ReadsOK
<1>2. \A x \in Reads : SideRead(x) => x \in BagToSet(pending)
  BY DEF SideRead, Base, ReadsOK, IsRead
<1>3. past'.side = past.side
  BY DEF Base, RecordsOK, Pasts, Open, Leave
<1>4. CASE loads' = pending /\ UNCHANGED <<view, calls, asks, past>>
  BY <1>2, <1>4, SideKept DEF Reads, Calls
<1>5. CASE Closes(c, pending)
  BY <1>1, <1>2, <1>3, <1>5, ClosesSide, SideKept
<1> QED
  BY <1>4, <1>5, OpenCases

(* An answer for the sidebar: the list of now, or another one is due.        *)
LEMMA ShowSidebarSide ==
    ASSUME Base, SideOK, NEW x \in Reads, ShowSidebar(x)
    PROVE  SideOK'
<1> SUFFICES ASSUME ~past'.side
             PROVE  SideOK'
  BY DEF SideOK
<1>1. ~past.side /\ ~(side = Listing /\ x.list # side)
  BY DEF Base, RecordsOK, Pasts, ShowSidebar
<1>2. (\A call \in Calls : call.waited) /\ (side = Listing \/ SideDue)
  BY <1>1 DEF SideOK
<1>3. /\ x.what = "sidebar" /\ x.step = "read" /\ side' = x.list /\ store' = store
      /\ events' = events
  BY ShowSidebarEffect DEF ShowSidebar
<1>4. Listing' = Listing
  BY <1>3, SameListing
<1>5. PICK rest :
         /\ IsABag(rest) /\ \A y \in BagToSet(rest) : IsRead(y)
         /\ Reads \ {x} \subseteq BagToSet(rest)
         /\ \/ loads' = rest /\ UNCHANGED <<view, calls, asks>>
            \/ Closes(view.conv, rest)
  BY ShowSidebarEffect
<1>6. view.conv \in Convs \cup {Null}
  BY DEF Base, ViewOK
<1>7. \A call \in Calls' : call.waited
  BY <1>2, <1>5, <1>6, ClosesSide DEF Calls
<1>8. CASE x.list = Listing
  BY <1>3, <1>4, <1>7, <1>8 DEF SideOK
<1>9. CASE x.list # Listing
  <2>1. SideDue
    BY <1>1, <1>2, <1>9
  <2>2. \A y \in Reads : SideRead(y) => y \in BagToSet(rest)
    BY <1>3, <1>5, <1>9 DEF SideRead
  <2>3. \A y \in BagToSet(rest) : SideRead(y) => \E z \in Reads' : SideRead(z)
    BY <1>5, <1>6, ClosesSide DEF Reads
  <2>4. \A y \in Calls : SideCall(y) => \E z \in Calls' : SideCall(z)
    BY <1>5, <1>6, ClosesSide DEF Calls
  <2>5. \A y : (SideRead(y) => SideRead(y)') /\ (SideCall(y) => SideCall(y)')
    BY <1>4 DEF SideRead, SideCall
  <2>6. SideDue'
    BY <1>3, <2>1, <2>2, <2>3, <2>4, <2>5 DEF SideDue
  <2> QED
    BY <1>7, <2>6 DEF SideOK
<1> QED
  BY <1>8, <1>9

(* What a call changed, the sidebar is told when it returns.                 *)
LEMMA FollowingSide ==
    ASSUME NEW call, IsCall(call)
    PROVE  \A x \in Following(call) : SideRead(x)'
<1>1. PICK f : /\ Following(call) = {f} /\ f.step = "asked"
               /\ call.kind \in {"send", "delete"} => f.what = "history" /\ f.then = TRUE
               /\ call.kind \notin {"send", "delete"} => f.what = "sidebar"
  BY FollowingMade
<1>2. SideRead(f)'
  BY <1>1 DEF SideRead
<1> QED
  BY <1>1, <1>2

(* The steps of a call keep SideOK.                                          *)
LEMMA CallSide ==
    ASSUME Base, SideOK, NEW call \in Calls,
           Change(call) \/ FinishDelete(call) \/ Finish(call) \/ Break(call) \/ Timeout(call)
    PROVE  SideOK'
<1> SUFFICES ASSUME ~past'.side
             PROVE  SideOK'
  BY DEF SideOK
<1>0. past \in Pasts /\ IsCall(call)
  BY DEF Base, RecordsOK, CallsOK
<1>1. ~past.side
  BY <1>0 DEF Pasts, Change, FinishDelete, Finish, Break, Timeout
<1>2. (\A y \in Calls : y.waited) /\ (side = Listing \/ SideDue)
  BY <1>1 DEF SideOK
<1>3. \A x \in Following(call) : SideRead(x)'
  BY <1>0, FollowingSide
<1>4. \E f : f \in Following(call)
  BY <1>0, FollowingMade
<1>5. CASE Change(call)
  <2>1. CASE call.kind \notin {"delete", "create"}
    <3>1. Calls' \subseteq Calls /\ Reads' = Reads \cup Following(call)
      BY <1>5, <2>1, ChangeEffect
    <3> QED
      BY <1>2, <1>3, <1>4, <3>1, SideStarted
  <2>2. CASE call.kind \in {"delete", "create"}
    <3>1. PICK y : /\ Calls' \subseteq Calls \cup {y} /\ y \in Calls' /\ y.kind = call.kind
                   /\ y.step = "out" /\ y.waited
      BY <1>5, <2>2, ChangeEffect
    <3>2. SideCall(y)'
      BY <2>2, <3>1 DEF SideCall
    <3> QED
      BY <1>2, <3>1, <3>2 DEF SideOK, SideDue
  <2> QED
    BY <2>1, <2>2
<1>6. CASE FinishDelete(call) \/ Finish(call)
  <2>1. Calls' \subseteq Calls /\ Reads' = Reads \cup Following(call)
    BY <1>2, <1>6, FinishDeleteEffect, FinishEffect
  <2> QED
    BY <1>2, <1>3, <1>4, <2>1, SideStarted
<1>7. CASE Break(call)
  <2>1. call.kind \notin {"delete", "create"}
    BY <1>0, <1>7 DEF Pasts, Break
  <2>2. Calls' \subseteq Calls /\ Calls \ {call} \subseteq Calls'
    BY <1>7, BreakEffect
  <2>3. UNCHANGED <<store, side, loads, events>>
    BY <1>7 DEF Break, Fault
  <2>4. \A y \in Calls : SideCall(y) => y \in Calls'
    BY <2>1, <2>2 DEF SideCall
  <2> QED
    BY <1>1, <2>2, <2>3, <2>4, SideKept DEF Reads
<1>8. CASE Timeout(call)
  BY <1>0, <1>8 DEF Pasts, Timeout
<1> QED
  BY <1>5, <1>6, <1>7, <1>8

(* Every step keeps SideOK.                                                  *)
LEMMA NextSide ==
    ASSUME Base, SideOK, [Next]_vars
    PROVE  SideOK'
<1>0. past \in Pasts
  BY DEF Base, RecordsOK
<1>1. ASSUME NEW x \in Reads, Read(x)
      PROVE  SideOK'
  <2>1. PICK y : /\ Reads \ {x} \subseteq Reads' /\ y \in Reads' /\ IsRead(y)'
                 /\ y.what = x.what /\ y.then = x.then /\ y.step = "read"
                 /\ x.what = "sidebar" => y.list = Listing
    BY <1>1, ReadEffect
  <2>2. x.what = "history" \/ x.what = "sidebar"
    BY DEF Base, ReadsOK, IsRead
  <2>3. SideRead(x) => SideRead(y)
    BY <2>1, <2>2 DEF SideRead
  <2> QED
    BY <1>1, <2>1, <2>3, SideKept DEF Read, Calls
<1>2. ASSUME NEW x \in Reads, ShowHistory(x)
      PROVE  SideOK'
  <2>1. /\ Reads \ {x} \subseteq Reads' /\ x.what = "history" /\ (x.then => Sidebar \in Reads')
        /\ Sidebar.what = "sidebar" /\ Sidebar.step = "asked"
    BY <1>2, ShowHistoryEffect, SidebarMade
  <2>2. SideRead(Sidebar)
    BY <2>1 DEF SideRead
  <2>3. past'.side = past.side
    BY <1>0, <1>2 DEF ShowHistory, Pasts
  <2>4. \A z \in Reads : SideRead(z) => \E y \in Reads' : SideRead(y)
    BY <2>1, <2>2 DEF SideRead
  <2> QED
    BY <1>2, <2>3, <2>4, SideKept DEF ShowHistory, Calls
<1>3. ASSUME NEW x \in Reads, OpenNew(x)
      PROVE  SideOK'
  <2>1. /\ IsABag(Without(loads, x)) /\ BagToSet(Without(loads, x)) \subseteq Reads
        /\ Reads \ {x} \subseteq BagToSet(Without(loads, x)) /\ IsRead(x)
    BY ReadTaken
  <2>2. x.step = "avatars" /\ x.conv \in Convs
    BY <1>3, <2>1 DEF OpenNew, IsRead, Base, StoreOK
  <2> QED
    BY <1>3, <2>1, <2>2, OpenSide DEF OpenNew
<1>4. ASSUME NEW c \in Convs, Select(c)
      PROVE  SideOK'
  <2>1. IsABag(loads) /\ BagToSet(loads) = Reads
    BY DEF Base, ReadsOK, Reads
  <2> QED
    BY <1>4, <2>1, OpenSide DEF Select
<1>5. ASSUME NEW kind \in {"delete", "new", "create", "pin", "unpin"}, NEW c \in Convs, NEW m,
             kind = "new" => c \in Chats, kind = "delete" => Mounted /\ c = view.conv,
             Start(kind, c, m)
      PROVE  SideOK'
  <2>1. PICK y : Calls' = Calls \cup {y} /\ y.waited = TRUE
    BY <1>5, StartEffect
  <2> QED
    BY <1>5, <2>1, SideKept DEF Start, Reads
<1>6. ASSUME NEW c \in Convs, NEW m, Receives(c, m)
      PROVE  SideOK'
  <2>1. events' > 0 /\ past' = past /\ calls' = calls
    BY <1>6 DEF Receives, ReceiveMessage, ReceiveDelete, ReceiveInvite, Base, RecordsOK
  <2> QED
    BY <2>1 DEF SideOK, SideDue, Calls
<1>7. ASSUME Event
      PROVE  SideOK'
  <2>1. PICK s : s = Sidebar
    OBVIOUS
  <2>2. s \in Reads' /\ s.what = "sidebar" /\ s.step = "asked" /\ past' = past /\ Calls' = Calls
    BY <1>7, <2>1, EventEffect, SidebarMade DEF Event, Calls
  <2>3. SideRead(s)'
    BY <2>2 DEF SideRead
  <2> QED
    BY <2>2, <2>3 DEF SideOK, SideDue
<1>8. ASSUME UNCHANGED <<store, side, loads, events>>, past'.side = past.side,
             Calls \subseteq Calls', \A x \in Calls' \ Calls : x.waited
      PROVE  SideOK'
  BY <1>8, SideKept DEF Reads
<1>9. ASSUME \/ \E word \in BOOLEAN : Type(word)
             \/ \E ask \in Asks : CorrectWord(ask)
             \/ Enter \/ UNCHANGED vars
      PROVE  SideOK'
  <2>1. UNCHANGED <<store, side, loads, calls, events>> /\ past'.side = past.side
    BY <1>0, <1>9 DEF Type, CorrectWord, Enter, vars, Pasts
  <2> QED
    BY <1>8, <2>1 DEF Calls
<1>10. ASSUME NEW c \in Convs, NEW here \in BOOLEAN, NEW text, IsText(text), text # <<>>,
              here => Mounted /\ c = view.conv, Submit(c, here, text), past'.side = past.side
       PROVE  SideOK'
  <2>1. \E y : Calls' = Calls \cup {y} /\ y.waited = TRUE
    <3>1. (here => Mounted /\ c = view.conv) /\ IsText(text) /\ text # <<>> /\ Submit(c, here, text)
      BY <1>10
    <3> QED
      BY <3>1, SubmitEffect, Zenon
  <2> QED
    BY <1>8, <1>10, <2>1 DEF Submit
<1>11. ASSUME NEW ask \in Asks, NEW found \in BOOLEAN, CorrectEnter(ask, found)
       PROVE  SideOK'
  BY <1>10, <1>11, CorrectEnterSubmits DEF CorrectEnter
<1>12. ASSUME ClickSend
       PROVE  SideOK'
  <2>1. /\ IsText(view.text) /\ view.text # <<>> /\ view.conv \in Convs /\ Mounted
        /\ Submit(view.conv, TRUE, view.text) /\ past'.side = past.side
    BY <1>0, <1>12 DEF Base, ViewOK, ClickSend, Mounted, Pasts
  <2>2. PICK here \in BOOLEAN : here = TRUE
    OBVIOUS
  <2> QED
    BY <1>10, <2>1, <2>2
<1> QED
  BY <1>1, <1>2, <1>3, <1>4, <1>5, <1>6, <1>7, <1>9, <1>11, <1>12, CallSide, ShowSidebarSide, NextCases

(* MainWindow.tsx:31-37, 89-109: at rest the sidebar shows what is stored,   *)
(* unless an outdated list replaced the right one or a call failed after it  *)
(* had changed the store.                                                    *)
THEOREM SidebarIsRight == Spec => []SidebarShowsTheStore
<1>1. Init => SideOK
  <2> SUFFICES ASSUME Init
               PROVE  SideOK
    OBVIOUS
  <2>1. Reads = {Sidebar} /\ Calls = {}
    BY DEF Init, Reads, Calls, SetToBag, BagToSet, EmptyBag
  <2>2. SideRead(Sidebar)
    BY DEF SideRead, Sidebar, Load
  <2> QED
    BY <2>1, <2>2 DEF SideOK, SideDue
<1>2. Base /\ SideOK /\ [Next]_vars => SideOK'
  BY NextSide
<1>3. SideOK => SidebarShowsTheStore
  <2>1. AtRest => Reads = {} /\ Calls = {} /\ events = 0
    BY DEF AtRest, Reads, Calls, EmptyBag, SetToBag, BagToSet
  <2> QED
    BY <2>1 DEF SideOK, SideDue, SidebarShowsTheStore
<1> QED
  BY <1>1, <1>2, <1>3, BaseInvariant, PTL DEF Spec

-----------------------------------------------------------------------------

(* What would bring the open conversation up to date still will.             *)
LEMMA ChatKept ==
    ASSUME ChatOK, ~past'.chat => ~past.chat, Mounted' => Mounted, view'.shown = view.shown,
           view'.conv = view.conv, Mounted => store'.msgs[view.conv] = store.msgs[view.conv],
           events' = events,
           \A x \in Reads : Mounted /\ ChatRead(x) => x \in Reads',
           \A x \in Calls : ChatCall(x) => x \in Calls',
           \A x \in Calls' \ Calls : Own(x), \A x \in Asks' \ Asks : OwnAsk(x)
    PROVE  ChatOK'
<1>1. \A x : Mounted /\ ChatRead(x) => ChatRead(x)'
  BY DEF ChatRead
<1>2. \A x : (ChatCall(x) => ChatCall(x)') /\ (Own(x) => Own(x)') /\ (OwnAsk(x) => OwnAsk(x)')
  BY DEF ChatCall, Own, OwnAsk
<1> QED
  BY <1>1, <1>2 DEF ChatOK, ChatDue

(* A history that was asked for will do it, whatever is stored meanwhile.    *)
LEMMA ChatStarted ==
    ASSUME ChatOK, ~past'.chat => ~past.chat,
           \/ events' > 0
           \/ \E x \in Reads' : x.what = "history" /\ x.here /\ x.step = "asked"
           \/ \E x \in Calls' : x.kind = "delete" /\ x.step = "out",
           \A x \in Calls' \ Calls : Own(x), \A x \in Asks' \ Asks : OwnAsk(x)
    PROVE  ChatOK'
<1>1. \A x : x.what = "history" /\ x.here /\ x.step = "asked" => ChatRead(x)'
  BY DEF ChatRead
<1>2. \A x : x.kind = "delete" /\ x.step = "out" => ChatCall(x)'
  BY DEF ChatCall
<1>3. ChatDue'
  BY <1>1, <1>2 DEF ChatDue
<1>4. \A x : (Own(x) => Own(x)') /\ (OwnAsk(x) => OwnAsk(x)')
  BY DEF Own, OwnAsk
<1> QED
  BY <1>3, <1>4 DEF ChatOK

(* A conversation that was waited for by nobody closes, and the other one,   *)
(* if it is there, asks for its history.                                     *)
LEMMA ClosesChat ==
    ASSUME Base, NEW d \in Convs \cup {Null}, NEW rest, IsABag(rest),
           \A x \in BagToSet(rest) : IsRead(x), Closes(d, rest), ~Waits,
           \A call \in Calls : Own(call), \A ask \in Asks : OwnAsk(ask)
    PROVE  ChatOK'
<1>1. \A call \in Calls : call.waited /\ call.kind \notin {"send", "delete"}
  BY DEF Own, Waits, Calls
<1>2. \A ask \in Asks : ask.why # "enter"
  BY DEF OwnAsk, Waits, Asks
<1>3. Calls' = {Unmarked(x) : x \in Calls} /\ Asks' = {Unmarked(x) : x \in Asks}
  BY ClosesEffect
<1>4. /\ \A x \in Calls : Unmarked(x).kind = x.kind /\ Unmarked(x).waited = x.waited
      /\ \A x \in Asks : Unmarked(x).why = x.why
  BY UnmarkedCall, UnmarkedAsk DEF Base, CallsOK, AsksOK
<1>5. (\A x \in Calls' : Own(x)) /\ (\A x \in Asks' : OwnAsk(x))
  BY <1>1, <1>2, <1>3, <1>4 DEF Own, OwnAsk
<1>6. Mounted' => ChatDue'
  <2>1. view' = [conv |-> d, shown |-> {}, text |-> <<>>]
    BY ClosesEffect
  <2>2. Mounted' => d \in side'.known
    BY <2>1 DEF Mounted
  <2>3. PICK h : h = History(d, FALSE, TRUE)
    OBVIOUS
  <2>4. d \in side'.known => h \in Reads'
    BY <2>3, ClosesEffect
  <2>5. ChatRead(h)'
    BY <2>3 DEF History, Load, ChatRead
  <2> QED
    BY <2>2, <2>4, <2>5 DEF ChatDue
<1>7. \A x : (Own(x) => Own(x)') /\ (OwnAsk(x) => OwnAsk(x)')
  BY DEF Own, OwnAsk
<1> QED
  BY <1>5, <1>6, <1>7 DEF ChatOK

(* A conversation that is selected asks for its history.                     *)
LEMMA OpenChat ==
    ASSUME Base, ChatOK, NEW c \in Convs, NEW pending, IsABag(pending),
           BagToSet(pending) \subseteq Reads,
           \A x \in Reads \ BagToSet(pending) : x.step = "avatars", Open(c, pending),
           UNCHANGED <<store, texts, side, typedIn, events>>
    PROVE  ChatOK'
<1> SUFFICES ASSUME ~past'.chat
             PROVE  ChatOK'
  BY DEF ChatOK
<1>0. past \in Pasts
  BY DEF Base, RecordsOK
<1>1. \A x \in BagToSet(pending) : IsRead(x)
  BY DEF Base, ReadsOK
<1>2. \A x \in Reads : ChatRead(x) => x \in BagToSet(pending)
  BY DEF ChatRead, Base, ReadsOK, IsRead
<1>3. CASE loads' = pending /\ UNCHANGED <<view, calls, asks, past>>
  BY <1>2, <1>3, ChatKept DEF Reads, Calls, Asks, Mounted
<1>4. CASE Closes(c, pending) /\ past' = [past EXCEPT !.chat = @ \/ Waits,
                                      !.lost = @ \/ (Mounted /\ view.text # <<>>)]
  <2>1. ~past.chat /\ ~Waits
    BY <1>0, <1>4 DEF Pasts
  <2> QED
    BY <1>1, <1>4, <2>1, ClosesChat DEF ChatOK
<1> QED
  BY <1>3, <1>4, OpenCases

(* Without a component, nothing waits for one.                               *)
LEMMA UnmountedWaits ==
    ASSUME Base, ~Mounted
    PROVE  ~Waits
BY DEF Base, CallsOK, AsksOK, IsCall, IsAsk, Waits, Calls, Asks

(* A list that mounts a component has it ask for its history.                *)
LEMMA ShowSidebarChat ==
    ASSUME Base, ChatOK, NEW x \in Reads, ShowSidebar(x)
    PROVE  ChatOK'
<1> SUFFICES ASSUME ~past'.chat
             PROVE  ChatOK'
  BY DEF ChatOK
<1>1. ~past.chat /\ ~(Mounted /\ view.conv \notin x.list.known /\ Waits)
  BY DEF Base, RecordsOK, Pasts, ShowSidebar
<1>2. x.what = "sidebar" /\ side' = x.list /\ UNCHANGED <<store, events>>
  BY ShowSidebarEffect DEF ShowSidebar
<1>3. PICK rest :
         /\ IsABag(rest) /\ \A y \in BagToSet(rest) : IsRead(y)
         /\ Reads \ {x} \subseteq BagToSet(rest)
         /\ \/ /\ Mounted <=> view.conv \in x.list.known
               /\ loads' = rest /\ UNCHANGED <<view, calls, asks>>
            \/ /\ ~(Mounted <=> view.conv \in x.list.known)
               /\ Closes(view.conv, rest)
  BY ShowSidebarEffect
<1>4. CASE /\ Mounted <=> view.conv \in x.list.known
           /\ loads' = rest /\ UNCHANGED <<view, calls, asks>>
  <2>1. \A y \in Reads : ChatRead(y) => y \in Reads'
    BY <1>2, <1>3, <1>4 DEF ChatRead, Reads
  <2> QED
    BY <1>1, <1>2, <1>4, <2>1, ChatKept DEF Calls, Asks, Mounted
<1>5. CASE /\ ~(Mounted <=> view.conv \in x.list.known)
           /\ Closes(view.conv, rest)
  <2>1. ~Waits
    BY <1>1, <1>5, UnmountedWaits
  <2>2. view.conv \in Convs \cup {Null}
    BY DEF Base, ViewOK
  <2> QED
    BY <1>1, <1>3, <1>5, <2>1, <2>2, ClosesChat DEF ChatOK
<1> QED
  BY <1>3, <1>4, <1>5

(* A history that is shown: the one of now, or another one is due.           *)
LEMMA ShowHistoryChat ==
    ASSUME Base, ChatOK, NEW x \in Reads, ShowHistory(x)
    PROVE  ChatOK'
<1> SUFFICES ASSUME ~past'.chat
             PROVE  ChatOK'
  BY DEF ChatOK
<1>1. /\ IsRead(x) /\ x.what = "history" /\ x.step = "read" /\ Reads \ {x} \subseteq Reads'
      /\ view'.conv = view.conv /\ view'.shown = IF x.here THEN x.seen ELSE view.shown
  BY ShowHistoryEffect
<1>2. UNCHANGED <<store, side, calls, asks, events>>
  BY DEF ShowHistory
<1>3. CASE ~x.here
  <2>1. ~past.chat
    BY <1>3 DEF ShowHistory
  <2>2. \A y \in Reads : ChatRead(y) => y \in Reads'
    BY <1>1, <1>3 DEF ChatRead
  <2> QED
    BY <1>1, <1>2, <1>3, <2>1, <2>2, ChatKept DEF Calls, Asks, Mounted
<1>4. CASE x.here
  <2>1. ~past.chat /\ ~(view.shown = store.msgs[x.conv] /\ x.seen # view.shown)
    BY <1>4 DEF ShowHistory, Base, RecordsOK, Pasts
  <2>2. Mounted /\ x.conv = view.conv
    BY <1>1, <1>4 DEF IsRead
  <2>3. /\ \A call \in Calls : Own(call)
        /\ \A ask \in Asks : OwnAsk(ask)
        /\ view.shown = store.msgs[view.conv] \/ ChatDue
    BY <2>1, <2>2 DEF ChatOK
  <2>4. \A y : (ChatRead(y) => ChatRead(y)') /\ (ChatCall(y) => ChatCall(y)')
                /\ (Own(y) => Own(y)') /\ (OwnAsk(y) => OwnAsk(y)')
    BY <1>1, <1>2 DEF ChatRead, ChatCall, Own, OwnAsk
  <2>5. Calls' = Calls /\ Asks' = Asks
    BY <1>2 DEF Calls, Asks
  <2>6. CASE x.seen = store.msgs[view.conv]
    BY <1>1, <1>2, <1>4, <2>3, <2>4, <2>5, <2>6 DEF ChatOK
  <2>7. CASE x.seen # store.msgs[view.conv]
    <3>1. ChatDue
      BY <2>1, <2>2, <2>3, <2>7
    <3>2. \A y \in Reads : ChatRead(y) => y \in Reads'
      BY <1>1, <2>7 DEF ChatRead
    <3>3. ChatDue'
      BY <1>2, <2>4, <2>5, <3>1, <3>2 DEF ChatDue
    <3> QED
      BY <2>3, <2>4, <2>5, <3>3 DEF ChatOK
  <2> QED
    BY <2>6, <2>7
<1> QED
  BY <1>3, <1>4

(* What a call changed, its component is shown when it returns.              *)
LEMMA CallChat ==
    ASSUME Base, ChatOK, NEW call \in Calls,
           Change(call) \/ FinishDelete(call) \/ Finish(call) \/ Break(call) \/ Timeout(call)
    PROVE  ChatOK'
<1> SUFFICES ASSUME ~past'.chat
             PROVE  ChatOK'
  BY DEF ChatOK
<1>0. past \in Pasts /\ IsCall(call)
  BY DEF Base, RecordsOK, CallsOK
<1>1. ~past.chat
  BY <1>0 DEF Pasts, Change, FinishDelete, Finish, Break, Timeout
<1>2. Own(call)
  BY <1>1 DEF ChatOK
<1>3. PICK f : /\ Following(call) = {f} /\ f.step = "asked"
               /\ call.kind \in {"send", "delete"} => f.what = "history" /\ f.here = call.here
  BY <1>0, FollowingMade
<1>4. asks' = asks /\ Asks' = Asks /\ UNCHANGED <<side, view, events>> /\ (Mounted => view.conv \in Convs)
  BY DEF Change, FinishDelete, Finish, Break, Timeout, Fault, Asks, Base, ViewOK, Mounted
<1>5. CASE Change(call)
  <2>1. call.step = "start" /\ call.kind # "send"
    BY <1>5, ChangeEffect
  <2>2. call.kind # "delete" => \A c \in Convs : store'.msgs[c] = store.msgs[c]
    BY <1>0, <1>5, <2>1, ChangedStore DEF Change
  <2>3. \A x \in Calls : ChatCall(x) => x # call
    BY <2>1 DEF ChatCall
  <2>4. CASE call.kind \notin {"delete", "create"}
    <3>1. Calls' \subseteq Calls /\ Calls \ {call} \subseteq Calls' /\ Reads' = Reads \cup Following(call)
      BY <1>5, <2>4, ChangeEffect
    <3> QED
      BY <1>1, <1>4, <2>2, <2>3, <2>4, <3>1, ChatKept DEF Mounted
  <2>5. CASE call.kind \in {"delete", "create"}
    <3>1. PICK y : /\ Calls' \subseteq Calls \cup {y} /\ Calls \ {call} \subseteq Calls'
                   /\ y \in Calls' /\ y.kind = call.kind
                   /\ y.here = call.here /\ y.step = "out" /\ y.waited
      BY <1>5, <2>5, ChangeEffect
    <3>2. Own(y) /\ loads' = loads
      BY <1>2, <1>5, <2>5, <3>1, ChangeEffect DEF Own
    <3>3. CASE call.kind = "delete"
      BY <1>1, <1>4, <3>1, <3>2, <3>3, ChatStarted
    <3>4. CASE call.kind = "create"
      BY <1>1, <1>4, <2>2, <2>3, <3>1, <3>2, <3>4, ChatKept DEF Mounted, Reads
    <3> QED
      BY <2>5, <3>3, <3>4
  <2> QED
    BY <2>4, <2>5
<1>6. CASE FinishDelete(call)
  <2>1. Calls' \subseteq Calls /\ Reads' = Reads \cup Following(call) /\ call.kind = "delete"
    BY <1>2, <1>6, FinishDeleteEffect DEF Own
  <2> QED
    BY <1>1, <1>2, <1>3, <1>4, <2>1, ChatStarted DEF Own
<1>7. CASE Finish(call)
  <2>1. /\ Calls' \subseteq Calls /\ Calls \ {call} \subseteq Calls'
        /\ Reads' = Reads \cup Following(call) /\ call.kind \in {"send", "create"}
    BY <1>2, <1>7, FinishEffect DEF Own
  <2>2. CASE call.kind = "send"
    BY <1>1, <1>2, <1>3, <1>4, <2>1, <2>2, ChatStarted DEF Own
  <2>3. CASE call.kind = "create"
    <3>1. call.conv # view.conv
      BY <1>0, <1>7, <2>3 DEF Finish, Pasts
    <3>2. Mounted => store'.msgs[view.conv] = store.msgs[view.conv]
      BY <1>4, <1>7, <3>1, FinishEffect
    <3>3. \A x \in Calls : ChatCall(x) => x \in Calls'
      BY <2>1, <2>3 DEF ChatCall
    <3> QED
      BY <1>1, <1>4, <2>1, <3>2, <3>3, ChatKept DEF Mounted
  <2> QED
    BY <2>1, <2>2, <2>3
<1>8. CASE Break(call)
  <2>1. call.kind # "delete"
    BY <1>0, <1>8 DEF Pasts, Break
  <2>2. Calls' \subseteq Calls /\ Calls \ {call} \subseteq Calls'
    BY <1>8, BreakEffect
  <2>3. UNCHANGED <<store, loads>>
    BY <1>8 DEF Break, Fault
  <2>4. \A y \in Calls : ChatCall(y) => y \in Calls'
    BY <2>1, <2>2 DEF ChatCall
  <2> QED
    BY <1>1, <1>4, <2>2, <2>3, <2>4, ChatKept DEF Reads, Mounted
<1>9. CASE Timeout(call)
  BY <1>0, <1>9 DEF Pasts, Timeout
<1> QED
  BY <1>5, <1>6, <1>7, <1>8, <1>9

(* Every step keeps ChatOK.                                                  *)
LEMMA NextChat ==
    ASSUME Base, ChatOK, [Next]_vars
    PROVE  ChatOK'
<1>0. past \in Pasts
  BY DEF Base, RecordsOK
<1>1. ASSUME NEW x \in Reads, Read(x)
      PROVE  ChatOK'
  <2>1. PICK y : /\ Reads \ {x} \subseteq Reads' /\ y \in Reads' /\ y.step = "read"
                 /\ y.what = x.what /\ y.conv = x.conv /\ y.here = x.here
                 /\ x.what = "history" => y.seen = store.msgs[x.conv]
    BY <1>1, ReadEffect
  <2>2. x.what = "history" /\ x.here => x.conv = view.conv
    BY DEF Base, ReadsOK, IsRead
  <2>3. ChatRead(x) => ChatRead(y)
    BY <2>1, <2>2 DEF ChatRead
  <2>4. UNCHANGED <<store, side, view, calls, asks, events, past>> /\ Calls' = Calls /\ Asks' = Asks
    BY <1>1 DEF Read, Calls, Asks
  <2>5. \A z : (ChatRead(z) => ChatRead(z)') /\ (ChatCall(z) => ChatCall(z)')
                /\ (Own(z) => Own(z)') /\ (OwnAsk(z) => OwnAsk(z)')
    BY <2>4 DEF ChatRead, ChatCall, Own, OwnAsk
  <2>6. ChatDue => ChatDue'
    BY <2>1, <2>3, <2>4, <2>5 DEF ChatDue
  <2> QED
    BY <2>4, <2>5, <2>6 DEF ChatOK, Mounted
<1>2. ASSUME NEW x \in Reads, OpenNew(x)
      PROVE  ChatOK'
  <2>1. /\ IsABag(Without(loads, x)) /\ BagToSet(Without(loads, x)) \subseteq Reads
        /\ Reads \ {x} \subseteq BagToSet(Without(loads, x)) /\ IsRead(x)
    BY ReadTaken
  <2>2. x.step = "avatars" /\ x.conv \in Convs
    BY <1>2, <2>1 DEF OpenNew, IsRead, Base, StoreOK
  <2> QED
    BY <1>2, <2>1, <2>2, OpenChat DEF OpenNew
<1>3. ASSUME NEW c \in Convs, Select(c)
      PROVE  ChatOK'
  <2>1. IsABag(loads) /\ BagToSet(loads) = Reads
    BY DEF Base, ReadsOK, Reads
  <2> QED
    BY <1>3, <2>1, OpenChat DEF Select
<1>4. ASSUME UNCHANGED <<store, side, loads, events>>, ~past'.chat => ~past.chat,
             view'.conv = view.conv, view'.shown = view.shown, Calls \subseteq Calls',
             \A x \in Calls' \ Calls : Own(x), \A x \in Asks' \ Asks : OwnAsk(x)
      PROVE  ChatOK'
  BY <1>4, ChatKept DEF Reads, Mounted
<1>5. ASSUME NEW kind \in {"delete", "new", "create", "pin", "unpin"}, NEW c \in Convs, NEW m,
             kind = "new" => c \in Chats, kind = "delete" => Mounted /\ c = view.conv,
             Start(kind, c, m)
      PROVE  ChatOK'
  <2>1. PICK y : Calls' = Calls \cup {y} /\ y.waited = TRUE /\ y.here = TRUE
    BY <1>5, StartEffect
  <2> QED
    BY <1>4, <1>5, <2>1 DEF Start, Own, Asks
<1>6. ASSUME NEW c \in Convs, NEW m, Receives(c, m)
      PROVE  ChatOK'
  <2>1. events' > 0 /\ past' = past /\ calls' = calls /\ asks' = asks
    BY <1>6 DEF Receives, ReceiveMessage, ReceiveDelete, ReceiveInvite, Base, RecordsOK
  <2> QED
    BY <2>1, ChatStarted DEF Calls, Asks
<1>7. ASSUME Event
      PROVE  ChatOK'
  <2>1. /\ UNCHANGED <<store, side, view, calls, asks, past>>
        /\ Calls' = Calls /\ Asks' = Asks
    BY <1>7 DEF Event, Calls, Asks
  <2>2. CASE Mounted
    <3>1. PICK h : h = History(view.conv, FALSE, TRUE)
      OBVIOUS
    <3>2. h \in Reads' /\ h.what = "history" /\ h.here /\ h.step = "asked"
      BY <1>7, <2>2, <3>1, EventEffect DEF History, Load
    <3> QED
      BY <2>1, <3>2, ChatStarted
  <2>3. CASE ~Mounted
    BY <2>1, <2>3 DEF ChatOK, Mounted, Own, OwnAsk
  <2> QED
    BY <2>2, <2>3
<1>8. ASSUME NEW word \in BOOLEAN, Type(word)
      PROVE  ChatOK'
  <2>1. /\ view'.conv = view.conv /\ view'.shown = view.shown
        /\ \A ask \in Asks' \ Asks : ask.why = "word"
    BY <1>8, TypeEffect
  <2> QED
    BY <1>0, <1>4, <1>8, <2>1 DEF Type, OwnAsk, Pasts, Calls
<1>9. ASSUME NEW ask \in Asks, CorrectWord(ask)
      PROVE  ChatOK'
  <2>1. view'.conv = view.conv /\ view'.shown = view.shown /\ Asks' \subseteq Asks
    BY <1>9, CorrectWordEffect, AskTaken DEF CorrectWord
  <2> QED
    BY <1>4, <1>9, <2>1 DEF CorrectWord, Calls
<1>10. ASSUME Enter
       PROVE  ChatOK'
  <2>1. PICK y : Asks' = Asks \cup {y} /\ y.here = TRUE
    BY <1>10, EnterEffect
  <2> QED
    BY <1>0, <1>4, <1>10, <2>1 DEF Enter, OwnAsk, Pasts, Calls
<1>11. ASSUME NEW c \in Convs, NEW here \in BOOLEAN, NEW text, IsText(text), text # <<>>,
              here => Mounted /\ c = view.conv, Submit(c, here, text), ~past'.chat => ~past.chat,
              Asks' \subseteq Asks, ~past.chat => here
       PROVE  ChatOK'
  <2>1. /\ view'.conv = view.conv /\ view'.shown = view.shown
        /\ \E y : Calls' = Calls \cup {y} /\ y.waited = TRUE /\ (here => y.here)
    <3>1. (here => Mounted /\ c = view.conv) /\ IsText(text) /\ text # <<>> /\ Submit(c, here, text)
      BY <1>11
    <3>2. view'.conv = view.conv /\ view'.shown = view.shown
      BY <3>1, SubmitEffect, Zenon
    <3>3. \E y : Calls' = Calls \cup {y} /\ y.waited = TRUE /\ (here => y.here)
      BY <3>1, SubmitEffect, Zenon
    <3> QED
      BY <3>2, <3>3
  <2>2. CASE past.chat
    BY <1>11, <2>2 DEF ChatOK
  <2>3. CASE ~past.chat
    <3>1. \A x \in Calls' \ Calls : Own(x)
      BY <1>11, <2>1, <2>3 DEF Own
    <3> QED
      BY <1>4, <1>11, <2>1, <3>1 DEF Submit
  <2> QED
    BY <2>2, <2>3
<1>12. ASSUME NEW ask \in Asks, NEW found \in BOOLEAN, CorrectEnter(ask, found)
       PROVE  ChatOK'
  <2>1. past' = past /\ Asks' \subseteq Asks
    BY <1>12, AskTaken DEF CorrectEnter
  <2>2. ~past.chat => ask.here
    BY <1>12 DEF CorrectEnter, ChatOK, OwnAsk
  <2>3. PICK text : /\ IsText(text) /\ text # <<>> /\ Submit(ask.conv, ask.here, text)
                    /\ ask.conv \in Convs /\ ask.here \in BOOLEAN
                    /\ ask.here => Mounted /\ ask.conv = view.conv
    BY <1>12, CorrectEnterSubmits
  <2> QED
    BY <1>11, <2>1, <2>2, <2>3
<1>13. ASSUME ClickSend
       PROVE  ChatOK'
  <2>1. /\ IsText(view.text) /\ view.text # <<>> /\ view.conv \in Convs /\ Mounted
        /\ Submit(view.conv, TRUE, view.text) /\ past'.chat = past.chat /\ Asks' = Asks
    BY <1>0, <1>13 DEF Base, ViewOK, ClickSend, Mounted, Pasts, Asks
  <2>2. PICK here \in BOOLEAN : here = TRUE
    OBVIOUS
  <2> QED
    BY <1>11, <2>1, <2>2
<1>14. ASSUME UNCHANGED vars
       PROVE  ChatOK'
  BY <1>4, <1>14 DEF vars, Calls, Asks
<1> QED
  BY <1>1, <1>2, <1>3, <1>5, <1>6, <1>7, <1>8, <1>9, <1>10, <1>12, <1>13, <1>14,
     CallChat, ShowSidebarChat, ShowHistoryChat, NextCases

(* ChatView.tsx:34-82, MainWindow.tsx:55-72, 99-105: at rest the open        *)
(* conversation shows what is stored of it, unless `past' says why not.      *)
THEOREM ChatIsRight == Spec => []ChatShowsTheStore
<1>1. Init => ChatOK
  <2> SUFFICES ASSUME Init
               PROVE  ChatOK
    OBVIOUS
  <2>1. Calls = {} /\ Asks = {} /\ ~Mounted
    BY DEF Init, Calls, Asks, BagToSet, EmptyBag, SetToBag, Mounted, NoListing
  <2> QED
    BY <2>1 DEF ChatOK
<1>2. Base /\ ChatOK /\ [Next]_vars => ChatOK'
  BY NextChat
<1>3. ChatOK => ChatShowsTheStore
  <2>1. AtRest => Reads = {} /\ Calls = {} /\ events = 0
    BY DEF AtRest, Reads, Calls, EmptyBag, SetToBag, BagToSet
  <2> QED
    BY <2>1 DEF ChatOK, ChatDue, ChatShowsTheStore
<1> QED
  BY <1>1, <1>2, <1>3, BaseInvariant, PTL DEF Spec

-----------------------------------------------------------------------------

(* A text has a piece, and entries with the same one cannot both be there.   *)
LEMMA SomePiece ==
    ASSUME NEW text, IsText(text), text # <<>>
    PROVE  Pieces(text) # {}
<1>1. text \in Seq(Int) /\ Len(text) \in DOMAIN text
  BY DEF IsText
<1>2. Pieces(text) = {Piece(text[i]) : i \in DOMAIN text}
  BY <1>1, PiecesOf
<1> QED
  BY <1>1, <1>2

(* A send that is under way has a text.                                      *)
LEMMA SendingText ==
    ASSUME Base, NEW x \in Sending
    PROVE  x \in Calls /\ IsCall(x) /\ x.kind = "send" /\ Pieces(x.text) # {}
BY SomePiece DEF Base, CallsOK, IsCall, Sending, Calls

(* So has an Enter that waits.                                               *)
LEMMA EnteredText ==
    ASSUME Base, NEW a \in Entered
    PROVE  a \in Asks /\ IsAsk(a) /\ a.why = "enter" /\ Pieces(a.text) # {}
BY SomePiece DEF Base, AsksOK, IsAsk, Entered

(* No holder comes, and none holds more.                                     *)
LEMMA OnceKept ==
    ASSUME Once, texts' = texts, Pieces(view'.text) = Pieces(view.text),
           \A x \in Sending' : x \in Sending /\ calls'[x] = calls[x],
           \A a \in Entered' : a \in Entered /\ asks'[a] = asks[a]
    PROVE  Once'
BY DEF Once, Apart, Messages

(* A message without pieces that were typed, or with those of a send.        *)
LEMMA OnceStored ==
    ASSUME Base, Once, NEW n, n \notin Messages, Messages' = Messages \cup {n},
           \A m \in Messages : texts'[m] = texts[m], UNCHANGED <<view, asks>>,
           \A x \in Sending' : x \in Sending /\ calls'[x] = calls[x],
           \/ Pieces(texts'[n]) = {}
           \/ \E x \in Sending : x \notin Sending' /\ texts'[n] = x.text
    PROVE  Once'
<1>1. Entered' = Entered
  BY DEF Entered, Asks
<1>2. CASE Pieces(texts'[n]) = {}
  BY <1>1, <1>2 DEF Once, Apart
<1>3. CASE \E x \in Sending : x \notin Sending' /\ texts'[n] = x.text
  <2>1. PICK x \in Sending : x \notin Sending' /\ texts'[n] = x.text
    BY <1>3
  <2>2. /\ \A m \in Messages : Apart(texts[m], x.text) /\ Apart(x.text, texts[m])
        /\ \A y \in Sending' : Apart(x.text, y.text)
        /\ \A a \in Entered : Apart(a.text, x.text)
        /\ Apart(x.text, view.text)
    BY <2>1 DEF Once, Apart
  <2>3. \A m \in Messages' : (m \in Messages /\ texts'[m] = texts[m]) \/ (m = n /\ texts'[m] = x.text)
    BY <2>1
  <2>4. (\A m, k \in Messages : m # k => Apart(texts[m], texts[k]))'
    BY <2>2, <2>3 DEF Once, Apart
  <2>5. \A y \in Sending' : /\ calls'[y] = 1 /\ Apart(y.text, view.text)
                            /\ \A z \in Sending' : y # z => Apart(y.text, z.text)
                            /\ \A m \in Messages' : Apart(texts'[m], y.text)
    BY <2>2, <2>3 DEF Once, Apart
  <2>6. \A m \in Messages' : Apart(texts'[m], view.text)
    BY <2>2, <2>3 DEF Once, Apart
  <2>7. \A a \in Entered :
          /\ asks[a] = 1
          /\ \A b \in Entered : a # b => Apart(a.text, b.text) /\ ~(a.here /\ b.here)
          /\ \A y \in Sending' : Apart(a.text, y.text)
          /\ \A m \in Messages' : Apart(texts'[m], a.text)
          /\ IF a.here THEN Pieces(a.text) \subseteq Pieces(view.text) ELSE Apart(a.text, view.text)
    BY <2>2, <2>3 DEF Once, Apart
  <2> QED
    BY <1>1, <2>4, <2>5, <2>6, <2>7 DEF Once, Apart
<1> QED
  BY <1>2, <1>3

(* A call that is given up goes on with its text.                            *)
LEMMA TimeoutOnce ==
    ASSUME Base, Once, NEW call \in Calls, Timeout(call)
    PROVE  Once'
<1>1. PICK y : /\ Calls' \subseteq Calls \cup {y} /\ Calls \ {call} \subseteq Calls'
               /\ y \in Calls'
               /\ \A z \in Calls \ {call, y} : calls'[z] = calls[z]
               /\ y \notin Calls => calls'[y] = 1
               /\ calls[call] = 1 => call \notin Calls'
               /\ y # call /\ y.kind = call.kind /\ y.conv = call.conv /\ y.text = call.text
  BY TimeoutEffect
<1>2. UNCHANGED <<texts, view, asks>> /\ Entered' = Entered /\ Messages' = Messages
  BY DEF Timeout, Fault, Entered, Asks, Messages
<1>3. Sending = {x \in Calls : x.kind = "send"} /\ Sending' = {x \in Calls' : x.kind = "send"}
  BY DEF Sending, Calls
<1>4. CASE call.kind # "send"
  <2>1. \A x \in Sending' : x \in Sending /\ calls'[x] = calls[x]
    BY <1>1, <1>3, <1>4
  <2> QED
    BY <1>2, <2>1, OnceKept
<1>5. CASE call.kind = "send"
  <2>1. call \in Sending /\ Pieces(call.text) # {} /\ call \notin Calls'
    BY <1>1, <1>3, <1>5, SendingText DEF Once
  <2>2. y \notin Sending
    BY <1>1, <2>1 DEF Once, Apart
  <2>3. y \in Sending' /\ calls'[y] = 1
    BY <1>1, <1>3, <1>5, <2>2
  <2>4. \A x \in Sending' : x = y \/ (x \in Sending /\ x # call /\ calls'[x] = 1)
    BY <1>1, <1>3, <2>1 DEF Once
  <2>5. /\ \A m \in Messages : Apart(texts[m], y.text)
        /\ \A x \in Sending : x # call => Apart(x.text, y.text) /\ Apart(y.text, x.text)
        /\ \A a \in Entered : Apart(a.text, y.text)
        /\ Apart(y.text, view.text)
    BY <1>1, <2>1 DEF Once, Apart
  <2>6. \A x \in Sending' :
          /\ calls'[x] = 1 /\ Apart(x.text, view.text)
          /\ \A z \in Sending' : x # z => Apart(x.text, z.text)
          /\ \A m \in Messages : Apart(texts[m], x.text)
    BY <2>3, <2>4, <2>5 DEF Once
  <2>7. \A a \in Entered : \A x \in Sending' : Apart(a.text, x.text)
    BY <2>4, <2>5 DEF Once
  <2> QED
    BY <1>2, <2>6, <2>7 DEF Once, Apart
<1> QED
  BY <1>4, <1>5

(* When the component goes, what is under way loses its mark, nothing else.  *)
LEMMA MarkedCall ==
    ASSUME NEW x, IsCall(x)
    PROVE  LET y == [x EXCEPT !.here = TRUE] IN y.kind = x.kind /\ y.text = x.text /\ y.here = TRUE
<1>1. PICK y : y = [x EXCEPT !.here = TRUE]
  OBVIOUS
<1>2. x \in [kind : {x.kind}, conv : {x.conv}, msg : {x.msg}, text : {x.text},
             here : BOOLEAN, step : {x.step}, waited : {x.waited}]
  BY DEF IsCall
<1>3. y \in [kind : {x.kind}, conv : {x.conv}, msg : {x.msg}, text : {x.text},
             here : {TRUE}, step : {x.step}, waited : {x.waited}]
  BY <1>1, <1>2
<1> QED
  BY <1>1, <1>3

(* The same of an answer awaited.                                            *)
LEMMA MarkedAsk ==
    ASSUME NEW x, IsAsk(x)
    PROVE  LET y == [x EXCEPT !.here = TRUE] IN y.why = x.why /\ y.text = x.text /\ y.here = TRUE
<1>1. PICK y : y = [x EXCEPT !.here = TRUE]
  OBVIOUS
<1>2. x \in [why : {x.why}, conv : {x.conv}, text : {x.text}, here : BOOLEAN]
  BY DEF IsAsk
<1>3. y \in [why : {x.why}, conv : {x.conv}, text : {x.text}, here : {TRUE}]
  BY <1>1, <1>2
<1> QED
  BY <1>1, <1>3

(* Without the mark there are as many of each as there were with it.         *)
LEMMA GoneCounts ==
    ASSUME Base, Once
    PROVE  /\ \A x \in Sending : Gone(calls)[Unmarked(x)] = 1
           /\ \A a \in Entered : Gone(asks)[Unmarked(a)] = 1
<1>1. ASSUME NEW x \in Sending
      PROVE  Gone(calls)[Unmarked(x)] = 1
  <2>1. x \in Calls /\ IsCall(x) /\ x.kind = "send" /\ Pieces(x.text) # {} /\ calls[x] = 1
    BY SendingText DEF Once
  <2>2. IsABag(calls) /\ \A y \in Calls : Markable(y)
    BY UnmarkedCall DEF Base, CallsOK
  <2>3. \A y \in Calls : y.kind = "send" /\ y.text = x.text => y = x
    BY <2>1 DEF Once, Apart, Sending, Calls
  <2>4. CASE x.here
    <3>1. /\ Unmarked(x).kind = x.kind /\ Unmarked(x).text = x.text /\ ~Unmarked(x).here
      BY <2>1, UnmarkedCall
    <3>2. Unmarked(x) \notin Calls
      BY <2>1, <2>3, <2>4, <3>1
    <3> QED
      BY <2>1, <2>2, <2>4, <3>2, GoneBag DEF Calls
  <2>5. CASE ~x.here
    <3>1. [x EXCEPT !.here = TRUE] \notin Calls
      BY <2>1, <2>3, <2>5, MarkedCall
    <3>2. Gone(calls)[x] = calls[x]
      BY <2>1, <2>2, <2>5, <3>1, GoneBag DEF Calls
    <3>3. Unmarked(x) = x
      BY <2>1, <2>2, <2>5 DEF Markable, Unmarked
    <3> QED
      BY <2>1, <3>2, <3>3
  <2> QED
    BY <2>4, <2>5
<1>2. ASSUME NEW x \in Entered
      PROVE  Gone(asks)[Unmarked(x)] = 1
  <2>1. x \in Asks /\ IsAsk(x) /\ x.why = "enter" /\ Pieces(x.text) # {} /\ asks[x] = 1
    BY EnteredText DEF Once
  <2>2. IsABag(asks) /\ \A y \in Asks : Markable(y)
    BY UnmarkedAsk DEF Base, AsksOK
  <2>3. \A y \in Asks : y.why = "enter" /\ y.text = x.text => y = x
    BY <2>1 DEF Once, Apart, Entered
  <2>4. CASE x.here
    <3>1. /\ Unmarked(x).why = x.why /\ Unmarked(x).text = x.text /\ ~Unmarked(x).here
      BY <2>1, UnmarkedAsk
    <3>2. Unmarked(x) \notin Asks
      BY <2>1, <2>3, <2>4, <3>1
    <3> QED
      BY <2>1, <2>2, <2>4, <3>2, GoneBag DEF Asks
  <2>5. CASE ~x.here
    <3>1. [x EXCEPT !.here = TRUE] \notin Asks
      BY <2>1, <2>3, <2>5, MarkedAsk
    <3>2. Gone(asks)[x] = asks[x]
      BY <2>1, <2>2, <2>5, <3>1, GoneBag DEF Asks
    <3>3. Unmarked(x) = x
      BY <2>1, <2>2, <2>5 DEF Markable, Unmarked
    <3> QED
      BY <2>1, <3>2, <3>3
  <2> QED
    BY <2>4, <2>5
<1> QED
  BY <1>1, <1>2

(* Who holds a text when a component goes held it before.                    *)
LEMMA ClosesHolders ==
    ASSUME Base, NEW d \in Convs \cup {Null}, NEW rest, IsABag(rest),
           \A x \in BagToSet(rest) : IsRead(x), Closes(d, rest)
    PROVE  /\ Sending' = {Unmarked(x) : x \in Sending} /\ Entered' = {Unmarked(a) : a \in Entered}
           /\ \A x \in Sending : Unmarked(x).text = x.text /\ Unmarked(x).conv = x.conv
           /\ \A a \in Entered : /\ Unmarked(a).text = a.text /\ Unmarked(a).conv = a.conv
                                 /\ ~Unmarked(a).here
           /\ UNCHANGED <<store, texts, typedIn>> /\ view'.text = <<>> /\ view'.conv = d
<1>1. /\ Calls' = {Unmarked(x) : x \in Calls} /\ Asks' = {Unmarked(a) : a \in Asks}
      /\ view' = [conv |-> d, shown |-> {}, text |-> <<>>]
  BY ClosesEffect
<1>2. \A x \in Calls : /\ Unmarked(x).kind = x.kind /\ Unmarked(x).text = x.text
                       /\ Unmarked(x).conv = x.conv
  BY UnmarkedCall DEF Base, CallsOK
<1>3. \A a \in Asks : /\ Unmarked(a).why = a.why /\ Unmarked(a).text = a.text
                      /\ Unmarked(a).conv = a.conv /\ ~Unmarked(a).here
  BY UnmarkedAsk DEF Base, AsksOK
<1>4. /\ Sending = {x \in Calls : x.kind = "send"} /\ Sending' = {x \in Calls' : x.kind = "send"}
      /\ Entered = {a \in Asks : a.why = "enter"} /\ Entered' = {a \in Asks' : a.why = "enter"}
  BY DEF Sending, Entered, Calls
<1>5. Sending' = {Unmarked(x) : x \in Sending}
  BY <1>1, <1>2, <1>4
<1>6. Entered' = {Unmarked(a) : a \in Entered}
  BY <1>1, <1>3, <1>4
<1>7. view'.text = <<>> /\ view'.conv = d
  BY <1>1
<1> QED
  BY <1>2, <1>3, <1>4, <1>5, <1>6, <1>7 DEF Closes

(* Closing a component keeps Once.                                           *)
LEMMA ClosesOnce ==
    ASSUME Base, Once, NEW d \in Convs \cup {Null}, NEW rest, IsABag(rest),
           \A x \in BagToSet(rest) : IsRead(x), Closes(d, rest)
    PROVE  Once'
<1>1. /\ Sending' = {Unmarked(x) : x \in Sending} /\ Entered' = {Unmarked(a) : a \in Entered}
      /\ \A x \in Sending : Unmarked(x).text = x.text
      /\ \A a \in Entered : Unmarked(a).text = a.text /\ ~Unmarked(a).here
      /\ texts' = texts /\ Messages' = Messages /\ view'.text = <<>>
  BY ClosesHolders DEF Messages
<1>2. /\ \A x \in Sending : calls'[Unmarked(x)] = 1
      /\ \A a \in Entered : asks'[Unmarked(a)] = 1
  BY GoneCounts DEF Closes
<1>3. \A t : Apart(t, view'.text)
  BY <1>1, EmptyText DEF Apart
<1>4. \A x \in Sending' :
        /\ calls'[x] = 1
        /\ \A y \in Sending' : x # y => Apart(x.text, y.text)
        /\ \A m \in Messages : Apart(texts[m], x.text)
  BY <1>1, <1>2 DEF Once
<1>5. \A a \in Entered' :
        /\ asks'[a] = 1 /\ ~a.here
        /\ \A b \in Entered' : a # b => Apart(a.text, b.text)
        /\ \A x \in Sending' : Apart(a.text, x.text)
        /\ \A m \in Messages : Apart(texts[m], a.text)
  BY <1>1, <1>2 DEF Once
<1>6. \A m, n \in Messages : m # n => Apart(texts[m], texts[n])
  BY DEF Once
<1> QED
  BY <1>1, <1>3, <1>4, <1>5, <1>6 DEF Once, Apart

(* Selecting a conversation keeps it.                                        *)
LEMMA OpenOnce ==
    ASSUME Base, Once, NEW c \in Convs, NEW pending, IsABag(pending),
           BagToSet(pending) \subseteq Reads, Open(c, pending),
           UNCHANGED <<store, texts, side, typedIn, events>>
    PROVE  Once'
<1>1. \A x \in BagToSet(pending) : IsRead(x)
  BY DEF Base, ReadsOK
<1>2. CASE UNCHANGED <<view, calls, asks, past>>
  BY <1>2, OnceKept DEF Sending, Entered, Asks
<1>3. CASE Closes(c, pending)
  BY <1>1, <1>3, ClosesOnce
<1> QED
  BY <1>2, <1>3, OpenCases

(* So does showing a list.                                                   *)
LEMMA ShowSidebarOnce ==
    ASSUME Base, Once, NEW x \in Reads, ShowSidebar(x)
    PROVE  Once'
<1>1. PICK rest :
         /\ IsABag(rest) /\ \A y \in BagToSet(rest) : IsRead(y)
         /\ \/ UNCHANGED <<view, calls, asks>>
            \/ Closes(view.conv, rest)
  BY ShowSidebarEffect
<1>2. view.conv \in Convs \cup {Null} /\ texts' = texts
  BY DEF Base, ViewOK, ShowSidebar
<1>3. CASE UNCHANGED <<view, calls, asks>>
  BY <1>2, <1>3, OnceKept DEF Sending, Entered, Asks
<1>4. CASE Closes(view.conv, rest)
  BY <1>1, <1>2, <1>4, ClosesOnce
<1> QED
  BY <1>1, <1>3, <1>4

(* The steps of a call: a send hands its text to one message.                *)
LEMMA CallOnce ==
    ASSUME Base, Once, NEW call \in Calls,
           Change(call) \/ FinishDelete(call) \/ Finish(call) \/ Break(call)
    PROVE  Once'
<1>1. UNCHANGED <<view, asks>> /\ Entered' = Entered
  BY DEF Change, FinishDelete, Finish, Break, Fault, Entered, Asks
<1>2. Sending = {x \in Calls : x.kind = "send"} /\ Sending' = {x \in Calls' : x.kind = "send"}
  BY DEF Sending, Calls
<1>3. CASE Change(call)
  <2>1. \A x \in Sending' : x \in Sending /\ calls'[x] = calls[x]
    <3>1. call.kind # "send" /\ \A y \in Calls \ {call} : calls'[y] = calls[y] \/ y.kind # "send"
      BY <1>3, ChangeEffect
    <3>2. CASE call.kind \notin {"delete", "create"}
      BY <1>2, <1>3, <3>1, <3>2, ChangeEffect
    <3>3. CASE call.kind \in {"delete", "create"}
      <4>1. PICK y : Calls' \subseteq Calls \cup {y} /\ y.kind = call.kind
        BY <1>3, <3>3, ChangeEffect
      <4> QED
        BY <1>2, <3>1, <4>1
    <3> QED
      BY <3>2, <3>3
  <2> QED
    BY <1>1, <1>3, <2>1, OnceKept DEF Change
<1>4. CASE FinishDelete(call)
  <2>1. /\ Calls' \subseteq Calls /\ call.kind = "delete"
        /\ \A y \in Calls \ {call} : calls'[y] = calls[y]
    BY <1>4, FinishDeleteEffect
  <2>2. \A x \in Sending' : x \in Sending /\ calls'[x] = calls[x]
    BY <1>2, <2>1
  <2> QED
    BY <1>1, <1>4, <2>2, OnceKept DEF FinishDelete
<1>5. CASE Break(call)
  <2>1. /\ Calls' \subseteq Calls /\ (calls[call] = 1 => call \notin Calls')
        /\ \A y \in Calls \ {call} : calls'[y] = calls[y]
    BY <1>5, BreakEffect
  <2>2. call \in Sending => calls[call] = 1
    BY DEF Once
  <2>3. \A x \in Sending' : x \in Sending /\ calls'[x] = calls[x]
    BY <1>2, <2>1, <2>2
  <2> QED
    BY <1>1, <1>5, <2>3, OnceKept DEF Break, Fault
<1>6. CASE Finish(call)
  <2>1. PICK n : n = Len(texts) + 1
    OBVIOUS
  <2>2. /\ Calls' \subseteq Calls /\ (calls[call] = 1 => call \notin Calls')
        /\ \A y \in Calls \ {call} : calls'[y] = calls[y]
        /\ n \notin Messages /\ Messages' = Messages \cup {n}
        /\ texts'[n] = call.text /\ \A m \in Messages : texts'[m] = texts[m]
    BY <1>6, <2>1, FinishEffect
  <2>3. call \in Sending => calls[call] = 1
    BY DEF Once
  <2>4. \A x \in Sending' : x \in Sending /\ calls'[x] = calls[x]
    BY <1>2, <2>2, <2>3
  <2>5. CASE call.kind = "send"
    <3>1. call \in Sending /\ call \notin Sending'
      BY <1>2, <2>2, <2>3, <2>5
    <3> QED
      BY <1>1, <2>2, <2>4, <3>1, OnceStored
  <2>6. CASE call.kind # "send"
    <3>1. Pieces(texts'[n]) = {}
      BY <2>2, <2>6, EmptyText DEF Base, CallsOK, IsCall
    <3> QED
      BY <1>1, <2>2, <2>4, <3>1, OnceStored
  <2> QED
    BY <2>5, <2>6
<1> QED
  BY <1>3, <1>4, <1>5, <1>6

(* A new piece has no holder but the text box.                               *)
LEMMA TypeOnce ==
    ASSUME Base, Once, NEW word \in BOOLEAN, Type(word)
    PROVE  Once'
<1>1. PICK n : n = Len(typedIn) + 1
  OBVIOUS
<1>2. /\ Pieces(view'.text) = Pieces(view.text) \cup {n} /\ n \notin DOMAIN typedIn
      /\ Asks \subseteq Asks' /\ \A ask \in Asks' \ Asks : ask.why = "word"
      /\ \A ask \in Entered : asks'[ask] = asks[ask]
  BY <1>1, TypeEffect
<1>3. UNCHANGED <<texts, calls>> /\ Sending' = Sending /\ Messages' = Messages
  BY DEF Type, Sending, Messages
<1>4. Entered' = Entered
  BY <1>2 DEF Entered
<1>5. \A text : IsText(text) => n \notin Pieces(text)
  BY <1>2, PiecesOf DEF IsText
<1>6. /\ \A m \in Messages : IsText(texts[m])
      /\ \A x \in Sending : IsText(x.text)
      /\ \A a \in Entered : IsText(a.text)
  BY SendingText, EnteredText DEF Base, StoreOK, IsCall, IsAsk
<1>7. \A text : IsText(text) /\ Apart(text, view.text) => Apart(text, view'.text)
  BY <1>2, <1>5 DEF Apart
<1>8. \A x \in Sending :
        /\ calls[x] = 1 /\ Apart(x.text, view'.text)
        /\ \A y \in Sending : x # y => Apart(x.text, y.text)
        /\ \A m \in Messages : Apart(texts[m], x.text)
  BY <1>6, <1>7 DEF Once
<1>9. \A m \in Messages : Apart(texts[m], view'.text)
  BY <1>6, <1>7 DEF Once
<1>10. \A a \in Entered :
         /\ asks'[a] = 1
         /\ \A b \in Entered : a # b => Apart(a.text, b.text) /\ ~(a.here /\ b.here)
         /\ \A x \in Sending : Apart(a.text, x.text)
         /\ \A m \in Messages : Apart(texts[m], a.text)
         /\ IF a.here THEN Pieces(a.text) \subseteq Pieces(view'.text) ELSE Apart(a.text, view'.text)
  BY <1>2, <1>6, <1>7 DEF Once
<1>11. \A m, k \in Messages : m # k => Apart(texts[m], texts[k])
  BY DEF Once
<1> QED
  BY <1>3, <1>4, <1>8, <1>9, <1>10, <1>11 DEF Once, Apart

(* Enter when no other waits takes what is in the box.                       *)
LEMMA EnterOnce ==
    ASSUME Base, Once, Enter, ~Awaited
    PROVE  Once'
<1>1. PICK y : /\ Asks' = Asks \cup {y}
               /\ \A z \in Asks \ {y} : asks'[z] = asks[z]
               /\ y \notin Asks => asks'[y] = 1
               /\ y.why = "enter" /\ y.text = view.text /\ y.here = TRUE
  BY EnterEffect
<1>2. \A a \in Entered : ~a.here
  BY DEF Awaited, Entered, Asks
<1>3. y \notin Asks
  BY <1>1, <1>2 DEF Entered
<1>4. Entered' = Entered \cup {y}
  BY <1>1 DEF Entered
<1>5. UNCHANGED <<texts, calls, view>> /\ Sending' = Sending /\ Messages' = Messages
  BY DEF Enter, Sending, Messages
<1>6. \A a \in Entered : asks'[a] = 1 /\ a # y /\ Apart(a.text, y.text) /\ Apart(y.text, a.text)
  BY <1>1, <1>2, <1>3 DEF Once, Apart, Entered
<1>7. \A a \in Entered' :
        /\ asks'[a] = 1
        /\ \A b \in Entered' : a # b => Apart(a.text, b.text) /\ ~(a.here /\ b.here)
        /\ \A x \in Sending : Apart(a.text, x.text)
        /\ \A m \in Messages : Apart(texts[m], a.text)
        /\ IF a.here THEN Pieces(a.text) \subseteq Pieces(view.text) ELSE Apart(a.text, view.text)
  <2> SUFFICES ASSUME NEW a \in Entered'
               PROVE  /\ asks'[a] = 1
                      /\ \A b \in Entered' : a # b => Apart(a.text, b.text) /\ ~(a.here /\ b.here)
                      /\ \A x \in Sending : Apart(a.text, x.text)
                      /\ \A m \in Messages : Apart(texts[m], a.text)
                      /\ IF a.here THEN Pieces(a.text) \subseteq Pieces(view.text)
                                   ELSE Apart(a.text, view.text)
    OBVIOUS
  <2>1. CASE a \in Entered
    BY <1>2, <1>4, <1>6, <2>1 DEF Once
  <2>2. CASE a = y
    BY <1>1, <1>2, <1>3, <1>4, <1>6, <2>2 DEF Once, Apart
  <2> QED
    BY <1>4, <2>1, <2>2
<1> QED
  BY <1>5, <1>7 DEF Once, Apart

(* A text that nobody else holds is submitted.                               *)
LEMMA SubmitOnce ==
    ASSUME Base, Once, NEW text, IsText(text), text # <<>>, NEW y,
           Calls' = Calls \cup {y}, \A z \in Calls \ {y} : calls'[z] = calls[z],
           y \notin Calls => calls'[y] = 1, y.kind = "send", y.text = text, texts' = texts,
           \A x \in Sending : Apart(x.text, text),
           \A m \in Messages : Apart(texts[m], text),
           Apart(text, view'.text), view'.text = <<>> \/ view'.text = view.text,
           \A a \in Entered' : /\ a \in Entered /\ asks'[a] = asks[a] /\ Apart(a.text, text)
                               /\ a.here => view' = view
    PROVE  Once'
<1>1. Pieces(text) # {}
  BY SomePiece
<1>2. y \notin Calls
  BY <1>1 DEF Sending, Calls, Apart
<1>3. Sending' = Sending \cup {y} /\ Messages' = Messages /\ y \notin Sending
  BY <1>2 DEF Sending, Calls, Messages
<1>4. \A s : Apart(s, view.text) => Apart(s, view'.text)
  BY EmptyText DEF Apart
<1>5. \A x \in Sending' :
        /\ calls'[x] = 1 /\ Apart(x.text, view'.text)
        /\ \A z \in Sending' : x # z => Apart(x.text, z.text)
        /\ \A m \in Messages : Apart(texts[m], x.text)
  <2>1. \A x \in Sending : calls'[x] = 1 /\ Apart(x.text, view'.text)
    BY <1>2, <1>4, SendingText DEF Once
  <2>2. \A x \in Sending : Apart(x.text, y.text) /\ Apart(y.text, x.text)
    BY DEF Apart
  <2> QED
    BY <1>2, <1>3, <2>1, <2>2 DEF Once
<1>6. \A m \in Messages : Apart(texts[m], view'.text)
  BY <1>4 DEF Once
<1>7. \A a \in Entered' :
        /\ asks'[a] = 1
        /\ \A b \in Entered' : a # b => Apart(a.text, b.text) /\ ~(a.here /\ b.here)
        /\ \A x \in Sending' : Apart(a.text, x.text)
        /\ \A m \in Messages : Apart(texts[m], a.text)
        /\ IF a.here THEN Pieces(a.text) \subseteq Pieces(view'.text) ELSE Apart(a.text, view'.text)
  BY <1>3, <1>4 DEF Once
<1>8. \A m, k \in Messages : m # k => Apart(texts[m], texts[k])
  BY DEF Once
<1> QED
  BY <1>3, <1>5, <1>6, <1>7, <1>8 DEF Once, Apart

(* The answer an Enter waited for: its text goes to a send.                  *)
LEMMA CorrectEnterOnce ==
    ASSUME Base, Once, NEW ask \in Asks, NEW found \in BOOLEAN, CorrectEnter(ask, found)
    PROVE  Once'
<1>1. ask \in Entered /\ asks[ask] = 1 /\ ask.here \in BOOLEAN
  BY DEF CorrectEnter, Once, Entered, Base, AsksOK, IsAsk
<1>2. /\ Asks' \subseteq Asks /\ ask \notin Asks'
      /\ \A z \in Asks \ {ask} : asks'[z] = asks[z]
  BY <1>1, AskTaken DEF CorrectEnter
<1>3. PICK text : /\ IsText(text) /\ text # <<>> /\ Pieces(text) = Pieces(ask.text)
                  /\ Submit(ask.conv, ask.here, text) /\ ask.conv \in Convs
                  /\ ask.here => Mounted /\ ask.conv = view.conv
  BY CorrectEnterSubmits
<1>4. PICK y : /\ Calls' = Calls \cup {y} /\ \A z \in Calls \ {y} : calls'[z] = calls[z]
               /\ y \notin Calls => calls'[y] = 1
               /\ y.kind = "send" /\ y.text = text
  BY <1>3, SubmitCall
<1>5. /\ texts' = texts
      /\ IF ask.here THEN view'.text = <<>> ELSE view' = view
  <2>1. view'.text = IF ask.here THEN <<>> ELSE view.text
    BY <1>1, <1>3, SubmitEffect
  <2> QED
    BY <1>3, <2>1 DEF Submit
<1>6. /\ \A x \in Sending : Apart(x.text, text)
      /\ \A m \in Messages : Apart(texts[m], text)
      /\ ~ask.here => Apart(text, view.text)
  BY <1>1, <1>3 DEF Once, Apart
<1>7. Apart(text, view'.text)
  BY <1>5, <1>6, EmptyText DEF Apart
<1>8. \A a \in Entered' : /\ a \in Entered /\ asks'[a] = asks[a] /\ Apart(a.text, text)
                          /\ a.here => view' = view
  <2>1. \A a \in Entered' : a \in Entered /\ a # ask /\ asks'[a] = asks[a]
    BY <1>2 DEF Entered
  <2> QED
    BY <1>1, <1>3, <1>5, <2>1 DEF Once, Apart
<1> QED
  BY <1>3, <1>4, <1>5, <1>6, <1>7, <1>8, SubmitOnce

(* A click on Send: the box's text goes to a send.                           *)
LEMMA ClickSendOnce ==
    ASSUME Base, Once, ClickSend, ~Awaited
    PROVE  Once'
<1>1. /\ IsText(view.text) /\ view.text # <<>> /\ view.conv \in Convs /\ Mounted
      /\ Submit(view.conv, TRUE, view.text) /\ asks' = asks /\ Entered' = Entered
  BY DEF Base, ViewOK, ClickSend, Mounted, Entered, Asks
<1>2. PICK here \in BOOLEAN : here = TRUE
  OBVIOUS
<1>3. PICK y : /\ Calls' = Calls \cup {y} /\ \A z \in Calls \ {y} : calls'[z] = calls[z]
               /\ y \notin Calls => calls'[y] = 1
               /\ y.kind = "send" /\ y.text = view.text
  <2>1. Submit(view.conv, here, view.text)
    BY <1>1, <1>2
  <2> QED
    BY <2>1, SubmitCall
<1>4. texts' = texts /\ view'.text = <<>>
  BY <1>1, <1>2, SubmitEffect DEF Submit
<1>5. \A a \in Entered : ~a.here
  BY DEF Awaited, Entered, Asks
<1>6. /\ \A x \in Sending : Apart(x.text, view.text)
      /\ \A m \in Messages : Apart(texts[m], view.text)
      /\ \A a \in Entered : Apart(a.text, view.text)
      /\ Apart(view.text, view'.text)
  BY <1>4, <1>5, EmptyText DEF Once, Apart
<1> QED
  BY <1>1, <1>3, <1>4, <1>5, <1>6, SubmitOnce

(* Every step keeps OnceOK.                                                  *)
LEMMA NextOnce ==
    ASSUME Base, OnceOK, [Next]_vars
    PROVE  OnceOK'
<1> SUFFICES ASSUME ~past'.twice
             PROVE  Once'
  BY DEF OnceOK
<1>0. past \in Pasts
  BY DEF Base, RecordsOK
<1>1. ASSUME texts' = texts, Pieces(view'.text) = Pieces(view.text), Once,
             \A x \in Sending' : x \in Sending /\ calls'[x] = calls[x],
             \A a \in Entered' : a \in Entered /\ asks'[a] = asks[a]
      PROVE  Once'
  BY <1>1, OnceKept
<1>2. ASSUME NEW x \in Reads, Read(x) \/ ShowHistory(x)
      PROVE  Once'
  <2>1. UNCHANGED <<texts, calls, asks>> /\ past'.twice = past.twice
    BY <1>0, <1>2 DEF Read, ShowHistory, Pasts
  <2>2. view'.text = view.text
    BY <1>2, ShowHistoryEffect DEF Read
  <2> QED
    BY <1>1, <2>1, <2>2 DEF OnceOK, Sending, Entered, Asks
<1>3. ASSUME NEW x \in Reads, ShowSidebar(x)
      PROVE  Once'
  <2>1. past'.twice = past.twice
    BY <1>0, <1>3 DEF ShowSidebar, Pasts
  <2> QED
    BY <1>3, <2>1, ShowSidebarOnce DEF OnceOK
<1>4. ASSUME NEW x \in Reads, OpenNew(x)
      PROVE  Once'
  <2>1. /\ IsABag(Without(loads, x)) /\ BagToSet(Without(loads, x)) \subseteq Reads /\ IsRead(x)
    BY ReadTaken
  <2>2. x.conv \in Convs
    BY <1>4, <2>1 DEF OpenNew, IsRead, Base, StoreOK
  <2>3. past'.twice = past.twice
    BY <1>0, <1>4 DEF OpenNew, Open, Leave, Pasts
  <2> QED
    BY <1>4, <2>1, <2>2, <2>3, OpenOnce DEF OpenNew, OnceOK
<1>5. ASSUME NEW c \in Convs, Select(c)
      PROVE  Once'
  <2>1. IsABag(loads) /\ BagToSet(loads) = Reads
    BY DEF Base, ReadsOK, Reads
  <2>2. past'.twice = past.twice
    BY <1>0, <1>5 DEF Select, Open, Leave, Pasts
  <2> QED
    BY <1>5, <2>1, <2>2, OpenOnce DEF Select, OnceOK
<1>6. ASSUME NEW call \in Calls,
             Change(call) \/ FinishDelete(call) \/ Finish(call) \/ Break(call) \/ Timeout(call)
      PROVE  Once'
  <2>1. past'.twice = past.twice
    BY <1>0, <1>6 DEF Change, FinishDelete, Finish, Break, Timeout, Pasts
  <2> QED
    BY <1>6, <2>1, CallOnce, TimeoutOnce DEF OnceOK
<1>7. ASSUME NEW kind \in {"delete", "new", "create", "pin", "unpin"}, NEW c \in Convs, NEW m,
             kind = "new" => c \in Chats, kind = "delete" => Mounted /\ c = view.conv,
             Start(kind, c, m)
      PROVE  Once'
  <2>1. PICK y : Calls' = Calls \cup {y} /\ y.kind = kind /\ \A z \in Calls \ {y} : calls'[z] = calls[z]
    BY <1>7, StartEffect
  <2>2. \A x \in Sending' : x \in Sending /\ calls'[x] = calls[x]
    BY <2>1 DEF Sending, Calls
  <2> QED
    BY <1>1, <1>7, <2>2 DEF Start, OnceOK, Entered, Asks
<1>8. ASSUME NEW c \in Convs, ReceiveMessage(c)
      PROVE  Once'
  <2>1. PICK n : n = Len(texts) + 1
    OBVIOUS
  <2>2. /\ n \notin Messages /\ Messages' = Messages \cup {n}
        /\ texts'[n] = <<>> /\ \A m \in Messages : texts'[m] = texts[m]
    BY <1>8, <2>1, ReceiveMessageEffect
  <2>3. UNCHANGED <<view, calls, asks, past>>
    BY <1>8 DEF ReceiveMessage
  <2> QED
    BY <2>2, <2>3, OnceStored, EmptyText DEF OnceOK, Sending
<1>9. ASSUME \/ \E c, m : ReceiveDelete(c, m)
             \/ \E c : ReceiveInvite(c)
             \/ Event \/ UNCHANGED vars
      PROVE  Once'
  <2>1. UNCHANGED <<texts, view, calls, asks, past>>
    BY <1>9 DEF ReceiveDelete, ReceiveInvite, Event, vars
  <2> QED
    BY <1>1, <2>1 DEF OnceOK, Sending, Entered, Asks
<1>10. ASSUME NEW word \in BOOLEAN, Type(word)
       PROVE  Once'
  <2>1. past'.twice = past.twice
    BY <1>0, <1>10 DEF Type, Pasts
  <2> QED
    BY <1>10, <2>1, TypeOnce DEF OnceOK
<1>11. ASSUME NEW ask \in Asks, CorrectWord(ask)
       PROVE  Once'
  <2>1. /\ UNCHANGED <<texts, calls, past>> /\ ask.why = "word"
        /\ Pieces(view'.text) = Pieces(view.text)
    BY <1>11, CorrectWordEffect DEF CorrectWord
  <2>2. Asks' \subseteq Asks /\ \A z \in Asks \ {ask} : asks'[z] = asks[z]
    BY <1>11, AskTaken DEF CorrectWord
  <2>3. \A a \in Entered' : a \in Entered /\ asks'[a] = asks[a]
    BY <2>1, <2>2 DEF Entered
  <2> QED
    BY <1>1, <2>1, <2>3 DEF OnceOK, Sending
<1>12. ASSUME NEW ask \in Asks, NEW found \in BOOLEAN, CorrectEnter(ask, found)
       PROVE  Once'
  BY <1>12, CorrectEnterOnce DEF CorrectEnter, OnceOK
<1>13. ASSUME Enter \/ ClickSend
       PROVE  Once'
  <2>1. ~past.twice /\ ~Awaited
    BY <1>0, <1>13 DEF Enter, ClickSend, Pasts
  <2> QED
    BY <1>13, <2>1, EnterOnce, ClickSendOnce DEF OnceOK
<1> QED
  BY <1>2, <1>3, <1>4, <1>5, <1>6, <1>7, <1>8, <1>9, <1>10, <1>11, <1>12, <1>13,
     NextCases DEF Receives

(* MessageInput.tsx:48-67: nothing is sent twice, unless Enter or Send is    *)
(* pressed again while the correction for an Enter is awaited.               *)
THEOREM TextIsSentOnce == Spec => []SentOnce
<1>1. Init => OnceOK
  <2> SUFFICES ASSUME Init
               PROVE  Once
    BY DEF OnceOK
  <2>1. Calls = {} /\ Asks = {} /\ Messages = {}
    BY DEF Init, Calls, Asks, BagToSet, EmptyBag, SetToBag, Messages
  <2> QED
    BY <2>1 DEF Once, Sending, Entered, Calls
<1>2. Base /\ OnceOK /\ [Next]_vars => OnceOK'
  BY NextOnce
<1>3. Base /\ OnceOK => SentOnce
  <2>1. Base => DOMAIN texts = Messages
    BY DEF Base, StoreOK, Messages
  <2> QED
    BY <2>1 DEF OnceOK, Once, Apart, SentOnce
<1> QED
  BY <1>1, <1>2, <1>3, BaseInvariant, PTL DEF Spec

-----------------------------------------------------------------------------

(* Every holder stays, or hands what it holds on.                            *)
LEMMA KeptKept ==
    ASSUME KeptOK, ~past.lost, typedIn' = typedIn,
           view'.conv = view.conv, Pieces(view'.text) = Pieces(view.text), Entered' = Entered,
           \A x \in Sending :
              \/ \E y \in Sending' : y.text = x.text /\ y.conv = x.conv
              \/ \E n \in Messages' : /\ texts'[n] = x.text
                                      /\ \A c \in Convs : n \in store'.msgs[c] => c = x.conv,
           \A m \in Messages :
              /\ m \in Messages' /\ texts'[m] = texts[m]
              /\ \A c \in Convs : m \in store'.msgs[c] => m \in store.msgs[c]
    PROVE  KeptOK'
<1>1. ASSUME NEW k \in DOMAIN typedIn
      PROVE  Held(k)'
  <2>1. CASE k \in Pieces(view.text) /\ view.conv = typedIn[k]
    BY <2>1 DEF Held
  <2>2. CASE \E a \in Entered : k \in Pieces(a.text) /\ a.conv = typedIn[k]
    BY <2>2 DEF Held
  <2>3. CASE \E x \in Sending : k \in Pieces(x.text) /\ x.conv = typedIn[k]
    <3>1. PICK x \in Sending : k \in Pieces(x.text) /\ x.conv = typedIn[k]
      BY <2>3
    <3>2. CASE \E y \in Sending' : y.text = x.text /\ y.conv = x.conv
      BY <3>1, <3>2 DEF Held
    <3>3. CASE \E n \in Messages' : /\ texts'[n] = x.text
                                    /\ \A c \in Convs : n \in store'.msgs[c] => c = x.conv
      BY <3>1, <3>3 DEF Held
    <3> QED
      BY <3>2, <3>3
  <2>4. CASE \E m \in Messages :
                /\ k \in Pieces(texts[m])
                /\ \A c \in Convs : m \in store.msgs[c] => c = typedIn[k]
    BY <2>4 DEF Held
  <2>5. Held(k)
    BY DEF KeptOK
  <2> QED
    BY <2>1, <2>2, <2>3, <2>4, <2>5 DEF Held
<1>2. \A a \in Entered' : a.here => Pieces(view'.text) \subseteq Pieces(a.text)
  BY DEF KeptOK
<1> QED
  BY <1>1, <1>2 DEF KeptOK

(* A component that goes with an empty box takes nothing with it.            *)
LEMMA ClosesKept ==
    ASSUME Base, KeptOK, ~past.lost, view.text = <<>>, NEW d \in Convs \cup {Null},
           NEW rest, IsABag(rest), \A x \in BagToSet(rest) : IsRead(x), Closes(d, rest)
    PROVE  KeptOK'
<1>1. /\ Sending' = {Unmarked(x) : x \in Sending} /\ Entered' = {Unmarked(a) : a \in Entered}
      /\ \A x \in Sending : Unmarked(x).text = x.text /\ Unmarked(x).conv = x.conv
      /\ \A a \in Entered : /\ Unmarked(a).text = a.text /\ Unmarked(a).conv = a.conv
                            /\ ~Unmarked(a).here
      /\ UNCHANGED <<store, texts, typedIn>> /\ Messages' = Messages
  BY ClosesHolders DEF Messages
<1>2. ASSUME NEW k \in DOMAIN typedIn
      PROVE  Held(k)'
  <2>1. \/ \E a \in Entered : k \in Pieces(a.text) /\ a.conv = typedIn[k]
        \/ \E x \in Sending : k \in Pieces(x.text) /\ x.conv = typedIn[k]
        \/ \E m \in Messages :
              /\ k \in Pieces(texts[m])
              /\ \A c \in Convs : m \in store.msgs[c] => c = typedIn[k]
    BY EmptyText DEF KeptOK, Held
  <2>2. ASSUME NEW a \in Entered, k \in Pieces(a.text), a.conv = typedIn[k]
        PROVE  Held(k)'
    <3>1. PICK b \in Entered' : b.text = a.text /\ b.conv = a.conv
      BY <1>1
    <3> QED
      BY <1>1, <2>2, <3>1 DEF Held
  <2>3. ASSUME NEW x \in Sending, k \in Pieces(x.text), x.conv = typedIn[k]
        PROVE  Held(k)'
    <3>1. PICK y \in Sending' : y.text = x.text /\ y.conv = x.conv
      BY <1>1
    <3> QED
      BY <1>1, <2>3, <3>1 DEF Held
  <2>4. ASSUME NEW m \in Messages, k \in Pieces(texts[m]),
               \A c \in Convs : m \in store.msgs[c] => c = typedIn[k]
        PROVE  Held(k)'
    BY <1>1, <2>4 DEF Held
  <2> QED
    BY <2>1, <2>2, <2>3, <2>4
<1> QED
  BY <1>1, <1>2 DEF KeptOK

(* Selecting a conversation keeps every holder if the box was empty.         *)
LEMMA OpenKept ==
    ASSUME Base, KeptOK, ~past'.lost, NEW c \in Convs, NEW pending, IsABag(pending),
           BagToSet(pending) \subseteq Reads, Open(c, pending),
           UNCHANGED <<store, texts, side, typedIn, events>>
    PROVE  KeptOK'
<1>1. \A x \in BagToSet(pending) : IsRead(x)
  BY DEF Base, ReadsOK
<1>2. CASE UNCHANGED <<view, calls, asks, past>>
  BY <1>2, KeptKept DEF Sending, Entered, Asks, Messages
<1>3. CASE /\ Closes(c, pending)
           /\ past' = [past EXCEPT !.chat = @ \/ Waits,
                                   !.lost = @ \/ (Mounted /\ view.text # <<>>)]
  <2>1. ~past.lost /\ view.text = <<>>
    BY <1>3 DEF Base, RecordsOK, Pasts, ViewOK
  <2> QED
    BY <1>1, <1>3, <2>1, ClosesKept
<1> QED
  BY <1>2, <1>3, OpenCases

(* So does showing a list.                                                   *)
LEMMA ShowSidebarKept ==
    ASSUME Base, KeptOK, ~past'.lost, NEW x \in Reads, ShowSidebar(x)
    PROVE  KeptOK'
<1>1. PICK rest :
         /\ IsABag(rest) /\ \A y \in BagToSet(rest) : IsRead(y)
         /\ \/ UNCHANGED <<view, calls, asks>>
            \/ ~(Mounted <=> view.conv \in x.list.known) /\ Closes(view.conv, rest)
  BY ShowSidebarEffect
<1>2. ~past.lost /\ ~(Mounted /\ view.conv \notin x.list.known /\ view.text # <<>>)
  BY DEF Base, RecordsOK, Pasts, ShowSidebar
<1>3. /\ view.conv \in Convs \cup {Null} /\ (view.text # <<>> => Mounted)
      /\ UNCHANGED <<store, texts, typedIn>>
  BY DEF Base, ViewOK, ShowSidebar
<1>4. CASE UNCHANGED <<view, calls, asks>>
  BY <1>2, <1>3, <1>4, KeptKept DEF Sending, Entered, Asks, Messages
<1>5. CASE ~(Mounted <=> view.conv \in x.list.known) /\ Closes(view.conv, rest)
  <2>1. view.text = <<>>
    BY <1>2, <1>3, <1>5
  <2> QED
    BY <1>1, <1>2, <1>3, <1>5, <2>1, ClosesKept
<1> QED
  BY <1>1, <1>4, <1>5

(* A send that goes through hands its text to a message, one that is given   *)
(* up goes on, and one that fails has lost its text.                         *)
LEMMA CallKept ==
    ASSUME Base, KeptOK, ~past'.lost, NEW call \in Calls,
           Change(call) \/ FinishDelete(call) \/ Finish(call) \/ Break(call) \/ Timeout(call)
    PROVE  KeptOK'
<1>0. past \in Pasts /\ IsCall(call) /\ store.msgs \in [Convs -> SUBSET Messages]
  BY DEF Base, RecordsOK, CallsOK, StoreOK
<1>1. ~past.lost
  BY <1>0 DEF Pasts, Change, FinishDelete, Finish, Break, Timeout
<1>2. UNCHANGED <<view, asks, typedIn>> /\ Entered' = Entered
  BY DEF Change, FinishDelete, Finish, Break, Timeout, Fault, Entered, Asks
<1>3. Sending = {x \in Calls : x.kind = "send"} /\ Sending' = {x \in Calls' : x.kind = "send"}
  BY DEF Sending, Calls
<1>4. CASE Change(call)
  <2>1. Calls \ {call} \subseteq Calls' /\ call.kind # "send" /\ texts' = texts
    BY <1>4, ChangeEffect DEF Change
  <2>2. \A c \in Convs : store'.msgs[c] \subseteq store.msgs[c]
    BY <1>0, <1>4, <2>1, ChangedStore DEF Change
  <2>3. \A x \in Sending : x \in Sending'
    BY <1>3, <2>1
  <2> QED
    BY <1>1, <1>2, <2>1, <2>2, <2>3, KeptKept DEF Messages
<1>5. CASE FinishDelete(call)
  <2>1. Calls \ {call} \subseteq Calls' /\ call.kind = "delete" /\ UNCHANGED <<store, texts>>
    BY <1>5, FinishDeleteEffect DEF FinishDelete
  <2>2. \A x \in Sending : x \in Sending'
    BY <1>3, <2>1
  <2> QED
    BY <1>1, <1>2, <2>1, <2>2, KeptKept DEF Messages
<1>6. CASE Break(call)
  <2>1. Calls \ {call} \subseteq Calls' /\ call.kind # "send" /\ UNCHANGED <<store, texts>>
    BY <1>0, <1>6, BreakEffect DEF Break, Fault, Pasts
  <2>2. \A x \in Sending : x \in Sending'
    BY <1>3, <2>1
  <2> QED
    BY <1>1, <1>2, <2>1, <2>2, KeptKept DEF Messages
<1>7. CASE Timeout(call)
  <2>1. PICK y : /\ Calls \ {call} \subseteq Calls' /\ y \in Calls'
                 /\ y.kind = call.kind /\ y.conv = call.conv /\ y.text = call.text
    BY <1>7, TimeoutEffect
  <2>2. UNCHANGED <<store, texts>>
    BY <1>7 DEF Timeout, Fault
  <2>3. \A x \in Sending : \E z \in Sending' : z.text = x.text /\ z.conv = x.conv
    BY <1>3, <2>1
  <2> QED
    BY <1>1, <1>2, <2>2, <2>3, KeptKept DEF Messages
<1>8. CASE Finish(call)
  <2>1. PICK n : n = Len(texts) + 1
    OBVIOUS
  <2>2. /\ Calls \ {call} \subseteq Calls'
        /\ n \notin Messages /\ Messages' = Messages \cup {n}
        /\ texts'[n] = call.text /\ \A m \in Messages : texts'[m] = texts[m]
        /\ \A d \in Convs : store'.msgs[d] =
              IF d = call.conv THEN store.msgs[d] \cup {n} ELSE store.msgs[d]
    BY <1>8, <2>1, FinishEffect
  <2>3. \A c \in Convs : n \in store'.msgs[c] => c = call.conv
    BY <1>0, <2>2
  <2>4. \A x \in Sending :
           \/ x \in Sending'
           \/ n \in Messages' /\ texts'[n] = x.text /\ \A c \in Convs : n \in store'.msgs[c] => c = x.conv
    BY <1>3, <2>2, <2>3
  <2>5. \A m \in Messages :
           /\ m \in Messages' /\ texts'[m] = texts[m]
           /\ \A c \in Convs : m \in store'.msgs[c] => m \in store.msgs[c]
    BY <2>2
  <2> QED
    BY <1>1, <1>2, <2>4, <2>5, KeptKept
<1> QED
  BY <1>4, <1>5, <1>6, <1>7, <1>8

(* What is typed while no Enter waits is in the box.                         *)
LEMMA TypeKept ==
    ASSUME Base, KeptOK, ~past.lost, ~Awaited, NEW word \in BOOLEAN, Type(word)
    PROVE  KeptOK'
<1>1. PICK n : n = Len(typedIn) + 1
  OBVIOUS
<1>2. /\ Pieces(view'.text) = Pieces(view.text) \cup {n} /\ view'.conv = view.conv
      /\ DOMAIN typedIn' = DOMAIN typedIn \cup {n} /\ typedIn'[n] = view.conv
      /\ \A k \in DOMAIN typedIn : typedIn'[k] = typedIn[k]
      /\ Asks \subseteq Asks' /\ \A ask \in Asks' \ Asks : ask.why = "word"
  BY <1>1, TypeEffect
<1>3. /\ UNCHANGED <<store, texts, calls>> /\ Sending' = Sending /\ Messages' = Messages
      /\ Entered' = Entered
  BY <1>2 DEF Type, Sending, Messages, Entered
<1>4. \A a \in Entered : ~a.here
  BY DEF Awaited, Entered, Asks
<1>5. \A k \in DOMAIN typedIn : Held(k)
  BY DEF KeptOK
<1>6. \A k \in DOMAIN typedIn : Held(k)'
  BY <1>2, <1>3, <1>5 DEF Held
<1>7. Held(n)'
  BY <1>2 DEF Held
<1>8. (\A k \in DOMAIN typedIn : Held(k))'
  BY <1>2, <1>6, <1>7
<1> QED
  BY <1>3, <1>4, <1>8 DEF KeptOK

(* Enter: the box goes on holding what waits for the correction.             *)
LEMMA EnterKept ==
    ASSUME Base, KeptOK, ~past.lost, Enter
    PROVE  KeptOK'
<1>1. PICK y : Asks' = Asks \cup {y} /\ y.why = "enter" /\ y.text = view.text
  BY EnterEffect
<1>2. Entered' = Entered \cup {y}
  BY <1>1 DEF Entered
<1>3. UNCHANGED <<store, texts, calls, view, typedIn>> /\ Sending' = Sending /\ Messages' = Messages
  BY DEF Enter, Sending, Messages
<1>4. \A k \in DOMAIN typedIn : Held(k)
  BY DEF KeptOK
<1>5. \A k \in DOMAIN typedIn : Held(k)'
  BY <1>2, <1>3, <1>4 DEF Held
<1>6. \A a \in Entered' : a.here => Pieces(view.text) \subseteq Pieces(a.text)
  BY <1>1, <1>2 DEF KeptOK
<1> QED
  BY <1>3, <1>5, <1>6 DEF KeptOK

(* A text is handed to a send with all that the box held if that is emptied. *)
LEMMA SubmitKept ==
    ASSUME Base, KeptOK, ~past.lost, NEW text, NEW y,
           Calls' = Calls \cup {y}, y.kind = "send", Pieces(y.text) = Pieces(text),
           UNCHANGED <<store, texts, typedIn>>, view'.conv = view.conv,
           \/ view'.text = view.text
           \/ view'.text = <<>> /\ Pieces(view.text) \subseteq Pieces(text) /\ y.conv = view.conv,
           Entered' \subseteq Entered,
           \A a \in Entered \ Entered' : Pieces(a.text) \subseteq Pieces(text) /\ a.conv = y.conv
    PROVE  KeptOK'
<1>1. Sending' = Sending \cup {y} /\ Messages' = Messages
  BY DEF Sending, Calls, Messages
<1>2. ASSUME NEW k \in DOMAIN typedIn
      PROVE  Held(k)'
  <2>0. \A z \in Sending' : k \in Pieces(z.text) /\ z.conv = typedIn[k] => Held(k)'
    BY DEF Held
  <2>1. CASE k \in Pieces(view.text) /\ view.conv = typedIn[k]
    <3>1. CASE view'.text = view.text
      BY <2>1, <3>1 DEF Held
    <3>2. CASE Pieces(view.text) \subseteq Pieces(text) /\ y.conv = view.conv
      BY <1>1, <2>0, <2>1, <3>2
    <3> QED
      BY <3>1, <3>2
  <2>2. ASSUME NEW a \in Entered, k \in Pieces(a.text), a.conv = typedIn[k]
        PROVE  Held(k)'
    <3>1. CASE a \in Entered'
      BY <2>2, <3>1 DEF Held
    <3>2. CASE a \notin Entered'
      BY <1>1, <2>0, <2>2, <3>2
    <3> QED
      BY <3>1, <3>2
  <2>3. ASSUME NEW x \in Sending, k \in Pieces(x.text), x.conv = typedIn[k]
        PROVE  Held(k)'
    BY <1>1, <2>0, <2>3
  <2>4. ASSUME NEW m \in Messages, k \in Pieces(texts[m]),
               \A c \in Convs : m \in store.msgs[c] => c = typedIn[k]
        PROVE  Held(k)'
    BY <1>1, <2>4 DEF Held
  <2>5. Held(k)
    BY DEF KeptOK
  <2> QED
    BY <2>1, <2>2, <2>3, <2>4, <2>5 DEF Held
<1>3. \A a \in Entered' : a.here => Pieces(view'.text) \subseteq Pieces(a.text)
  BY EmptyText DEF KeptOK
<1> QED
  BY <1>2, <1>3 DEF KeptOK

(* The answer an Enter waited for: the send holds its text.                  *)
LEMMA CorrectEnterKept ==
    ASSUME Base, KeptOK, ~past.lost, NEW ask \in Asks, NEW found \in BOOLEAN,
           CorrectEnter(ask, found)
    PROVE  KeptOK'
<1>1. ask \in Entered /\ ask.here \in BOOLEAN
  BY DEF CorrectEnter, Entered, Base, AsksOK, IsAsk
<1>2. Asks' \subseteq Asks /\ Asks \ {ask} \subseteq Asks'
  BY AskTaken DEF CorrectEnter
<1>3. PICK text : /\ IsText(text) /\ text # <<>> /\ Pieces(text) = Pieces(ask.text)
                  /\ Submit(ask.conv, ask.here, text) /\ ask.conv \in Convs
                  /\ ask.here => Mounted /\ ask.conv = view.conv
  BY CorrectEnterSubmits
<1>4. PICK y : Calls' = Calls \cup {y} /\ y.kind = "send" /\ y.conv = ask.conv /\ y.text = text
  BY <1>3, SubmitCall
<1>5. view'.conv = view.conv /\ view'.text = IF ask.here THEN <<>> ELSE view.text
  BY <1>1, <1>3, SubmitEffect
<1>6. ask.here => Pieces(view.text) \subseteq Pieces(ask.text)
  BY <1>1 DEF KeptOK
<1>7. Entered' \subseteq Entered /\ \A a \in Entered \ Entered' : a = ask
  BY <1>2 DEF Entered
<1>8. \/ view'.text = view.text
      \/ view'.text = <<>> /\ Pieces(view.text) \subseteq Pieces(text) /\ y.conv = view.conv
  BY <1>3, <1>4, <1>5, <1>6
<1>9. UNCHANGED <<store, texts, typedIn>>
  BY <1>3 DEF Submit
<1> QED
  BY <1>3, <1>4, <1>5, <1>7, <1>8, <1>9, SubmitKept

(* A click on Send: the send holds what the box held.                        *)
LEMMA ClickSendKept ==
    ASSUME Base, KeptOK, ~past.lost, ClickSend
    PROVE  KeptOK'
<1>1. /\ IsText(view.text) /\ view.text # <<>> /\ view.conv \in Convs /\ Mounted
      /\ Submit(view.conv, TRUE, view.text) /\ Entered' = Entered
      /\ UNCHANGED <<store, texts, typedIn>>
  BY DEF Base, ViewOK, ClickSend, Submit, Mounted, Entered, Asks
<1>2. PICK here \in BOOLEAN : here = TRUE
  OBVIOUS
<1>3. Submit(view.conv, here, view.text)
  BY <1>1, <1>2
<1>4. PICK y : Calls' = Calls \cup {y} /\ y.kind = "send" /\ y.conv = view.conv /\ y.text = view.text
  BY <1>3, SubmitCall
<1>5. view'.conv = view.conv /\ view'.text = <<>>
  BY <1>1, <1>2, <1>3, SubmitEffect
<1>6. PICK text : text = view.text
  OBVIOUS
<1> QED
  BY <1>1, <1>4, <1>5, <1>6, SubmitKept

(* Every step keeps KeptOK.                                                  *)
LEMMA NextKept ==
    ASSUME Base, KeptOK, [Next]_vars
    PROVE  KeptOK'
<1> SUFFICES ASSUME ~past'.lost
             PROVE  KeptOK'
  BY DEF KeptOK
<1>0. past \in Pasts
  BY DEF Base, RecordsOK
<1>1. ASSUME ~past.lost, typedIn' = typedIn, view'.conv = view.conv,
             Pieces(view'.text) = Pieces(view.text), Entered' = Entered,
             Sending \subseteq Sending',
             \A m \in Messages :
                /\ m \in Messages' /\ texts'[m] = texts[m]
                /\ \A c \in Convs : m \in store'.msgs[c] => m \in store.msgs[c]
      PROVE  KeptOK'
  BY <1>1, KeptKept
<1>2. ASSUME NEW x \in Reads, Read(x) \/ ShowHistory(x)
      PROVE  KeptOK'
  <2>1. UNCHANGED <<store, texts, calls, asks, typedIn>> /\ past'.lost = past.lost
    BY <1>0, <1>2 DEF Read, ShowHistory, Pasts
  <2>2. view'.text = view.text /\ view'.conv = view.conv
    BY <1>2, ShowHistoryEffect DEF Read
  <2> QED
    BY <1>1, <2>1, <2>2 DEF Sending, Entered, Asks, Messages
<1>3. ASSUME NEW x \in Reads, OpenNew(x)
      PROVE  KeptOK'
  <2>1. /\ IsABag(Without(loads, x)) /\ BagToSet(Without(loads, x)) \subseteq Reads /\ IsRead(x)
    BY ReadTaken
  <2>2. x.conv \in Convs
    BY <1>3, <2>1 DEF OpenNew, IsRead, Base, StoreOK
  <2> QED
    BY <1>3, <2>1, <2>2, OpenKept DEF OpenNew
<1>4. ASSUME NEW c \in Convs, Select(c)
      PROVE  KeptOK'
  <2>1. IsABag(loads) /\ BagToSet(loads) = Reads
    BY DEF Base, ReadsOK, Reads
  <2> QED
    BY <1>4, <2>1, OpenKept DEF Select
<1>5. ASSUME NEW kind \in {"delete", "new", "create", "pin", "unpin"}, NEW c \in Convs, NEW m,
             kind = "new" => c \in Chats, kind = "delete" => Mounted /\ c = view.conv,
             Start(kind, c, m)
      PROVE  KeptOK'
  <2>1. Calls \subseteq Calls'
    <3>1. IsABag(calls) /\ calls' = With(calls, CallOf(kind, c, m, <<>>))
      BY <1>5 DEF Start, Base, CallsOK
    <3> QED
      BY <3>1, WithBag DEF Calls
  <2>2. Sending \subseteq Sending'
    BY <2>1 DEF Sending, Calls
  <2> QED
    BY <1>1, <1>5, <2>2 DEF Start, Entered, Asks, Messages
<1>6. ASSUME NEW c \in Convs, ReceiveMessage(c)
      PROVE  KeptOK'
  <2>1. PICK n : n = Len(texts) + 1
    OBVIOUS
  <2>2. /\ n \notin Messages /\ Messages' = Messages \cup {n}
        /\ \A m \in Messages : texts'[m] = texts[m]
        /\ \A d \in Convs :
              store'.msgs[d] = IF d = c THEN store.msgs[d] \cup {n} ELSE store.msgs[d]
    BY <1>6, <2>1, ReceiveMessageEffect
  <2>3. UNCHANGED <<view, calls, asks, past, typedIn>>
    BY <1>6 DEF ReceiveMessage
  <2> QED
    BY <1>1, <2>2, <2>3 DEF Sending, Entered, Asks
<1>7. ASSUME NEW c \in Convs, NEW m, ReceiveDelete(c, m)
      PROVE  KeptOK'
  <2>1. \A d \in Convs : store'.msgs[d] \subseteq store.msgs[d]
    BY <1>7, ReceiveDeleteEffect
  <2>2. UNCHANGED <<texts, view, calls, asks, past, typedIn>>
    BY <1>7 DEF ReceiveDelete
  <2> QED
    BY <1>1, <2>1, <2>2 DEF Sending, Entered, Asks, Messages
<1>8. ASSUME Event \/ UNCHANGED vars \/ \E c \in Convs : ReceiveInvite(c)
      PROVE  KeptOK'
  <2>1. store'.msgs = store.msgs /\ UNCHANGED <<texts, view, calls, asks, past, typedIn>>
    BY <1>8, ReceiveInviteEffect DEF Event, ReceiveInvite, vars
  <2> QED
    BY <1>1, <2>1 DEF Sending, Entered, Asks, Messages
<1>9. ASSUME NEW word \in BOOLEAN, Type(word)
      PROVE  KeptOK'
  <2>1. ~past.lost /\ ~Awaited
    BY <1>0, <1>9 DEF Type, Pasts
  <2> QED
    BY <1>9, <2>1, TypeKept
<1>10. ASSUME NEW ask \in Asks, CorrectWord(ask)
       PROVE  KeptOK'
  <2>1. /\ UNCHANGED <<store, texts, calls, past, typedIn>> /\ ask.why = "word"
        /\ Pieces(view'.text) = Pieces(view.text) /\ view'.conv = view.conv
    BY <1>10, CorrectWordEffect DEF CorrectWord
  <2>2. Asks' \subseteq Asks /\ Asks \ {ask} \subseteq Asks'
    BY <1>10, AskTaken DEF CorrectWord
  <2>3. Entered' = Entered
    BY <2>1, <2>2 DEF Entered
  <2> QED
    BY <1>1, <2>1, <2>3 DEF Sending, Messages
<1>11. ASSUME NEW ask \in Asks, NEW found \in BOOLEAN, CorrectEnter(ask, found)
       PROVE  KeptOK'
  BY <1>11, CorrectEnterKept DEF CorrectEnter
<1>12. ASSUME Enter \/ ClickSend
       PROVE  KeptOK'
  <2>1. ~past.lost
    BY <1>0, <1>12 DEF Enter, ClickSend, Pasts
  <2> QED
    BY <1>12, <2>1, EnterKept, ClickSendKept
<1> QED
  BY <1>2, <1>3, <1>4, <1>5, <1>6, <1>7, <1>8, <1>9, <1>10, <1>11, <1>12, CallKept,
     ShowSidebarKept, NextCases DEF Receives

(* MessageInput.tsx:55-86, ChatView.tsx:60-64: what was typed is in the box  *)
(* of its conversation, about to be sent to it or stored in it, unless it    *)
(* was typed while the correction for an Enter was awaited, its conversation *)
(* was left, or its call failed.                                             *)
THEOREM TypedTextIsKept == Spec => []NothingTypedIsLost
<1>1. Init => KeptOK
  <2> SUFFICES ASSUME Init
               PROVE  KeptOK
    OBVIOUS
  <2>1. Asks = {} /\ DOMAIN typedIn = {}
    BY DEF Init, Asks, BagToSet, EmptyBag, SetToBag
  <2> QED
    BY <2>1 DEF KeptOK, Entered
<1>2. Base /\ KeptOK /\ [Next]_vars => KeptOK'
  BY NextKept
<1>3. Base /\ KeptOK => NothingTypedIsLost
  <2>1. Base => DOMAIN texts = Messages
    BY DEF Base, StoreOK, Messages
  <2> QED
    BY <2>1 DEF KeptOK, Held, Entered, Asks, NothingTypedIsLost
<1> QED
  BY <1>1, <1>2, <1>3, BaseInvariant, PTL DEF Spec
=============================================================================
