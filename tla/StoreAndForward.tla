-------------------------- MODULE StoreAndForward --------------------------
(***************************************************************************)
(* What the relay promises about messages, without saying how: an accepted *)
(* message stays in the mailbox, in the order of acceptance; it is shown   *)
(* only on connections of its recipient; a connection is not shown a       *)
(* message while an older one for the same recipient is neither shown      *)
(* there nor settled; and a message is settled only once it was shown on   *)
(* some connection.  Showing a message again, on the same connection or    *)
(* another, is allowed until it is settled: delivery is at least once.     *)
(***************************************************************************)
EXTENDS Naturals, Sequences

CONSTANTS Users, Conns, None

VARIABLES accepted,  (* recipients of the accepted messages, oldest first *)
          owner,     (* conn -> the user it belongs to, or None           *)
          shown,     (* conn -> messages shown on it                      *)
          settled    (* messages that need not be shown any more          *)

vars == <<accepted, owner, shown, settled>>

Init ==
    /\ accepted = <<>>
    /\ owner = [c \in Conns |-> None]
    /\ shown = [c \in Conns |-> {}]
    /\ settled = {}

Accept(u) ==
    /\ accepted' = Append(accepted, u)
    /\ UNCHANGED <<owner, shown, settled>>

Own(c, u) ==
    /\ owner[c] = None
    /\ owner' = [owner EXCEPT ![c] = u]
    /\ UNCHANGED <<accepted, shown, settled>>

(* Everything older for the same recipient was shown here or is settled.     *)
Due(c, i) ==
    \A j \in 1..(i - 1) :
        accepted[j] = accepted[i] => j \in shown[c] \cup settled

Show(c, i) ==
    /\ owner[c] = accepted[i]
    /\ Due(c, i)
    /\ shown' = [shown EXCEPT ![c] = @ \cup {i}]
    /\ UNCHANGED <<accepted, owner, settled>>

Settle(S) ==
    /\ \A i \in S : \E c \in Conns : i \in shown[c]
    /\ settled' = settled \cup S
    /\ UNCHANGED <<accepted, owner, shown>>

Next ==
    \/ \E u \in Users : Accept(u)
    \/ \E c \in Conns, u \in Users : Own(c, u)
    \/ \E c \in Conns, i \in DOMAIN accepted : Show(c, i)
    \/ \E S \in SUBSET DOMAIN accepted : Settle(S)

Spec == Init /\ [][Next]_vars
=============================================================================
