---------------------------- MODULE FederatedRelay ----------------------------
(***************************************************************************)
(* What the relay of messages between federated servers promises: a        *)
(* message posted at its home server is offered to another server at most  *)
(* once, while the request that posts it is open; the offer ends with one  *)
(* stored copy or with none, and what is lost is not offered again.        *)
(***************************************************************************)
EXTENDS Naturals

CONSTANTS Server, Message

VARIABLES
    request,   \* per message: "new", "open", "kept" or "undone"
    offer,     \* per server and message: "none", "sent", "stored" or "lost"
    copies     \* per server and message: the rows stored for it

vars == <<request, offer, copies>>

Init ==
    /\ request = [m \in Message |-> "new"]
    /\ offer = [s \in Server |-> [m \in Message |-> "none"]]
    /\ copies = [s \in Server |-> [m \in Message |-> 0]]

Open(m) ==
    /\ request[m] = "new"
    /\ request' = [request EXCEPT ![m] = "open"]
    /\ UNCHANGED <<offer, copies>>

Offer(s, m) ==
    /\ request[m] = "open"
    /\ offer[s][m] = "none"
    /\ offer' = [offer EXCEPT ![s][m] = "sent"]
    /\ UNCHANGED <<request, copies>>

Store(s, m) ==
    /\ offer[s][m] = "sent"
    /\ offer' = [offer EXCEPT ![s][m] = "stored"]
    /\ copies' = [copies EXCEPT ![s][m] = 1]
    /\ UNCHANGED request

Lose(s, m) ==
    /\ offer[s][m] = "sent"
    /\ offer' = [offer EXCEPT ![s][m] = "lost"]
    /\ UNCHANGED <<request, copies>>

\* The home server commits the message, in its own table s ...
Keep(s, m) ==
    /\ request[m] = "open"
    /\ offer[s][m] = "none"
    /\ request' = [request EXCEPT ![m] = "kept"]
    /\ copies' = [copies EXCEPT ![s][m] = 1]
    /\ UNCHANGED offer

\* ... or rolls it back, whatever other servers have made of it.
Undo(m) ==
    /\ request[m] = "open"
    /\ request' = [request EXCEPT ![m] = "undone"]
    /\ UNCHANGED <<offer, copies>>

Next ==
    \E m \in Message :
        \/ Open(m)
        \/ Undo(m)
        \/ \E s \in Server : Offer(s, m) \/ Store(s, m) \/ Lose(s, m) \/ Keep(s, m)

Spec == Init /\ [][Next]_vars
=============================================================================
