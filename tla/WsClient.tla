------------------------------- MODULE WsClient -------------------------------
(***************************************************************************)
(* The WebSocket client of one tab (frontend/src/api/ws.ts), driven by     *)
(* login, logout and restoreSession (store/authStore.ts), and the endpoint *)
(* that answers it (backend app/websocket/router.py).                      *)
(*                                                                         *)
(* connect suspends once, at its request for a ticket: a step is the code  *)
(* before that await, the code after it, or one event handler of a socket. *)
(***************************************************************************)
EXTENDS Naturals, FiniteSets

CONSTANTS
    Account,     \* the users who log in in this tab
    Peer,        \* other users of the backend instance
    Socket,      \* WebSocket objects; one is used again once nobody knows it
    Call,        \* calls of connect, used again once they returned
    None,
    MaxDeeds     \* bound: logins, failed requests, lost connections, reloads,
                 \* moves of peers and publications in one behaviour

ASSUME ClientAssumption ==
    /\ Account \cap Peer = {}
    /\ None \notin Account \cup Peer \cup Socket
    /\ MaxDeeds \in Nat

VARIABLES
    session,     \* whose tokens the tab holds: the user, or None
    ws,          \* this.ws
    phase,       \* readyState of each socket, and whether its wire is cut
    owner,       \* the user the ticket of each socket was minted for
    timer,       \* reconnectTimer is set
    should,      \* shouldReconnect
    call,        \* where each call of connect is suspended
    asker,       \* whose access token the request of a call carries
    stage,       \* how far the endpoint of each socket has come
    conns,       \* _connections: user -> registered sockets
    online,      \* the keys of _connections
    roster,      \* _channel_users of the one channel everybody is a member of
    overlapped,  \* history: connect went on beside another connect or socket
    strayed,     \* history: a connect was under way when its user logged out
    swapped,     \* history: another user logged in over the session, beside a
                 \* socket of the user before or a request for one
    deeds        \* history: what happened so far that need not happen

client   == <<session, ws, phase, owner, timer, should, call, asker>>
registry == <<stage, conns, online, roster>>
history  == <<overlapped, strayed, swapped, deeds>>
clientVars == <<client, registry, history>>

\* "open": the handshake is over, onmessage may fire; "cut": the same, but the
\* connection is dead and the browser has not noticed.
Phase == {"connecting", "open", "cut", "closing", "closed"}

\* "loading": login still loads the user and the keys; "asked": waiting for the
\* ticket.
CallStage == {"none", "loading", "asked"}

\* "registered": in _connections, the channels are being subscribed;
\* "receiving": in the receive loop; "sweeping": disconnect removed the user's
\* last socket and waits for Redis before it sweeps the channels.
\* "gone": it has returned, and nothing of the socket is left.
EndpointStage == {"none", "registered", "receiving", "sweeping", "gone"}

TypeOK ==
    /\ session \in Account \cup {None}
    /\ ws \in Socket \cup {None}
    /\ phase \in [Socket -> Phase]
    /\ owner \in [Socket -> Account \cup {None}]
    /\ timer \in BOOLEAN
    /\ should \in BOOLEAN
    /\ call \in [Call -> CallStage]
    /\ asker \in [Call -> Account \cup {None}]
    /\ stage \in [Socket -> EndpointStage]
    /\ conns \in [Account -> SUBSET Socket]
    /\ online \in SUBSET Account
    /\ roster \in SUBSET (Account \cup Peer)
    /\ overlapped \in BOOLEAN
    /\ strayed \in BOOLEAN
    /\ swapped \in BOOLEAN
    /\ deeds \in Nat

Init ==
    /\ session = None
    /\ ws = None
    /\ phase = [s \in Socket |-> "closed"]
    /\ owner = [s \in Socket |-> None]
    /\ timer = FALSE
    /\ should = FALSE
    /\ call = [k \in Call |-> "none"]
    /\ asker = [k \in Call |-> None]
    /\ stage = [s \in Socket |-> "gone"]
    /\ conns = [u \in Account |-> {}]
    /\ online = {}
    /\ roster = Peer
    /\ overlapped = FALSE
    /\ strayed = FALSE
    /\ swapped = FALSE
    /\ deeds = 0

Live == {s \in Socket : phase[s] \in {"connecting", "open", "cut"}}
Deaf == {s \in Socket : phase[s] \in {"cut", "closing", "closed"}}
Busy == {k \in Call : call[k] # "none"}

\* readyState is OPEN
Connected == ws # None /\ phase[ws] \in {"open", "cut"}

Deed == /\ deeds < MaxDeeds
        /\ deeds' = deeds + 1

-----------------------------------------------------------------------------
(***************************************************************************)
(* connect                                                                 *)
(***************************************************************************)

\* Call k asks for a ticket beside a socket or another call that does.
Beside(k, calls) == Live # {} \/ \E j \in Call \ {k} : calls[j] = "asked"

\* Mutant: connect asks for a ticket though the socket is open.
ConnectAlways(k, calls) ==
    /\ call' = [calls EXCEPT ![k] = "asked"]
    /\ asker' = [asker EXCEPT ![k] = session]
    /\ overlapped' = (overlapped \/ (~Connected /\ Beside(k, calls)))

\* The code up to the await, as call k; the calls are otherwise as in calls.
Connect(k, calls) ==
    \/ /\ Connected
       /\ call' = [calls EXCEPT ![k] = "none"]
       /\ UNCHANGED <<asker, overlapped>>
    \/ /\ ~Connected
       /\ call' = [calls EXCEPT ![k] = "asked"]
       /\ asker' = [asker EXCEPT ![k] = session]
       /\ overlapped' = (overlapped \/ Beside(k, calls))

\* The ticket arrived: a new socket replaces this.ws, whatever it was, and
\* reconnecting is switched on, whatever happened meanwhile.  A socket is new
\* when both sides have forgotten it.
Answer(k, s) ==
    /\ call[k] = "asked"
    /\ asker[k] # None
    /\ phase[s] = "closed"
    /\ stage[s] \in {"none", "gone"}
    /\ \A u \in Account : s \notin conns[u]
    /\ call' = [call EXCEPT ![k] = "none"]
    /\ ws' = s
    /\ phase' = [phase EXCEPT ![s] = "connecting"]
    /\ owner' = [owner EXCEPT ![s] = asker[k]]
    /\ stage' = [stage EXCEPT ![s] = "none"]
    /\ should' = TRUE
    /\ asker' = [asker EXCEPT ![k] = None]
    /\ UNCHANGED <<session, timer, conns, online, roster, history>>

\* The request failed: reconnect later, even after disconnect.  One that
\* carries no token always fails.
Refuse(k) ==
    /\ call[k] = "asked"
    /\ IF asker[k] = None THEN UNCHANGED deeds ELSE Deed
    /\ call' = [call EXCEPT ![k] = "none"]
    /\ timer' = TRUE
    /\ asker' = [asker EXCEPT ![k] = None]
    /\ UNCHANGED <<session, ws, phase, owner, should, registry,
                   overlapped, strayed, swapped>>

\* Mutant: the timer connects only a tab that has no socket yet.
TimerOnce(k) ==
    /\ timer
    /\ k \notin Busy
    /\ timer' = FALSE
    /\ \/ ws = None /\ Connect(k, call)
       \/ ws # None /\ UNCHANGED <<call, asker, overlapped>>
    /\ UNCHANGED <<session, ws, phase, owner, should, registry, strayed,
                   swapped, deeds>>

Timer(k) ==
    /\ timer
    /\ k \notin Busy
    /\ timer' = FALSE
    /\ Connect(k, call)
    /\ UNCHANGED <<session, ws, phase, owner, should, registry, strayed,
                   swapped, deeds>>

-----------------------------------------------------------------------------
(***************************************************************************)
(* The session                                                             *)
(***************************************************************************)

\* login and register store the tokens over whatever tokens there are, for the
\* pages are open to a user who is logged in; loadUser and bootstrapDeviceKeys
\* come before connect.
Login(u, k) ==
    /\ Deed
    /\ k \notin Busy
    /\ session' = u
    /\ call' = [call EXCEPT ![k] = "loading"]
    /\ swapped' = \/ swapped
                  \/ /\ session \notin {None, u}
                     /\ Live # {} \/ \E j \in Call : call[j] = "asked"
    /\ UNCHANGED <<ws, phase, owner, timer, should, asker, registry,
                   overlapped, strayed>>

\* ... and then login connects, whoever is logged in by now.
LoginConnects(k) ==
    /\ call[k] = "loading"
    /\ Connect(k, call)
    /\ UNCHANGED <<session, ws, phase, owner, timer, should, registry,
                   strayed, swapped, deeds>>

\* A close begun by the client: the socket s of it, if any, starts to close.
CloseBegun(s) ==
    [r \in Socket |-> IF r = s /\ r \in Live THEN "closing" ELSE phase[r]]

\* Mutant: disconnect closes the socket but leaves the timer running.
LogoutTimer ==
    /\ session # None
    /\ session' = None
    /\ should' = FALSE
    /\ phase' = CloseBegun(ws)
    /\ ws' = None
    /\ strayed' = (strayed \/ Busy # {})
    /\ swapped' = FALSE
    /\ UNCHANGED <<owner, timer, call, asker, registry, overlapped, deeds>>

\* logout drops the tokens and calls disconnect.
Logout ==
    /\ session # None
    /\ session' = None
    /\ should' = FALSE
    /\ timer' = FALSE
    /\ phase' = CloseBegun(ws)
    /\ ws' = None
    /\ strayed' = (strayed \/ Busy # {})
    /\ swapped' = FALSE
    /\ UNCHANGED <<owner, call, asker, registry, overlapped, deeds>>

\* The page is loaded again: nothing of the client is left but the tokens, and
\* restoreSession connects.
Reload(k) ==
    /\ session # None
    /\ Deed
    /\ ws' = None
    /\ phase' = [s \in Socket |-> "closed"]
    /\ timer' = FALSE
    /\ should' = FALSE
    /\ call' = [j \in Call |-> IF j = k THEN "asked" ELSE "none"]
    /\ asker' = [j \in Call |-> IF j = k THEN session ELSE None]
    /\ swapped' = FALSE
    /\ UNCHANGED <<session, owner, registry, overlapped, strayed>>

-----------------------------------------------------------------------------
(***************************************************************************)
(* Events of the sockets                                                   *)
(***************************************************************************)

\* The endpoint has accepted the socket.
Opened(s) ==
    /\ phase[s] = "connecting"
    /\ stage[s] \in {"registered", "receiving"}
    /\ phase' = [phase EXCEPT ![s] = "open"]
    /\ UNCHANGED <<session, ws, owner, timer, should, call, asker, registry,
                   history>>

Cut(s) ==
    /\ phase[s] = "open"
    /\ Deed
    /\ phase' = [phase EXCEPT ![s] = "cut"]
    /\ UNCHANGED <<session, ws, owner, timer, should, call, asker, registry,
                   overlapped, strayed, swapped>>

\* onclose of socket s
Closed(s, phases) ==
    /\ phase' = [phases EXCEPT ![s] = "closed"]
    /\ timer' = (timer \/ should)

\* The close the client began is over.
CloseEnds(s) ==
    /\ phase[s] = "closing"
    /\ Closed(s, phase)
    /\ UNCHANGED <<session, ws, owner, should, call, asker, registry, history>>

\* A connection that failed: onerror closes this.ws, which may be another
\* socket by now, and then comes onclose of the one that failed.
Broken(s) ==
    /\ Closed(s, CloseBegun(ws))
    /\ UNCHANGED <<session, ws, owner, should, call, asker, registry,
                   overlapped, strayed, swapped>>

Noticed(s) ==
    /\ phase[s] = "cut"
    /\ Broken(s)
    /\ UNCHANGED deeds

\* The ticket has expired, or the server cannot be reached.
Rejected(s) ==
    /\ phase[s] = "connecting"
    /\ Deed
    /\ Broken(s)

-----------------------------------------------------------------------------
(***************************************************************************)
(* The endpoint                                                            *)
(***************************************************************************)

\* manager.connect, up to the channels the user is a member of
Register(s) ==
    LET u == owner[s]
    IN /\ phase[s] \in {"connecting", "closing"}
       /\ stage[s] = "none"
       /\ stage' = [stage EXCEPT ![s] = "registered"]
       /\ conns' = [conns EXCEPT ![u] = @ \cup {s}]
       /\ online' = online \cup {u}
       /\ UNCHANGED <<client, roster, history>>

\* Mutant: the socket is stored where the user's id belongs.
SubscribeSocket(s) ==
    /\ stage[s] = "registered"
    /\ stage' = [stage EXCEPT ![s] = "receiving"]
    /\ roster' = roster \cup {s}
    /\ UNCHANGED <<client, conns, online, history>>

\* subscribe_to_channel
Subscribe(s) ==
    /\ stage[s] = "registered"
    /\ stage' = [stage EXCEPT ![s] = "receiving"]
    /\ roster' = roster \cup {owner[s]}
    /\ UNCHANGED <<client, conns, online, history>>

\* disconnect up to its first await; with other sockets left, or with the entry
\* gone already, it is over.
Unregister(s) ==
    LET u == owner[s]
        last == u \in online /\ conns[u] \subseteq {s}
    IN /\ stage[s] = "receiving"
       /\ phase[s] \in {"cut", "closing", "closed"}
       /\ conns' = [conns EXCEPT ![u] = @ \ {s}]
       /\ online' = IF last THEN online \ {u} ELSE online
       /\ stage' = [stage EXCEPT ![s] = IF last THEN "sweeping" ELSE "gone"]
       /\ UNCHANGED <<client, roster, history>>

\* The rest of it, though the user may be back by now.
Sweep(s) ==
    /\ stage[s] = "sweeping"
    /\ stage' = [stage EXCEPT ![s] = "gone"]
    /\ roster' = roster \ {owner[s]}
    /\ UNCHANGED <<client, conns, online, history>>

\* send_to_user discards the sockets it could not send to; the entry stays.
Forget(u, dead) ==
    /\ conns' = [conns EXCEPT ![u] = @ \ dead]
    /\ UNCHANGED <<client, stage, online, roster, history>>

\* Another user of this instance starts or stops taking part in the channel.
PeerMoves(p) ==
    /\ Deed
    /\ roster' = IF p \in roster THEN roster \ {p} ELSE roster \cup {p}
    /\ UNCHANGED <<client, stage, conns, online, overlapped, strayed, swapped>>

\* Something is published: the client and the registry stay what they are.
Published ==
    /\ Deed
    /\ UNCHANGED <<client, registry, overlapped, strayed, swapped>>

-----------------------------------------------------------------------------
Progress ==
    \/ \E k \in Call :
          \/ \E s \in Socket : Answer(k, s)
          \/ Refuse(k)
          \/ Timer(k)
          \/ LoginConnects(k)
    \/ \E s \in Socket :
          \/ Opened(s)
          \/ CloseEnds(s)
          \/ Noticed(s)
          \/ Rejected(s)
          \/ Register(s)
          \/ Subscribe(s)
          \/ Unregister(s)
          \/ Sweep(s)

Next ==
    \/ Progress
    \/ \E u \in Account, k \in Call : Login(u, k)
    \/ Logout
    \/ \E k \in Call : Reload(k)
    \/ \E s \in Socket : Cut(s)
    \/ \E u \in Account, dead \in SUBSET Deaf : Forget(u, dead)
    \/ \E p \in Peer : PeerMoves(p)
    \/ Published

Spec == Init /\ [][Next]_clientVars

-----------------------------------------------------------------------------
(***************************************************************************)
(* A tab has at most one live socket, so that an event is handled once,    *)
(* unless connect was called beside another call or a socket that was      *)
(* still connecting: connect only returns when this.ws is OPEN, and sets   *)
(* this.ws after its await without looking at it again.                    *)
(***************************************************************************)
OneLiveSocket == Cardinality(Live) > 1 => overlapped

(***************************************************************************)
(* After a logout nothing of the connection is left, neither a live socket *)
(* nor the timer nor a call, and the next user never goes on with the      *)
(* socket of the one before, unless a connect was under way at a logout or *)
(* the tab had a second socket, for disconnect stops neither, or the next  *)
(* user logged in without a logout, for login does not disconnect.         *)
(***************************************************************************)
QuietAfterLogout ==
    strayed \/ overlapped \/
       /\ session = None => ~timer /\ Busy = {} /\ Live = {}
       /\ swapped \/ \A s \in Live : owner[s] = session
==============================================================================
