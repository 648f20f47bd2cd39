------------------------------- MODULE Delivery -------------------------------
(***************************************************************************)
(* The listener of a backend instance forwards what Redis publishes to the *)
(* sockets of its users (_listen and send_to_user of ConnectionManager,    *)
(* app/websocket/manager.py), composed with WsClient.                      *)
(*                                                                         *)
(* Both functions await inside a for loop over a set that connects and     *)
(* disconnects change meanwhile.  Python refuses to continue with a set of *)
(* another size (RuntimeError); with a set of the same size whose members  *)
(* changed it goes on, but may skip a member or meet one a second time.    *)
(***************************************************************************)
EXTENDS WsClient, Sequences, SequencesExt

CONSTANTS
    Room,   \* the topic "channel:<id>"; account u stands for "user:<u>"
    Event   \* published events under way at once

ASSUME DeliveryAssumption ==
    /\ Room \notin Account
    /\ None \notin Event
    /\ IsFiniteSet(Account \cup Peer)
    /\ IsFiniteSet(Socket)

VARIABLES
    line,    \* published events the listener has not taken yet
    topic,   \* the topic each event was published on
    steady,  \* history: the sockets that are served since its publication
    loop     \* the loops of the listener

vars == <<clientVars, line, topic, steady, loop>>

Topic == {Room} \cup Account

\* What became of a set since a loop over it began: "shuffled" if it changed,
\* "gone" if its entry was dropped, so that the loop holds an emptied set.
Drift == {"same", "shuffled", "gone"}

Idle == [event |-> None, seen |-> {}, size |-> 0, drift |-> "same",
         at |-> None, cseen |-> {}, csize |-> 0, cdrift |-> "same",
         dead |-> {}, got |-> [s \in Socket |-> 0], swayed |-> FALSE]

\* event is forwarded; of the roster, which had size members, the users seen
\* were visited; user at is being visited, and of his csize sockets those in
\* cseen were sent to, of which dead failed.  Histories: got counts what each
\* socket received; swayed: a set drifted under one of its loops.
Loop == [event : Event \cup {None},
         seen : SUBSET (Account \cup Peer), size : Nat, drift : Drift,
         at : Account \cup Peer \cup {None},
         cseen : SUBSET Socket, csize : Nat, cdrift : Drift,
         dead : SUBSET Socket, got : [Socket -> Nat], swayed : BOOLEAN]

DeliveryTypeOK ==
    /\ TypeOK
    /\ line \in Seq(Event)
    /\ topic \in [Event -> Topic]
    /\ steady \in [Event -> SUBSET Socket]
    /\ loop \in Loop

DeliveryInit ==
    /\ Init
    /\ line = <<>>
    /\ topic = [e \in Event |-> Room]
    /\ steady = [e \in Event |-> {}]
    /\ loop = Idle

-----------------------------------------------------------------------------
(***************************************************************************)
(* What a step of anybody else does to the loops and the histories.        *)
(***************************************************************************)

\* Sockets that are open, registered and whose user is in the roster.
Served ==
    {s \in Socket : /\ phase[s] = "open"
                    /\ s \in conns[owner[s]]
                    /\ owner[s] \in roster}

StillSteady == [e \in Event |-> steady[e] \cap Served']

\* The loop l after a step that left the sets as they are now.  A socket made
\* again is another one than the one that failed.
Drifted(l) ==
    LET users == l.event # None /\ roster' # roster
        own   == l.at \in Account /\ conns'[l.at] # conns[l.at]
    IN [l EXCEPT
          !.drift  = IF ~users THEN @
                     ELSE IF @ = "gone" \/ roster' = {} THEN "gone" ELSE "shuffled",
          !.seen   = IF users THEN {} ELSE @,
          !.cdrift = IF ~own THEN @
                     ELSE IF @ = "gone" \/ l.at \notin online' THEN "gone"
                     ELSE "shuffled",
          !.cseen  = IF own THEN {} ELSE @,
          !.dead   = {s \in @ : stage'[s] # "none"},
          !.swayed = @ \/ users \/ own]

Aside ==
    /\ loop' = Drifted(loop)
    /\ UNCHANGED <<line, topic>>
    /\ steady' = StillSteady

-----------------------------------------------------------------------------
(***************************************************************************)
(* _listen and send_to_user                                                *)
(***************************************************************************)

\* The loops after send_json to socket s of the user at hand: it arrives, or it
\* raises, which is remembered, or a dying connection swallows it.
Send(l, s) ==
    IF s \in Deaf
    THEN {[l EXCEPT !.cseen = @ \cup {s}],
          [l EXCEPT !.cseen = @ \cup {s}, !.dead = @ \cup {s}]}
    ELSE {[l EXCEPT !.cseen = @ \cup {s}, !.got[s] = @ + 1]}

\* next are the loops after the visit of user v began; sockets is _connections.
Visit(l, v, sockets, next) ==
    LET there == [l EXCEPT !.at = v, !.seen = @ \cup {v}, !.dead = {},
                           !.cseen = {}, !.cdrift = "same",
                           !.csize = IF v \in Peer THEN 0 ELSE Cardinality(sockets[v])]
    IN \/ v \in Peer /\ next = there
       \/ v \notin Peer /\ \E s \in sockets[v] : next \in Send(there, s)

\* The loop over the roster is over: the event went to one user only, or the
\* set may not be iterated any more.
Over(l) == \/ topic[l.event] # Room
           \/ l.drift = "gone"
           \/ Cardinality(roster) # l.size

\* Users still to be visited; one without sockets is passed without suspending.
Todo(l, sockets) == {v \in roster \ l.seen : v \in Peer \/ sockets[v] # {}}

\* The loop over the roster goes on; one that was shuffled may miss users.
NextUser(l, sockets, next) ==
    \/ /\ Over(l) \/ Todo(l, sockets) = {} \/ l.drift = "shuffled"
       /\ next = Idle
    \/ /\ ~Over(l)
       /\ \E v \in Todo(l, sockets) : Visit(l, v, sockets, next)

\* A message is forwarded: the listener takes the first of the line.
Take ==
    LET e == Head(line)
        l == [Idle EXCEPT !.event = e, !.size = Cardinality(roster)]
        u == topic[e]
    IN /\ loop = Idle
       /\ line # <<>>
       /\ line' = Tail(line)
       /\ \/ u = Room /\ NextUser(l, conns, loop')
          \/ u # Room /\ conns[u] = {} /\ loop' = Idle
          \/ u # Room /\ conns[u] # {} /\ Visit(l, u, conns, loop')
       /\ UNCHANGED <<clientVars, topic>>
       /\ steady' = StillSteady

MayIterate == loop.cdrift # "gone" /\ Cardinality(conns[loop.at]) = loop.csize

\* The set of the user's sockets may not be iterated any more: the exception
\* ends both loops, and whoever comes later in them goes without the event.
Abort ==
    /\ loop.at \in Account
    /\ ~MayIterate
    /\ loop' = Idle
    /\ UNCHANGED <<clientVars, line, topic>>
    /\ steady' = StillSteady

\* Mutant: an exception of send_json is not caught, and ends both loops.
SendNextUncaught(s) ==
    /\ loop.at \in Account
    /\ MayIterate
    /\ s \in conns[loop.at] \ loop.cseen
    /\ loop' \in IF loop.dead # {} THEN {Idle} ELSE Send(loop, s)
    /\ UNCHANGED <<clientVars, line, topic>>
    /\ steady' = StillSteady

\* The next socket of the user.
SendNext(s) ==
    /\ loop.at \in Account
    /\ MayIterate
    /\ s \in conns[loop.at] \ loop.cseen
    /\ loop' \in Send(loop, s)
    /\ UNCHANGED <<clientVars, line, topic>>
    /\ steady' = StillSteady

\* The user's last socket: the dead ones are discarded, and the next user comes.
EndUser ==
    /\ loop.at \in Account
    /\ MayIterate
    /\ conns[loop.at] \subseteq loop.cseen \/ loop.cdrift = "shuffled"
    /\ Forget(loop.at, loop.dead)
    /\ NextUser(loop, conns', loop')
    /\ UNCHANGED <<line, topic>>
    /\ steady' = StillSteady

EndPeer ==
    /\ loop.at \in Peer
    /\ NextUser(loop, conns, loop')
    /\ UNCHANGED <<clientVars, line, topic>>
    /\ steady' = StillSteady

\* Somebody publishes on a topic this instance is subscribed to.
Publish(e, t) ==
    /\ e \notin ToSet(line) \cup {loop.event}
    /\ IF t = Room THEN roster # {} ELSE t \in online
    /\ Published
    /\ line' = Append(line, e)
    /\ topic' = [topic EXCEPT ![e] = t]
    /\ UNCHANGED loop
    /\ steady' = [StillSteady EXCEPT ![e] = {s \in Served : t \in {Room, owner[s]}}]

-----------------------------------------------------------------------------
Listen ==
    \/ Take
    \/ Abort
    \/ \E s \in Socket : SendNext(s)
    \/ EndUser
    \/ EndPeer

DeliveryNext ==
    \/ Progress /\ Aside
    \/ (\E u \in Account, k \in Call : Login(u, k)) /\ Aside
    \/ Logout /\ Aside
    \/ (\E k \in Call : Reload(k)) /\ Aside
    \/ (\E s \in Socket : Cut(s)) /\ Aside
    \/ (\E p \in Peer : PeerMoves(p)) /\ Aside
    \/ Listen
    \/ \E e \in Event, t \in Topic : Publish(e, t)

\* Requests are answered, timers fire, sockets report what became of them, and
\* the endpoint goes on; users, peers, faults and publishers need never act.
DeliverySpec == DeliveryInit /\ [][DeliveryNext]_vars

FairSpec ==
    /\ DeliverySpec
    /\ \A k \in Call :
          /\ WF_vars((\E s \in Socket : Answer(k, s)) /\ Aside)
          /\ WF_vars(Refuse(k) /\ Aside)
          /\ WF_vars(Timer(k) /\ Aside)
          /\ WF_vars(LoginConnects(k) /\ Aside)
    /\ \A s \in Socket :
          /\ WF_vars(Opened(s) /\ Aside)
          /\ WF_vars(CloseEnds(s) /\ Aside)
          /\ WF_vars(Noticed(s) /\ Aside)
          /\ WF_vars(Register(s) /\ Aside)
          /\ WF_vars(Subscribe(s) /\ Aside)
          /\ WF_vars(Unregister(s) /\ Aside)
          /\ WF_vars(Sweep(s) /\ Aside)

-----------------------------------------------------------------------------
(***************************************************************************)
(* When the listener is through with an event, every socket that was open, *)
(* registered and its user's in the roster ever since the publication has  *)
(* got it exactly once, unless one of the sets was changed under its loop. *)
(***************************************************************************)
DeliveredOnce ==
    [][loop.event # None /\ loop'.event # loop.event =>
          \A s \in steady[loop.event] : loop.got[s] = 1 \/ loop.swayed]_vars

(***************************************************************************)
(* A tab whose user stays logged in ends up with an open and registered    *)
(* socket of that user, whatever requests and connections failed before,   *)
(* unless he logged in over the session of another user, whose socket the  *)
(* tab then keeps for as long as it lives.                                 *)
(***************************************************************************)
Online(u) == \E s \in Socket : phase[s] = "open" /\ s \in conns[u]

Inherited == swapped /\ \E s \in Live : owner[s] # session

Reconnects ==
    \A u \in Account :
       <>[](session = u) => <>[](strayed \/ Inherited \/ Online(u))
==============================================================================
