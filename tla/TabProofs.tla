------------------------------ MODULE TabProofs ------------------------------
(***************************************************************************)
(* Proofs about what a tab has: its WebSocket client and the listener's    *)
(* loops that serve it (Delivery), for any users, sockets, calls of        *)
(* connect, events and bounds; and the list of messages it shows of a      *)
(* channel (ChatTimeline), for any number of messages, loads, changes and  *)
(* faults, and any size of a page.                                         *)
(*                                                                         *)
(* The client's properties are proved of WsClient's own Spec.  Delivery    *)
(* implements it: what the listener does to the registry is a Forget.      *)
(***************************************************************************)
EXTENDS Delivery, ChatTimeline, SequenceTheorems, FiniteSetTheorems, TLAPS

Asked == {k \in Call : call[k] = "asked"}

\* Unless connect went on beside another connect or socket, a tab has one
\* socket or one request for a ticket, and nothing else that could become one.
OneLine ==
    ~overlapped =>
        /\ \A s, t \in Live : s = t
        /\ \A j, k \in Asked : j = k
        /\ Asked # {} => Live = {}

\* A socket that either side knows of was opened with somebody's ticket.
Owned ==
    \A s \in Socket :
        phase[s] # "closed" \/ stage[s] \in {"registered", "receiving", "sweeping"} =>
            owner[s] \in Account

\* ... and that socket is this.ws and the session's, a request carries the
\* session's token (the one or the other may be the former user's, if another
\* has logged in over the session), and without a session nothing is left that
\* could connect.
Followed ==
    ~overlapped /\ ~strayed =>
        /\ \A s \in Live : s = ws /\ (swapped \/ owner[s] = session)
        /\ \A k \in Asked : swapped \/ asker[k] = session
        /\ session = None => ~timer /\ ~should /\ Busy = {} /\ Live = {}

ClientInv == TypeOK /\ OneLine /\ Owned /\ Followed

-----------------------------------------------------------------------------
(***************************************************************************)
(* The client.                                                             *)
(***************************************************************************)

LEMMA ClientInit == Init => ClientInv
<1> SUFFICES ASSUME Init PROVE ClientInv
  OBVIOUS
<1>1. TypeOK
  BY ClientAssumption DEF Init, TypeOK, Phase, CallStage, EndpointStage
<1>2. Live = {} /\ Asked = {} /\ Busy = {}
  BY DEF Init, Live, Asked, Busy
<1> QED
  BY <1>1, <1>2 DEF Init, ClientInv, OneLine, Owned, Followed

\* The code of connect before its await keeps the types.
LEMMA ConnectTyped ==
    ASSUME TypeOK, NEW k \in Call, Connect(k, call)
    PROVE  /\ call' \in [Call -> CallStage]
           /\ asker' \in [Call -> Account \cup {None}]
           /\ overlapped' \in BOOLEAN
  BY DEF TypeOK, Connect, CallStage, Beside

\* So does the beginning of a close.
LEMMA CloseTyped ==
    ASSUME TypeOK, NEW s
    PROVE  CloseBegun(s) \in [Socket -> Phase]
  BY DEF TypeOK, CloseBegun, Phase

\* A call's steps keep the types.
LEMMA CallTyped ==
    ASSUME TypeOK, NEW k \in Call,
           \/ \E s \in Socket : Answer(k, s)
           \/ Refuse(k) \/ Timer(k) \/ LoginConnects(k)
           \/ \E u \in Account : Login(u, k)
           \/ Reload(k)
    PROVE  TypeOK'
<1>1. ASSUME NEW s \in Socket, Answer(k, s) PROVE TypeOK'
  BY <1>1 DEF TypeOK, Answer, Phase, CallStage, EndpointStage, history
<1>2. CASE Refuse(k)
  BY <1>2 DEF TypeOK, Refuse, Deed, CallStage, registry
<1>3. CASE Timer(k)
  BY <1>3, ConnectTyped DEF TypeOK, Timer, registry
<1>4. CASE LoginConnects(k)
  BY <1>4, ConnectTyped DEF TypeOK, LoginConnects, registry
<1>5. ASSUME NEW u \in Account, Login(u, k) PROVE TypeOK'
  <2>1. swapped' \in BOOLEAN
    BY <1>5, Zenon DEF TypeOK, Login
  <2> QED
    BY <1>5, <2>1 DEF TypeOK, Login, Deed, CallStage, registry
<1>6. CASE Reload(k)
  <2>1. /\ phase' \in [Socket -> Phase]
        /\ call' \in [Call -> CallStage]
        /\ asker' \in [Call -> Account \cup {None}]
    BY <1>6 DEF TypeOK, Reload, Phase, CallStage
  <2>2. ws' \in Socket \cup {None} /\ timer' \in BOOLEAN /\ should' \in BOOLEAN
    BY <1>6 DEF Reload
  <2>3. deeds' \in Nat
    BY <1>6 DEF TypeOK, Reload, Deed
  <2>4. UNCHANGED <<session, owner, stage, conns, online, roster, overlapped, strayed>>
    BY <1>6 DEF Reload, registry
  <2>5. swapped' \in BOOLEAN
    BY <1>6 DEF Reload
  <2> QED
    BY <2>1, <2>2, <2>3, <2>4, <2>5 DEF TypeOK
<1> QED
  BY <1>1, <1>2, <1>3, <1>4, <1>5, <1>6

\* The events of the sockets, and the steps of their endpoints, keep the types.
LEMMA SocketTyped ==
    ASSUME TypeOK, Owned, NEW s \in Socket,
           \/ Opened(s) \/ CloseEnds(s) \/ Noticed(s) \/ Rejected(s) \/ Cut(s)
           \/ Register(s) \/ Subscribe(s) \/ Unregister(s) \/ Sweep(s)
    PROVE  TypeOK'
<1>1. CASE Opened(s) \/ Cut(s)
  BY <1>1 DEF TypeOK, Opened, Cut, Deed, Phase, registry, history
<1>2. CASE CloseEnds(s)
  BY <1>2 DEF TypeOK, CloseEnds, Closed, Phase, registry, history
<1>3. CASE Noticed(s) \/ Rejected(s)
  <2>1. CloseBegun(ws) \in [Socket -> Phase]
    BY CloseTyped
  <2>2. phase' \in [Socket -> Phase] /\ timer' \in BOOLEAN
    BY <1>3, <2>1 DEF TypeOK, Noticed, Rejected, Broken, Closed, Phase
  <2> QED
    BY <1>3, <2>2 DEF TypeOK, Noticed, Rejected, Broken, Closed, Deed, registry
<1>4. CASE Register(s) \/ Subscribe(s) \/ Unregister(s) \/ Sweep(s)
  <2>1. owner[s] \in Account
    BY <1>4 DEF Owned, Register, Subscribe, Unregister, Sweep
  <2> QED
    BY <2>1, <1>4 DEF TypeOK, Register, Subscribe, Unregister, Sweep, EndpointStage, client, history
<1> QED
  BY <1>1, <1>2, <1>3, <1>4

\* connect, up to its await, in a call that is not waiting yet.
LEMMA ConnectKeeps ==
    ASSUME TypeOK, OneLine, Followed, NEW k \in Call, call[k] # "asked", Connect(k, call),
           session # None \/ overlapped \/ strayed,
           timer' => timer,
           UNCHANGED <<session, ws, phase, owner, should, strayed, swapped>>
    PROVE  OneLine' /\ Followed'
<1>0. Live' = Live
  BY DEF Live
<1>1. CASE Connected
  <2>1. Asked' \subseteq Asked /\ Busy' \subseteq Busy
    BY <1>1 DEF TypeOK, Connect, Asked, Busy
  <2> QED
    BY <1>0, <1>1, <2>1 DEF Connect, OneLine, Followed
<1>2. CASE ~Connected /\ Beside(k, call)
  <2>1. overlapped'
    BY <1>2 DEF Connect
  <2> QED
    BY <2>1 DEF OneLine, Followed
<1>3. CASE ~Connected /\ ~Beside(k, call)
  <2>1. Live = {} /\ Asked' = {k} /\ asker'[k] = session /\ overlapped' = overlapped
    BY <1>3 DEF TypeOK, Connect, Beside, Asked
  <2> QED
    BY <1>0, <2>1 DEF OneLine, Followed
<1> QED
  BY <1>1, <1>2, <1>3

LEMMA AnswerKeeps ==
    ASSUME ClientInv, NEW k \in Call, NEW s \in Socket, Answer(k, s)
    PROVE  OneLine' /\ Followed'
<1>1. /\ k \in Asked /\ Asked' = Asked \ {k}
      /\ Live' = Live \cup {s} /\ s \notin Live
      /\ owner' = [owner EXCEPT ![s] = asker[k]] /\ owner'[s] = asker[k]
      /\ \A j \in Asked' : asker'[j] = asker[j]
  BY DEF ClientInv, TypeOK, Answer, Asked, Live
<1>2. UNCHANGED <<overlapped, strayed, swapped, session>> /\ ws' = s
  BY DEF Answer, history
<1>3. CASE overlapped
  BY <1>2, <1>3 DEF OneLine, Followed
<1>4. CASE ~overlapped
  <2>1. Live = {} /\ Asked' = {}
    BY <1>1, <1>4 DEF ClientInv, OneLine
  <2>2. OneLine'
    BY <1>1, <2>1 DEF OneLine
  <2>3. ~strayed => (swapped \/ asker[k] = session) /\ session # None
    BY <1>1, <1>4 DEF ClientInv, Followed, Asked, Busy
  <2> QED
    BY <1>1, <1>2, <2>1, <2>2, <2>3 DEF Followed
<1> QED
  BY <1>3, <1>4

\* Every step of a call of connect, and of login and reload.
LEMMA CallKeeps ==
    ASSUME ClientInv, NEW k \in Call,
           \/ \E s \in Socket : Answer(k, s)
           \/ Refuse(k) \/ Timer(k) \/ LoginConnects(k)
           \/ \E u \in Account : Login(u, k)
           \/ Reload(k)
    PROVE  ClientInv'
<1> USE DEF ClientInv
<1>0. TypeOK'
  BY CallTyped
<1>1. CASE \E s \in Socket : Answer(k, s)
  <2> PICK s \in Socket : Answer(k, s)
    BY <1>1
  <2>1. Owned'
    BY <1>0 DEF TypeOK, Owned, Answer, registry
  <2> QED
    BY <1>0, <2>1, AnswerKeeps
<1>2. CASE Refuse(k)
  <2>1. Asked' = Asked \ {k} /\ k \in Asked /\ Live' = Live /\ Busy' \subseteq Busy
    BY <1>2 DEF TypeOK, Refuse, Asked, Live, Busy
  <2>2. \A j \in Asked' : asker'[j] = asker[j]
    BY <1>2, <2>1 DEF TypeOK, Refuse, Asked
  <2>3. k \in Busy
    BY <1>2 DEF Refuse, Busy
  <2>4. OneLine' /\ Followed' /\ Owned'
    BY <1>2, <2>1, <2>2, <2>3 DEF Refuse, OneLine, Followed, Owned, registry
  <2> QED
    BY <1>0, <2>4
<1>3. CASE Timer(k)
  <2>1. call[k] # "asked" /\ (session # None \/ overlapped \/ strayed)
    BY <1>3 DEF Timer, Busy, Followed
  <2>2. OneLine' /\ Followed'
    BY <1>3, <2>1, ConnectKeeps DEF Timer
  <2>3. Owned'
    BY <1>3 DEF Timer, Owned, registry
  <2> QED
    BY <1>0, <2>2, <2>3
<1>4. CASE LoginConnects(k)
  <2>1. call[k] # "asked" /\ (session # None \/ overlapped \/ strayed)
    BY <1>4 DEF LoginConnects, Busy, Followed
  <2>2. OneLine' /\ Followed'
    BY <1>4, <2>1, ConnectKeeps DEF LoginConnects
  <2>3. Owned'
    BY <1>4 DEF LoginConnects, Owned, registry
  <2> QED
    BY <1>0, <2>2, <2>3
<1>5. CASE \E u \in Account : Login(u, k)
  <2> PICK u \in Account : Login(u, k)
    BY <1>5
  <2>1. Live' = Live /\ Asked' = Asked /\ u # None
    BY ClientAssumption DEF TypeOK, Login, Live, Asked, Busy
  <2>2. OneLine' /\ Owned'
    BY <2>1 DEF Login, OneLine, Owned, registry
  <2>3. ~overlapped /\ ~strayed =>
            session = u \/ swapped' \/ (Live = {} /\ Asked = {})
    BY DEF Login, Followed, Asked, Busy
  <2>4. Followed'
    BY <2>1, <2>3 DEF Login, Followed
  <2> QED
    BY <1>0, <2>2, <2>4
<1>6. CASE Reload(k)
  <2>1. Live' = {} /\ Asked' = {k} /\ asker'[k] = session
    BY <1>6 DEF TypeOK, Reload, Live, Asked
  <2>2. OneLine' /\ Followed'
    BY <1>6, <2>1 DEF Reload, OneLine, Followed
  <2>3. Owned'
    BY <1>6 DEF Reload, Owned, registry
  <2> QED
    BY <1>0, <2>2, <2>3
<1> QED
  BY <1>1, <1>2, <1>3, <1>4, <1>5, <1>6

\* What becomes of the phases when the client begins to close its socket.
LEMMA CloseBegins ==
    ASSUME TypeOK, NEW r \in Socket
    PROVE  /\ r # ws \/ r \notin Live => CloseBegun(ws)[r] = phase[r]
           /\ r = ws /\ r \in Live => CloseBegun(ws)[r] = "closing"
  BY DEF TypeOK, CloseBegun

\* Every event of a socket, and every step of its endpoint.
LEMMA SocketKeeps ==
    ASSUME ClientInv, NEW s \in Socket,
           \/ Opened(s) \/ CloseEnds(s) \/ Noticed(s) \/ Rejected(s) \/ Cut(s)
           \/ Register(s) \/ Subscribe(s) \/ Unregister(s) \/ Sweep(s)
    PROVE  ClientInv'
<1> USE DEF ClientInv
<1>0. TypeOK'
  BY SocketTyped
<1>1. Asked' = Asked /\ Busy' = Busy
      /\ UNCHANGED <<session, ws, owner, should, asker, overlapped, strayed,
                     swapped>>
  BY DEF Opened, CloseEnds, Noticed, Rejected, Broken, Cut, Register, Subscribe,
         Unregister, Sweep, client, history, Asked, Busy
<1>2. ~timer /\ ~should => ~timer'
  BY DEF Opened, CloseEnds, Noticed, Rejected, Broken, Closed, Cut, Register, Subscribe,
         Unregister, Sweep, client
<1>3. Live' \subseteq Live
  <2>1. CASE Noticed(s) \/ Rejected(s)
    BY <2>1, CloseBegins DEF TypeOK, Noticed, Rejected, Broken, Closed, CloseBegun, Live
  <2>2. CASE Opened(s) \/ CloseEnds(s) \/ Cut(s)
    BY <2>2 DEF TypeOK, Opened, CloseEnds, Closed, Cut, Live
  <2>3. CASE Register(s) \/ Subscribe(s) \/ Unregister(s) \/ Sweep(s)
    BY <2>3 DEF Register, Subscribe, Unregister, Sweep, client, Live
  <2> QED
    BY <2>1, <2>2, <2>3
<1>4. OneLine' /\ Followed'
  <2>1. OneLine'
    BY <1>1, <1>3 DEF OneLine
  <2>2. Followed'
    BY <1>1, <1>2, <1>3 DEF Followed
  <2> QED
    BY <2>1, <2>2
<1>5. Owned'
  <2>1. CASE Noticed(s) \/ Rejected(s)
    BY <2>1 DEF TypeOK, Noticed, Rejected, Broken, Closed, CloseBegun, Live, Owned, registry
  <2>2. CASE Opened(s) \/ CloseEnds(s) \/ Cut(s)
    BY <2>2 DEF TypeOK, Opened, CloseEnds, Closed, Cut, Owned, registry
  <2>3. CASE Register(s) \/ Subscribe(s) \/ Unregister(s) \/ Sweep(s)
    BY <2>3 DEF TypeOK, Register, Subscribe, Unregister, Sweep, client, Owned
  <2> QED
    BY <2>1, <2>2, <2>3
<1> QED
  BY <1>0, <1>4, <1>5

\* logout leaves nothing behind, unless a call is under way or a socket is not
\* this.ws.
LEMMA LogoutKeeps == ASSUME ClientInv, Logout PROVE ClientInv'
<1> USE DEF ClientInv
<1>1. TypeOK'
  <2>1. CloseBegun(ws) \in [Socket -> Phase]
    BY CloseTyped
  <2> QED
    BY <2>1 DEF TypeOK, Logout, registry
<1>2. Live' \subseteq Live /\ ws \notin Live'
  BY CloseBegins DEF TypeOK, Logout, Live
<1>3. Asked' = Asked /\ Busy' = Busy /\ Asked \subseteq Busy
  BY DEF Logout, Asked, Busy
<1>4. OneLine'
  BY <1>2, <1>3 DEF Logout, OneLine
<1>5. Followed'
  BY <1>2, <1>3 DEF Logout, Followed
<1>6. Owned'
  BY DEF TypeOK, Logout, CloseBegun, Live, Owned, registry
<1> QED
  BY <1>1, <1>4, <1>5, <1>6

\* Others of the same backend, and the listener, do not touch the client.
LEMMA OthersKeep ==
    ASSUME ClientInv,
           \/ \E u \in Account, dead \in SUBSET Deaf : Forget(u, dead)
           \/ \E p \in Peer : PeerMoves(p)
           \/ Published
           \/ UNCHANGED clientVars
    PROVE  ClientInv'
<1> USE DEF ClientInv
<1>1. TypeOK'
  BY DEF TypeOK, Forget, PeerMoves, Published, Deed, client, history, clientVars, registry
<1>2. UNCHANGED <<client, stage, overlapped, strayed, swapped>>
  BY DEF Forget, PeerMoves, Published, history, clientVars, registry
<1>3. Live' = Live /\ Asked' = Asked /\ Busy' = Busy
  BY <1>2 DEF client, Live, Asked, Busy
<1> QED
  BY <1>1, <1>2, <1>3 DEF client, OneLine, Owned, Followed

LEMMA ClientStep == ClientInv /\ [Next]_clientVars => ClientInv'
  BY CallKeeps, SocketKeeps, LogoutKeeps, OthersKeep DEF Next, Progress

LEMMA ClientAlways == Spec => []ClientInv
  BY ClientInit, ClientStep, PTL DEF Spec

-----------------------------------------------------------------------------
(***************************************************************************)
(* The listener's loops.                                                   *)
(***************************************************************************)

\* Users and sockets are finitely many, so that sizes are numbers.
LEMMA Sizes ==
    /\ \A users \in SUBSET (Account \cup Peer) : Cardinality(users) \in Nat
    /\ \A sockets \in SUBSET Socket : Cardinality(sockets) \in Nat
  BY DeliveryAssumption, FS_Subset, FS_CardinalityType

\* The sockets that a send failed to reach are deaf ever after.
Forwarding(l) == l \in Loop /\ l.dead \subseteq Deaf

LEMMA IdleForwards == Forwarding(Idle)
  BY DEF Forwarding, Idle, Loop, Drift

LEMMA SendForwards ==
    ASSUME NEW l, Forwarding(l), NEW s \in Socket, NEW m \in Send(l, s)
    PROVE  Forwarding(m)
<1>1. CASE s \in Deaf /\ m = [l EXCEPT !.cseen = @ \cup {s}]
  BY <1>1 DEF Forwarding, Loop
<1>2. CASE s \in Deaf /\ m = [l EXCEPT !.cseen = @ \cup {s}, !.dead = @ \cup {s}]
  BY <1>2 DEF Forwarding, Loop
<1>3. CASE m = [l EXCEPT !.cseen = @ \cup {s}, !.got[s] = @ + 1]
  <2>1. [l.got EXCEPT ![s] = @ + 1] \in [Socket -> Nat]
    BY DEF Forwarding, Loop
  <2> QED
    BY <1>3, <2>1 DEF Forwarding, Loop
<1> QED
  BY <1>1, <1>2, <1>3 DEF Send

LEMMA BeginForwards ==
    ASSUME NEW l \in Loop, NEW v \in Account \cup Peer, NEW n \in Nat
    PROVE  Forwarding([l EXCEPT !.at = v, !.seen = @ \cup {v}, !.dead = {},
                                !.cseen = {}, !.cdrift = "same", !.csize = n])
  BY DEF Forwarding, Loop, Drift

LEMMA VisitForwards ==
    ASSUME NEW l, Forwarding(l), NEW v \in Account \cup Peer,
           NEW sockets \in [Account -> SUBSET Socket], NEW next,
           Visit(l, v, sockets, next)
    PROVE  Forwarding(next)
<1> DEFINE there == [l EXCEPT !.at = v, !.seen = @ \cup {v}, !.dead = {},
                              !.cseen = {}, !.cdrift = "same",
                              !.csize = IF v \in Peer THEN 0 ELSE Cardinality(sockets[v])]
<1>1. (IF v \in Peer THEN 0 ELSE Cardinality(sockets[v])) \in Nat
  BY Sizes
<1>2. Forwarding(there)
  BY <1>1, BeginForwards DEF Forwarding
<1>3. next = there \/ \E s \in Socket : next \in Send(there, s)
  BY DEF Visit
<1> QED
  BY <1>2, <1>3, SendForwards

LEMMA NextUserForwards ==
    ASSUME NEW l, Forwarding(l), roster \subseteq Account \cup Peer,
           NEW sockets \in [Account -> SUBSET Socket], NEW next,
           NextUser(l, sockets, next)
    PROVE  Forwarding(next)
<1>1. next = Idle \/ \E v \in Account \cup Peer : Visit(l, v, sockets, next)
  BY DEF NextUser, Todo
<1> QED
  BY <1>1, IdleForwards, VisitForwards

\* A socket that cannot be sent to stays so, until it is made again.
LEMMA DeafStays ==
    ASSUME TypeOK, [Next]_clientVars, NEW s \in Deaf, stage'[s] # "none"
    PROVE  s \in Deaf'
<1> USE DEF Deaf
<1>1. ASSUME NEW k \in Call, NEW r \in Socket, Answer(k, r) PROVE s \in Deaf'
  BY <1>1 DEF TypeOK, Answer
<1>2. ASSUME NEW k \in Call, Refuse(k) \/ Timer(k) \/ LoginConnects(k) PROVE s \in Deaf'
  BY <1>2 DEF Refuse, Timer, LoginConnects
<1>3. ASSUME NEW k \in Call, Reload(k) PROVE s \in Deaf'
  BY <1>3 DEF Reload
<1>4. ASSUME NEW r \in Socket, Opened(r) \/ CloseEnds(r) \/ Cut(r) PROVE s \in Deaf'
  BY <1>4 DEF TypeOK, Opened, CloseEnds, Closed, Cut
<1>5. s \in Socket /\ CloseBegun(ws)[s] \in {"cut", "closing", "closed"}
  BY DEF TypeOK, CloseBegun, Live
<1>6. ASSUME NEW r \in Socket, Noticed(r) \/ Rejected(r) PROVE s \in Deaf'
  BY <1>5, <1>6, CloseTyped DEF Noticed, Rejected, Broken, Closed
<1>7. CASE Logout
  BY <1>5, <1>7 DEF Logout
<1>8. ASSUME NEW r \in Socket, Register(r) \/ Subscribe(r) \/ Unregister(r) \/ Sweep(r)
      PROVE  s \in Deaf'
  BY <1>8 DEF Register, Subscribe, Unregister, Sweep, client
<1>9. CASE \/ \E u \in Account, k \in Call : Login(u, k)
           \/ \E u \in Account, dead \in SUBSET Deaf : Forget(u, dead)
           \/ \E p \in Peer : PeerMoves(p)
           \/ Published
           \/ UNCHANGED clientVars
  BY <1>9 DEF Login, Forget, PeerMoves, Published, client, clientVars
<1> QED
  BY <1>1, <1>2, <1>3, <1>4, <1>6, <1>7, <1>8, <1>9 DEF Next, Progress

ForwardInv ==
    /\ line \in Seq(Event)
    /\ topic \in [Event -> Topic]
    /\ steady \in [Event -> SUBSET Socket]
    /\ Forwarding(loop)

DeliveryInv == ClientInv /\ ForwardInv

LEMMA DeliveryStarts == DeliveryInit => DeliveryInv
<1> SUFFICES ASSUME DeliveryInit PROVE DeliveryInv
  OBVIOUS
<1>1. Forwarding(loop)
  BY IdleForwards DEF DeliveryInit
<1> QED
  BY <1>1, ClientInit DEF DeliveryInit, DeliveryInv, ForwardInv, Topic

\* A step of anybody but the listener and the publishers.
ClientMoves ==
    \/ Progress
    \/ \E u \in Account, k \in Call : Login(u, k)
    \/ Logout
    \/ \E k \in Call : Reload(k)
    \/ \E s \in Socket : Cut(s)
    \/ \E p \in Peer : PeerMoves(p)

LEMMA StillTyped ==
    ASSUME ForwardInv
    PROVE  StillSteady \in [Event -> SUBSET Socket]
  BY DEF ForwardInv, StillSteady

\* Whatever others do meanwhile leaves the loops well-formed.
LEMMA AsideForwards ==
    ASSUME DeliveryInv, ClientMoves, Aside
    PROVE  DeliveryInv'
<1>1. [Next]_clientVars
  BY DEF ClientMoves, Next
<1>2. ClientInv'
  BY <1>1, ClientStep DEF DeliveryInv
<1>3. loop \in Loop /\ loop.dead \subseteq Deaf
  BY DEF DeliveryInv, ForwardInv, Forwarding
<1>4. Drifted(loop) \in Loop
  <2> DEFINE users == loop.event # None /\ roster' # roster
             own == loop.at \in Account /\ conns'[loop.at] # conns[loop.at]
             drift == IF ~users THEN loop.drift
                      ELSE IF loop.drift = "gone" \/ roster' = {} THEN "gone" ELSE "shuffled"
             cdrift == IF ~own THEN loop.cdrift
                       ELSE IF loop.cdrift = "gone" \/ loop.at \notin online' THEN "gone"
                       ELSE "shuffled"
             seen == IF users THEN {} ELSE loop.seen
             cseen == IF own THEN {} ELSE loop.cseen
             dead == {s \in loop.dead : stage'[s] # "none"}
             swayed == loop.swayed \/ users \/ own
  <2>1. /\ drift \in Drift /\ cdrift \in Drift /\ swayed \in BOOLEAN
        /\ seen \subseteq Account \cup Peer /\ cseen \subseteq Socket /\ dead \subseteq Socket
    BY <1>3 DEF Loop, Drift
  <2>2. Drifted(loop) =
           [loop EXCEPT !.drift = drift, !.seen = seen, !.cdrift = cdrift,
                        !.cseen = cseen, !.dead = dead, !.swayed = swayed]
    BY <1>3 DEF Drifted, Loop
  <2> HIDE DEF drift, cdrift, seen, cseen, dead, swayed
  <2> QED
    BY ZenonT(60), <1>3, <2>1, <2>2 DEF Loop
<1>5. Drifted(loop).dead = {s \in loop.dead : stage'[s] # "none"}
  BY <1>3 DEF Drifted, Loop
<1>6. Drifted(loop).dead \subseteq Deaf'
  BY <1>1, <1>3, <1>5, DeafStays DEF DeliveryInv, ClientInv
<1>7. Forwarding(loop)'
  BY <1>4, <1>6 DEF Aside, Forwarding
<1> QED
  BY <1>2, <1>7, StillTyped DEF DeliveryInv, ForwardInv, Aside

\* So does the listener, which leaves the client what it is and only takes
\* sockets out of the registry.
LEMMA ListenForwards ==
    ASSUME DeliveryInv, Listen \/ \E e \in Event, t \in Topic : Publish(e, t)
    PROVE  DeliveryInv' /\ [Next]_clientVars
<1> USE DEF DeliveryInv, ForwardInv
<1>0. /\ loop \in Loop /\ loop.dead \subseteq Deaf
      /\ conns \in [Account -> SUBSET Socket] /\ roster \subseteq Account \cup Peer
  BY DEF Forwarding, ClientInv, TypeOK
<1>1. CASE Take
  <2>1. Head(line) \in Event /\ Tail(line) \in Seq(Event)
    BY <1>1 DEF Take
  <2>2. Forwarding([Idle EXCEPT !.event = Head(line), !.size = Cardinality(roster)])
    BY <1>0, <2>1, Sizes DEF Forwarding, Idle, Loop, Drift
  <2>3. topic[Head(line)] # Room => topic[Head(line)] \in Account
    BY <2>1 DEF Topic
  <2>4. Forwarding(loop')
    BY <1>0, <1>1, <2>2, <2>3, IdleForwards, VisitForwards, NextUserForwards DEF Take
  <2>5. UNCHANGED <<clientVars, topic>> /\ Deaf' = Deaf
    BY <1>1 DEF Take, clientVars, client, Deaf
  <2> QED
    BY <1>1, <2>1, <2>4, <2>5, OthersKeep, StillTyped DEF Take, Forwarding
<1>2. CASE Abort \/ EndPeer \/ \E s \in Socket : SendNext(s)
  <2>1. Forwarding(loop')
    BY <1>0, <1>2, IdleForwards, SendForwards, NextUserForwards
       DEF Abort, EndPeer, SendNext
  <2>2. UNCHANGED <<clientVars, line, topic>> /\ Deaf' = Deaf /\ steady' = StillSteady
    BY <1>2 DEF Abort, EndPeer, SendNext, clientVars, client, Deaf
  <2> QED
    BY <2>1, <2>2, OthersKeep, StillTyped DEF Forwarding
<1>3. CASE EndUser
  <2>1. loop.at \in Account /\ Forget(loop.at, loop.dead) /\ loop.dead \in SUBSET Deaf
    BY <1>0, <1>3 DEF EndUser
  <2>2. ClientInv' /\ [Next]_clientVars
    BY <2>1, OthersKeep DEF Next
  <2>3. conns' \in [Account -> SUBSET Socket]
    BY <2>2 DEF ClientInv, TypeOK
  <2>4. Forwarding(loop')
    BY <1>0, <1>3, <2>3, NextUserForwards DEF EndUser
  <2>5. Deaf' = Deaf
    BY <2>1 DEF Forget, client, Deaf
  <2> QED
    BY <1>3, <2>2, <2>4, <2>5, StillTyped DEF EndUser, Forwarding
<1>4. ASSUME NEW e \in Event, NEW t \in Topic, Publish(e, t)
      PROVE  DeliveryInv' /\ [Next]_clientVars
  <2>1. Published /\ UNCHANGED loop
    BY <1>4 DEF Publish
  <2>2. ClientInv' /\ [Next]_clientVars
    BY <2>1, OthersKeep DEF Next
  <2>3. Deaf' = Deaf /\ Served \subseteq Socket
    BY <2>1 DEF Published, client, Deaf, Served
  <2>4. /\ line' \in Seq(Event)
        /\ topic' \in [Event -> Topic]
        /\ steady' \in [Event -> SUBSET Socket]
    BY <1>4, <2>3, StillTyped DEF Publish
  <2> QED
    BY <2>1, <2>2, <2>3, <2>4 DEF Forwarding
<1> QED
  BY <1>1, <1>2, <1>3, <1>4 DEF Listen, Take, Abort, EndPeer, SendNext

LEMMA DeliveryStep ==
    DeliveryInv /\ [DeliveryNext]_vars => DeliveryInv' /\ [Next]_clientVars
<1> SUFFICES ASSUME DeliveryInv, [DeliveryNext]_vars PROVE DeliveryInv' /\ [Next]_clientVars
  OBVIOUS
<1>1. CASE ClientMoves /\ Aside
  BY <1>1, AsideForwards DEF ClientMoves, Next
<1>2. CASE Listen \/ \E e \in Event, t \in Topic : Publish(e, t)
  BY <1>2, ListenForwards
<1>3. CASE UNCHANGED vars
  <2>1. ClientInv'
    BY <1>3, OthersKeep DEF vars, DeliveryInv
  <2>2. Deaf' = Deaf
    BY <1>3 DEF vars, clientVars, client, Deaf
  <2> QED
    BY <1>3, <2>1, <2>2 DEF vars, DeliveryInv, ForwardInv, Forwarding
<1> QED
  BY <1>1, <1>2, <1>3 DEF DeliveryNext, ClientMoves

LEMMA DeliveryAlways == DeliverySpec => []DeliveryInv
  BY DeliveryStarts, DeliveryStep, PTL DEF DeliverySpec

\* The types of everything.
THEOREM DeliveryTypeInvariant == DeliverySpec => []DeliveryTypeOK
<1>1. DeliveryInv => DeliveryTypeOK
  BY DEF DeliveryInv, ForwardInv, Forwarding, ClientInv, DeliveryTypeOK
<1> QED
  BY <1>1, DeliveryAlways, PTL

\* The listener adds nothing to what a client and its registry go through:
\* whatever Delivery does, WsClient allows.
THEOREM DeliveryImplementsClient == DeliverySpec => Spec
<1>1. DeliveryInit => Init
  BY DEF DeliveryInit
<1> QED
  BY <1>1, DeliveryAlways, DeliveryStep, PTL DEF DeliverySpec, Spec

\* A tab whose connects never overlap has one live socket at most, for any
\* number of sockets and of calls.
THEOREM OneLiveSocketAlways == DeliverySpec => []OneLiveSocket
<1>1. ClientInv => OneLiveSocket
  <2> SUFFICES ASSUME ClientInv, ~overlapped PROVE ~(Cardinality(Live) > 1)
    BY DEF OneLiveSocket
  <2>1. CASE Live = {}
    BY <2>1, FS_EmptySet
  <2>2. CASE Live # {}
    <3> PICK s \in Live : TRUE
      BY <2>2
    <3>1. Live = {s}
      BY DEF ClientInv, OneLine
    <3>2. Cardinality({s}) = 1
      BY FS_Singleton
    <3> QED
      BY <3>1, <3>2
  <2> QED
    BY <2>1, <2>2
<1> QED
  BY <1>1, ClientAlways, DeliveryImplementsClient, PTL

\* A logout leaves no socket, no timer and no call, and the tab's next user
\* never goes on with the socket of the one before, unless a connect was under
\* way then or overlapped, or he logged in without a logout.
THEOREM QuietAfterLogoutAlways == DeliverySpec => []QuietAfterLogout
<1>1. ClientInv => QuietAfterLogout
  BY DEF ClientInv, Followed, QuietAfterLogout
<1> QED
  BY <1>1, ClientAlways, DeliveryImplementsClient, PTL

-----------------------------------------------------------------------------
(***************************************************************************)
(* What the sockets get that are served all along.                         *)
(***************************************************************************)

\* An event for one user waits for his sockets, or is at them.
Addressed(e, s) == topic[e] # Room => owner[s] = topic[e]

\* While no set has drifted under the loops: the sizes are what they were, and
\* of the sockets served all along those passed have the event once, those to
\* come not yet.
Undrifted(l) ==
    /\ l.drift = "same" /\ l.cdrift = "same"
    /\ topic[l.event] = Room => Cardinality(roster) = l.size
    /\ topic[l.event] # Room => l.at = topic[l.event]
    /\ l.at \in l.seen
    /\ l.at \in Account => Cardinality(conns[l.at]) = l.csize

Got(l, s) ==
    l.got[s] = IF owner[s] = l.at THEN (IF s \in l.cseen THEN 1 ELSE 0)
               ELSE IF owner[s] \in l.seen THEN 1 ELSE 0

\* A socket is registered for the user it was opened for.
Registered == \A u \in Account : \A s \in conns[u] : owner[s] = u

SteadyInv ==
    /\ Registered
    /\ \A e \in Event : \A s \in steady[e] : s \in Served /\ Addressed(e, s)
    /\ loop.event # None /\ ~loop.swayed =>
          Undrifted(loop) /\ \A s \in steady[loop.event] : Got(loop, s)

\* A socket changes hands only when it is made again.
LEMMA OwnerStays ==
    ASSUME TypeOK, [Next]_clientVars, NEW s \in Socket, phase[s] = "open"
    PROVE  owner'[s] = owner[s]
<1>1. ASSUME NEW k \in Call, NEW r \in Socket, Answer(k, r) PROVE owner'[s] = owner[s]
  BY <1>1 DEF TypeOK, Answer
<1> QED
  BY <1>1 DEF Next, Progress, Refuse, Timer, LoginConnects, Opened, CloseEnds, Noticed,
              Rejected, Broken, Register, Subscribe, Unregister, Sweep, Login, Logout,
              Reload, Cut, Forget, PeerMoves, Published, client, clientVars

LEMMA RegisteredStays ==
    ASSUME TypeOK, Registered, [Next]_clientVars PROVE Registered'
<1> USE DEF Registered
<1>1. ASSUME NEW k \in Call, NEW r \in Socket, Answer(k, r) PROVE Registered'
  <2>1. \A u \in Account : r \notin conns[u] /\ conns'[u] = conns[u]
    BY <1>1 DEF Answer, registry
  <2>2. owner' = [owner EXCEPT ![r] = asker[k]]
    BY <1>1 DEF Answer
  <2> QED
    BY <2>1, <2>2 DEF TypeOK
<1>2. ASSUME NEW r \in Socket, Register(r) \/ Unregister(r) PROVE Registered'
  BY <1>2 DEF TypeOK, Register, Unregister, client
<1>3. ASSUME NEW u \in Account, NEW dead \in SUBSET Deaf, Forget(u, dead) PROVE Registered'
  BY <1>3 DEF TypeOK, Forget, client
<1> QED
  BY <1>1, <1>2, <1>3
     DEF Next, Progress, Refuse, Timer, LoginConnects, Opened, CloseEnds, Noticed,
         Rejected, Broken, Subscribe, Sweep, Login, Logout, Reload, Cut, PeerMoves,
         Published, client, registry, clientVars

\* Those still served are those who were, with the owners they had.
LEMMA StillServed ==
    ASSUME DeliveryInv, SteadyInv, [Next]_clientVars,
           NEW e \in Event, topic'[e] = topic[e], NEW s \in StillSteady[e]
    PROVE  /\ s \in steady[e] /\ s \in Served /\ s \in Served' /\ s \in Socket
           /\ owner'[s] = owner[s] /\ Addressed(e, s)'
<1>1. s \in steady[e] /\ s \in Served'
  BY DEF StillSteady
<1>2. s \in Served /\ Addressed(e, s)
  BY <1>1 DEF SteadyInv
<1>3. s \in Socket /\ phase[s] = "open"
  BY <1>2 DEF Served
<1>4. owner'[s] = owner[s]
  BY <1>3, OwnerStays DEF DeliveryInv, ClientInv
<1> QED
  BY <1>1, <1>2, <1>3, <1>4 DEF Addressed

LEMMA AsideSteady ==
    ASSUME DeliveryInv, SteadyInv, ClientMoves, Aside
    PROVE  SteadyInv'
<1>1. [Next]_clientVars /\ topic' = topic /\ steady' = StillSteady /\ loop' = Drifted(loop)
  BY DEF ClientMoves, Next, Aside
<1>2. \A e \in Event : \A s \in steady'[e] : s \in Served' /\ Addressed(e, s)'
  BY <1>1, StillServed
<1>a. Registered'
  BY <1>1, RegisteredStays DEF SteadyInv, DeliveryInv, ClientInv
<1>3. loop \in Loop
  BY DEF DeliveryInv, ForwardInv, Forwarding
<1>4. SUFFICES ASSUME loop'.event # None, ~loop'.swayed
               PROVE  (Undrifted(loop) /\ \A s \in steady[loop.event] : Got(loop, s))'
  BY <1>2, <1>a DEF SteadyInv
<1>5. /\ loop'.event = loop.event /\ loop.event \in Event
      /\ loop'.size = loop.size /\ loop'.at = loop.at /\ loop'.csize = loop.csize
      /\ loop'.got = loop.got
      /\ ~loop.swayed /\ roster' = roster
      /\ ~(loop.at \in Account /\ conns'[loop.at] # conns[loop.at])
  BY <1>1, <1>3, <1>4 DEF Drifted, Loop
<1>6. /\ loop'.drift = loop.drift /\ loop'.cdrift = loop.cdrift
      /\ loop'.seen = loop.seen /\ loop'.cseen = loop.cseen
  BY <1>1, <1>3, <1>5 DEF Drifted, Loop
<1>7. Undrifted(loop) /\ \A s \in steady[loop.event] : Got(loop, s)
  BY <1>4, <1>5 DEF SteadyInv
<1>8. Undrifted(loop)'
  BY <1>1, <1>5, <1>6, <1>7 DEF Undrifted
<1>9. ASSUME NEW s \in steady'[loop'.event] PROVE Got(loop, s)'
  <2>1. s \in steady[loop.event] /\ owner'[s] = owner[s]
    BY <1>1, <1>5, <1>9, StillServed
  <2> QED
    BY <1>5, <1>6, <1>7, <2>1 DEF Got
<1> QED
  BY <1>8, <1>9

\* What send_json changes of the loops.
LEMMA SendFields ==
    ASSUME NEW l \in Loop, NEW s \in Socket, NEW m \in Send(l, s)
    PROVE  /\ m.event = l.event /\ m.drift = l.drift /\ m.cdrift = l.cdrift
           /\ m.swayed = l.swayed /\ m.size = l.size /\ m.csize = l.csize
           /\ m.at = l.at /\ m.seen = l.seen
           /\ m.cseen = l.cseen \cup {s}
           /\ s \notin Deaf => m.got[s] = l.got[s] + 1
           /\ \A r \in Socket : r # s => m.got[r] = l.got[r]
<1>1. CASE s \in Deaf
  <2>1. \/ m = [l EXCEPT !.cseen = @ \cup {s}]
        \/ m = [l EXCEPT !.cseen = @ \cup {s}, !.dead = @ \cup {s}]
    BY <1>1 DEF Send
  <2>2. CASE m = [l EXCEPT !.cseen = @ \cup {s}]
    BY <1>1, <2>2 DEF Loop
  <2>3. CASE m = [l EXCEPT !.cseen = @ \cup {s}, !.dead = @ \cup {s}]
    BY <1>1, <2>3 DEF Loop
  <2> QED
    BY <2>1, <2>2, <2>3
<1>2. CASE s \notin Deaf
  <2>1. m = [l EXCEPT !.cseen = @ \cup {s}, !.got[s] = @ + 1]
    BY <1>2 DEF Send
  <2> QED
    BY <1>2, <2>1 DEF Loop
<1> QED
  BY <1>1, <1>2

\* Sending to a socket of the user at hand, not sent to before, keeps the count.
LEMMA SendCounts ==
    ASSUME NEW l \in Loop, NEW r \in Socket, owner[r] = l.at, r \notin l.cseen,
           NEW m \in Send(l, r), NEW s \in Served, Got(l, s)
    PROVE  Got(m, s)
<1>1. s \in Socket /\ s \notin Deaf
  BY DEF Served, Deaf
<1>2. m.at = l.at /\ m.seen = l.seen /\ m.cseen = l.cseen \cup {r}
  BY SendFields
<1>3. l.got \in [Socket -> Nat]
  BY DEF Loop
<1>4. CASE s = r
  <2>1. m.got[s] = l.got[s] + 1
    BY <1>1, <1>3, <1>4, SendFields
  <2> QED
    BY <1>2, <1>4, <2>1 DEF Got
<1>5. CASE s # r
  <2>1. m.got[s] = l.got[s]
    BY <1>1, <1>3, <1>5, SendFields
  <2> QED
    BY <1>2, <1>5, <2>1 DEF Got
<1> QED
  BY <1>4, <1>5

\* Some of the registered sockets.
Within(sockets) ==
    /\ sockets \in [Account -> SUBSET Socket]
    /\ \A u \in Account : sockets[u] \subseteq conns[u]

\* The loop l is between two users: those in l.seen have the event.
Between(l, served) ==
    /\ l \in Loop /\ l.event \in Event /\ l.drift = "same"
    /\ topic[l.event] = Room => Cardinality(roster) = l.size
    /\ \A s \in served : l.got[s] = IF owner[s] \in l.seen THEN 1 ELSE 0

\* Then the visit of v begins.
Visiting(l, v, sockets, served, next) ==
    /\ next.event = l.event /\ next.drift = "same" /\ next.cdrift = "same"
    /\ next.swayed = l.swayed /\ next.size = l.size
    /\ next.at = v /\ v \in next.seen
    /\ v \in Account => next.csize = Cardinality(sockets[v])
    /\ \A s \in served : Got(next, s)

\* The visit of a user begins: everybody passed so far has the event.
LEMMA VisitSteady ==
    ASSUME DeliveryInv, SteadyInv, NEW sockets, Within(sockets),
           NEW served \in SUBSET Served, NEW l, Between(l, served),
           NEW v \in Account \cup Peer, v \notin l.seen,
           NEW next, Visit(l, v, sockets, next)
    PROVE  Visiting(l, v, sockets, served, next)
<1> USE DEF Within, Between
<1> DEFINE n == IF v \in Peer THEN 0 ELSE Cardinality(sockets[v])
           there == [l EXCEPT !.at = v, !.seen = @ \cup {v}, !.dead = {},
                              !.cseen = {}, !.cdrift = "same", !.csize = n]
<1>0. n \in Nat /\ (v \in Account => n = Cardinality(sockets[v]))
  BY Sizes, ClientAssumption
<1> HIDE DEF n
<1>1. /\ there.event = l.event /\ there.drift = "same" /\ there.cdrift = "same"
      /\ there.swayed = l.swayed /\ there.size = l.size /\ there.csize = n
      /\ there.at = v /\ there.seen = l.seen \cup {v} /\ there.cseen = {}
      /\ there.got = l.got
  BY DEF Loop
<1>2. next = there \/ \E r \in Socket : owner[r] = v /\ next \in Send(there, r)
  BY DEF Visit, n, SteadyInv, Registered
<1>3. there \in Loop
  BY <1>0, BeginForwards DEF Forwarding
<1> HIDE DEF there
<1>4. CASE next = there
  BY <1>0, <1>1, <1>4 DEF Got, Visiting
<1>5. ASSUME NEW s \in served PROVE Got(there, s)
  BY <1>1, <1>5 DEF Got
<1>6. ASSUME NEW r \in Socket, owner[r] = v, next \in Send(there, r)
      PROVE  /\ next.event = l.event /\ next.drift = "same" /\ next.cdrift = "same"
             /\ next.swayed = l.swayed /\ next.size = l.size
             /\ next.at = v /\ v \in next.seen /\ next.csize = n
             /\ \A s \in served : Got(next, s)
  <2>1. /\ next.event = there.event /\ next.drift = there.drift
        /\ next.cdrift = there.cdrift /\ next.swayed = there.swayed
        /\ next.size = there.size /\ next.csize = there.csize
        /\ next.at = there.at /\ next.seen = there.seen
    BY <1>3, <1>6, SendFields
  <2>2. owner[r] = there.at /\ r \notin there.cseen
    BY <1>1, <1>6
  <2>3. \A s \in served : Got(next, s)
    BY <1>3, <1>5, <1>6, <2>2, SendCounts
  <2> QED
    BY <1>1, <2>1, <2>3
<1> QED
  BY <1>0, <1>2, <1>4, <1>6 DEF Visiting

\* The next user comes, or everybody has the event.
LEMMA NextUserSteady ==
    ASSUME DeliveryInv, SteadyInv, NEW sockets, Within(sockets),
           NEW served \in SUBSET Served, NEW l, Between(l, served),
           topic[l.event] # Room => \A s \in served : owner[s] \in l.seen,
           \A s \in served : s \in sockets[owner[s]],
           NEW next, NextUser(l, sockets, next)
    PROVE  \/ next = Idle /\ \A s \in served : l.got[s] = 1
           \/ topic[l.event] = Room /\ \E v : Visiting(l, v, sockets, served, next)
<1>1. CASE next = Idle /\ (Over(l) \/ Todo(l, sockets) = {} \/ l.drift = "shuffled")
  <2> SUFFICES ASSUME NEW s \in served PROVE owner[s] \in l.seen
    BY <1>1 DEF Between
  <2>1. owner[s] \in roster
    BY DEF Served
  <2>2. Over(l) => topic[l.event] # Room
    BY DEF Over, Between
  <2>3. Todo(l, sockets) = {} => owner[s] \in l.seen
    BY <2>1 DEF Todo
  <2> QED
    BY <1>1, <2>2, <2>3 DEF Between
<1>2. ASSUME ~Over(l), NEW v \in Todo(l, sockets), Visit(l, v, sockets, next)
      PROVE  topic[l.event] = Room /\ Visiting(l, v, sockets, served, next)
  <2>1. topic[l.event] = Room
    BY <1>2 DEF Over
  <2>2. v \in Account \cup Peer /\ v \notin l.seen
    BY DEF Todo, DeliveryInv, ClientInv, TypeOK
  <2> QED
    BY <1>2, <2>1, <2>2, VisitSteady
<1> QED
  BY <1>1, <1>2 DEF NextUser

\* Whoever comes next, it is the same event's loop.
LEMMA NextUserKeeps ==
    ASSUME NEW l \in Loop, roster \subseteq Account \cup Peer,
           NEW sockets \in [Account -> SUBSET Socket],
           NEW next, NextUser(l, sockets, next)
    PROVE  \/ next = Idle
           \/ next.event = l.event /\ next.swayed = l.swayed
<1>0. next = Idle \/ \E v \in Account \cup Peer : Visit(l, v, sockets, next)
  BY DEF NextUser, Todo
<1> SUFFICES ASSUME next # Idle PROVE next.event = l.event /\ next.swayed = l.swayed
  OBVIOUS
<1> PICK v \in Account \cup Peer : Visit(l, v, sockets, next)
  BY <1>0
<1> DEFINE n == IF v \in Peer THEN 0 ELSE Cardinality(sockets[v])
           there == [l EXCEPT !.at = v, !.seen = @ \cup {v}, !.dead = {},
                              !.cseen = {}, !.cdrift = "same", !.csize = n]
<1>1. n \in Nat
  BY Sizes
<1> HIDE DEF n
<1>2. there.event = l.event /\ there.swayed = l.swayed
  BY DEF Loop
<1>3. next = there \/ \E s \in Socket : next \in Send(there, s)
  BY DEF Visit, n
<1>4. there \in Loop
  BY <1>1, BeginForwards DEF Forwarding
<1> HIDE DEF there
<1> QED
  BY <1>2, <1>3, <1>4, SendFields

\* A step of the listener keeps what SteadyInv says if the loops it leaves do.
LEMMA HeardSteady ==
    ASSUME DeliveryInv, SteadyInv, [Next]_clientVars, topic' = topic, steady' = StillSteady,
           loop'.event # None /\ ~loop'.swayed =>
              Undrifted(loop)' /\ \A s \in steady[loop'.event] : Got(loop', s),
           loop' \in Loop
    PROVE  SteadyInv'
<1>1. Registered'
  BY RegisteredStays DEF SteadyInv, DeliveryInv, ClientInv
<1>2. \A e \in Event : \A s \in steady'[e] : s \in Served' /\ Addressed(e, s)'
  BY StillServed
<1>3. ASSUME loop'.event # None, ~loop'.swayed, NEW s \in steady'[loop'.event]
      PROVE  Got(loop, s)'
  <2>1. loop'.event \in Event
    BY <1>3 DEF Loop
  <2>2. s \in steady[loop'.event] /\ owner'[s] = owner[s]
    BY <1>3, <2>1, StillServed
  <2> QED
    BY <1>3, <2>2 DEF Got
<1> QED
  BY <1>1, <1>2, <1>3 DEF SteadyInv

LEMMA TakeSteady ==
    ASSUME DeliveryInv, SteadyInv, Take PROVE SteadyInv'
<1>1. [Next]_clientVars /\ DeliveryInv'
  BY ListenForwards DEF Listen
<1>2. loop' \in Loop
  BY <1>1 DEF DeliveryInv, ForwardInv, Forwarding
<1> DEFINE e == Head(line)
           l == [Idle EXCEPT !.event = e, !.size = Cardinality(roster)]
<1>3. e \in Event /\ topic[e] \in Topic
  BY DEF Take, DeliveryInv, ForwardInv
<1>4. Cardinality(roster) \in Nat
  BY Sizes DEF DeliveryInv, ClientInv, TypeOK
<1>5. /\ l \in Loop /\ l.event = e /\ l.size = Cardinality(roster) /\ l.drift = "same"
      /\ l.seen = {} /\ l.swayed = FALSE /\ l.got = [s \in Socket |-> 0]
  BY <1>3, <1>4 DEF Idle, Loop, Drift
<1>6. /\ steady[e] \in SUBSET Served
      /\ \A s \in steady[e] : s \in Socket /\ s \in conns[owner[s]] /\ Addressed(e, s)
  BY <1>3 DEF SteadyInv, Served
<1>7. /\ UNCHANGED <<clientVars, topic>> /\ steady' = StillSteady
      /\ \/ topic[e] = Room /\ NextUser(l, conns, loop')
         \/ topic[e] # Room /\ conns[topic[e]] = {} /\ loop' = Idle
         \/ topic[e] # Room /\ conns[topic[e]] # {} /\ Visit(l, topic[e], conns, loop')
  BY DEF Take
<1>8. conns \in [Account -> SUBSET Socket] /\ conns' = conns /\ roster' = roster
  BY <1>7 DEF DeliveryInv, ClientInv, TypeOK, clientVars, registry
<1> HIDE DEF e, l
<1>9. \A s \in steady[e] : l.got[s] = IF owner[s] \in l.seen THEN 1 ELSE 0
  BY <1>5, <1>6
<1>0. Within(conns) /\ Between(l, steady[e])
  BY <1>3, <1>5, <1>8, <1>9 DEF Within, Between
<1>10. Idle.event = None
  BY DEF Idle
<1>11. CASE topic[e] = Room /\ NextUser(l, conns, loop')
  <2>2. CASE loop' # Idle
    <3>0. PICK v : Visiting(l, v, conns, steady[e], loop')
      BY <1>0, <1>5, <1>6, <1>11, <2>2, NextUserSteady
    <3>1. /\ loop'.event = e /\ loop'.drift = "same" /\ loop'.cdrift = "same"
          /\ loop'.size = Cardinality(roster) /\ loop'.at \in loop'.seen
          /\ loop'.at \in Account => loop'.csize = Cardinality(conns[loop'.at])
          /\ \A s \in steady[e] : Got(loop', s)
      BY <1>5, <3>0 DEF Visiting
    <3>2. Undrifted(loop)'
      BY <1>7, <1>8, <1>11, <3>1 DEF Undrifted
    <3> QED
      BY <1>1, <1>2, <1>7, <3>1, <3>2, HeardSteady
  <2>3. CASE loop' = Idle
    BY <1>1, <1>2, <1>7, <1>10, <2>3, HeardSteady
  <2> QED
    BY <2>2, <2>3
<1>12. CASE topic[e] # Room /\ conns[topic[e]] = {} /\ loop' = Idle
  BY <1>1, <1>2, <1>7, <1>10, <1>12, HeardSteady
<1>13. CASE topic[e] # Room /\ conns[topic[e]] # {} /\ Visit(l, topic[e], conns, loop')
  <2>1. topic[e] \in Account
    BY <1>3, <1>13 DEF Topic
  <2>2. /\ loop'.event = e /\ loop'.drift = "same" /\ loop'.cdrift = "same"
        /\ loop'.at = topic[e] /\ topic[e] \in loop'.seen
        /\ topic[e] \in Account => loop'.csize = Cardinality(conns[topic[e]])
        /\ \A s \in steady[e] : Got(loop', s)
    <3>1. Visiting(l, topic[e], conns, steady[e], loop')
      BY <1>0, <1>5, <1>6, <1>13, <2>1, VisitSteady
    <3> QED
      BY <1>5, <3>1 DEF Visiting
  <2>3. Undrifted(loop)'
    BY <1>7, <1>8, <1>13, <2>2 DEF Undrifted
  <2> QED
    BY <1>1, <1>2, <1>7, <2>2, <2>3, HeardSteady
<1> QED
  BY <1>7, <1>11, <1>12, <1>13

LEMMA SendSteady ==
    ASSUME DeliveryInv, SteadyInv, NEW r \in Socket, SendNext(r) PROVE SteadyInv'
<1>1. [Next]_clientVars /\ DeliveryInv'
  BY ListenForwards DEF Listen
<1>2. loop \in Loop /\ loop' \in Loop
  BY <1>1 DEF DeliveryInv, ForwardInv, Forwarding
<1>3. /\ loop.at \in Account /\ r \in conns[loop.at] /\ r \notin loop.cseen
      /\ loop' \in Send(loop, r) /\ UNCHANGED <<clientVars, topic>> /\ steady' = StillSteady
  BY DEF SendNext
<1>4. conns' = conns /\ roster' = roster
  BY <1>3 DEF clientVars, registry
<1>5. owner[r] = loop.at
  BY <1>3 DEF SteadyInv, Registered
<1>6. /\ loop'.event = loop.event /\ loop'.drift = loop.drift /\ loop'.cdrift = loop.cdrift
      /\ loop'.swayed = loop.swayed /\ loop'.size = loop.size /\ loop'.csize = loop.csize
      /\ loop'.at = loop.at /\ loop'.seen = loop.seen
  <2> DEFINE m == loop'
             l == loop
  <2>1. l \in Loop /\ m \in Send(l, r)
    BY <1>2, <1>3
  <2> HIDE DEF m, l
  <2>2. /\ m.event = l.event /\ m.drift = l.drift /\ m.cdrift = l.cdrift
        /\ m.swayed = l.swayed /\ m.size = l.size /\ m.csize = l.csize
        /\ m.at = l.at /\ m.seen = l.seen
    BY <2>1, SendFields
  <2> QED
    BY <2>2 DEF m, l
<1>7. ASSUME loop'.event # None, ~loop'.swayed
      PROVE  Undrifted(loop)' /\ \A s \in steady[loop'.event] : Got(loop', s)
  <2>1. Undrifted(loop) /\ \A s \in steady[loop.event] : Got(loop, s)
    BY <1>6, <1>7 DEF SteadyInv
  <2>2. Undrifted(loop)'
    BY <1>3, <1>4, <1>6, <2>1 DEF Undrifted
  <2>3. loop.event \in Event
    BY <1>2, <1>6, <1>7 DEF Loop
  <2>4. \A s \in steady[loop.event] : s \in Served
    BY <2>3 DEF SteadyInv
  <2> QED
    BY <1>2, <1>3, <1>5, <1>6, <2>1, <2>2, <2>4, SendCounts
<1> QED
  BY <1>1, <1>2, <1>3, <1>7, HeardSteady

\* The loop is done with a user: the next one comes, or everybody has it.
LEMMA NextSteady ==
    ASSUME DeliveryInv, SteadyInv, EndUser \/ EndPeer
    PROVE  /\ SteadyInv'
           /\ loop'.event # loop.event /\ ~loop.swayed =>
                 \A s \in steady[loop.event] : loop.got[s] = 1
<1>1. [Next]_clientVars /\ DeliveryInv'
  BY ListenForwards DEF Listen
<1>2. loop \in Loop /\ loop' \in Loop /\ loop.dead \subseteq Deaf
  BY <1>1 DEF DeliveryInv, ForwardInv, Forwarding
<1>3. /\ topic' = topic /\ steady' = StillSteady /\ roster' = roster
      /\ NextUser(loop, conns', loop')
  BY DEF EndUser, EndPeer, Forget, clientVars, registry
<1>4. /\ conns \in [Account -> SUBSET Socket] /\ conns' \in [Account -> SUBSET Socket]
      /\ roster \subseteq Account \cup Peer
  BY <1>1 DEF DeliveryInv, ClientInv, TypeOK
<1>5. \A u \in Account : conns'[u] \subseteq conns[u] /\ conns[u] \ Deaf \subseteq conns'[u]
  BY <1>2, <1>4 DEF EndUser, EndPeer, Forget, clientVars, registry
<1>6. Idle.event = None
  BY DEF Idle
<1>7. ASSUME loop.event # None, ~loop.swayed
      PROVE  /\ Between(loop, steady[loop.event])
             /\ steady[loop.event] \in SUBSET Served
             /\ topic[loop.event] # Room =>
                   \A s \in steady[loop.event] : owner[s] \in loop.seen
             /\ \A s \in steady[loop.event] : s \in conns'[owner[s]]
  <2>1. Undrifted(loop) /\ \A s \in steady[loop.event] : Got(loop, s)
    BY <1>7 DEF SteadyInv
  <2>2. loop.event \in Event
    BY <1>2, <1>7 DEF Loop
  <2>3. ASSUME NEW s \in steady[loop.event]
        PROVE  /\ s \in Served /\ s \in Socket /\ s \notin Deaf
               /\ owner[s] \in Account /\ s \in conns[owner[s]]
               /\ Addressed(loop.event, s)
    <3>1. s \in Served /\ Addressed(loop.event, s)
      BY <2>2 DEF SteadyInv
    <3>2. s \in Socket /\ phase[s] = "open" /\ s \in conns[owner[s]]
      BY <3>1 DEF Served
    <3> QED
      BY <3>1, <3>2 DEF Deaf, Owned, DeliveryInv, ClientInv
  <2>4. ASSUME NEW s \in steady[loop.event]
        PROVE  loop.got[s] = IF owner[s] \in loop.seen THEN 1 ELSE 0
    <3>1. Got(loop, s) /\ loop.at \in loop.seen /\ loop.cdrift = "same"
      BY <2>1 DEF Undrifted
    <3>2. CASE owner[s] = loop.at
      <4>1. s \in loop.cseen
        BY <2>3, <3>1, <3>2, ClientAssumption DEF EndUser, EndPeer
      <4> QED
        BY <3>1, <3>2, <4>1 DEF Got
    <3>3. CASE owner[s] # loop.at
      BY <3>1, <3>3 DEF Got
    <3> QED
      BY <3>2, <3>3
  <2>5. Between(loop, steady[loop.event])
    BY <1>2, <2>1, <2>2, <2>4 DEF Between, Undrifted
  <2>6. topic[loop.event] # Room => \A s \in steady[loop.event] : owner[s] \in loop.seen
    BY <2>1, <2>3 DEF Undrifted, Addressed
  <2> QED
    BY <1>5, <2>3, <2>5, <2>6
<1>8. ASSUME loop.event # None, ~loop.swayed
      PROVE  \/ loop' = Idle /\ \A s \in steady[loop.event] : loop.got[s] = 1
             \/ /\ topic[loop.event] = Room
                /\ \E v : Visiting(loop, v, conns', steady[loop.event], loop')
  <2>1. Within(conns')
    BY <1>4, <1>5 DEF Within
  <2> QED
    BY <1>3, <1>7, <1>8, <2>1, NextUserSteady
<1>9. CASE loop.event # None /\ ~loop.swayed
  <2>1. CASE loop' = Idle /\ \A s \in steady[loop.event] : loop.got[s] = 1
    BY <1>1, <1>2, <1>3, <1>6, <2>1, HeardSteady
  <2>2. CASE /\ topic[loop.event] = Room
             /\ \E v : Visiting(loop, v, conns', steady[loop.event], loop')
    <3>1. Cardinality(roster) = loop.size
      BY <1>7, <1>9, <2>2 DEF Between
    <3>2. Undrifted(loop)'
      BY <1>3, <2>2, <3>1 DEF Undrifted, Visiting
    <3>3. /\ loop'.event = loop.event
          /\ \A s \in steady[loop.event] : Got(loop', s)
      BY <2>2 DEF Visiting
    <3> QED
      BY <1>1, <1>2, <1>3, <3>2, <3>3, HeardSteady
  <2> QED
    BY <1>8, <1>9, <2>1, <2>2
<1>10. \/ loop' = Idle
       \/ loop'.event = loop.event /\ loop'.swayed = loop.swayed
  BY <1>2, <1>3, <1>4, NextUserKeeps
<1>11. CASE loop.event # None /\ loop.swayed
  BY <1>1, <1>2, <1>3, <1>6, <1>10, <1>11, HeardSteady
<1>12. CASE loop.event = None
  BY <1>1, <1>2, <1>3, <1>6, <1>10, <1>12, HeardSteady
<1> QED
  BY <1>9, <1>11, <1>12

\* Once the set of the user at hand may not be iterated, a set has drifted.
LEMMA AbortSwayed ==
    ASSUME DeliveryInv, SteadyInv, Abort PROVE loop.event = None \/ loop.swayed
<1> SUFFICES ASSUME loop.event # None, ~loop.swayed PROVE FALSE
  OBVIOUS
<1>1. Undrifted(loop)
  BY DEF SteadyInv
<1> QED
  BY <1>1 DEF Abort, MayIterate, Undrifted

LEMMA AbortSteady ==
    ASSUME DeliveryInv, SteadyInv, Abort PROVE SteadyInv'
<1>1. [Next]_clientVars /\ DeliveryInv'
  BY ListenForwards DEF Listen
<1>2. topic' = topic /\ steady' = StillSteady /\ loop'.event = None /\ loop' \in Loop
  BY <1>1 DEF Abort, Idle, DeliveryInv, ForwardInv, Forwarding
<1> QED
  BY <1>1, <1>2, HeardSteady

LEMMA PublishSteady ==
    ASSUME DeliveryInv, SteadyInv, NEW e \in Event, NEW t \in Topic, Publish(e, t)
    PROVE  SteadyInv'
<1>1. [Next]_clientVars
  BY ListenForwards
<1>2. /\ loop' = loop /\ e # loop.event
      /\ UNCHANGED <<client, registry>>
      /\ topic' = [topic EXCEPT ![e] = t]
      /\ steady' = [StillSteady EXCEPT ![e] = {s \in Served : t \in {Room, owner[s]}}]
  BY DEF Publish, Published
<1>3. Served' = Served /\ owner' = owner /\ conns' = conns /\ roster' = roster
  BY <1>2 DEF Served, client, registry
<1>4. /\ topic \in [Event -> Topic] /\ steady \in [Event -> SUBSET Socket]
      /\ loop \in Loop
  BY DEF DeliveryInv, ForwardInv, Forwarding
<1>5. Registered'
  BY <1>1, RegisteredStays DEF SteadyInv, DeliveryInv, ClientInv
<1>6. ASSUME NEW d \in Event, NEW s \in steady'[d] PROVE s \in Served' /\ Addressed(d, s)'
  <2>1. CASE d = e
    <3>1. s \in Served /\ t \in {Room, owner[s]} /\ topic'[d] = t
      BY <1>2, <1>4, <1>6, <2>1 DEF StillSteady
    <3> QED
      BY <1>3, <3>1 DEF Addressed
  <2>2. CASE d # e
    <3>1. s \in StillSteady[d] /\ topic'[d] = topic[d]
      BY <1>2, <1>4, <1>6, <2>2 DEF StillSteady
    <3> QED
      BY <1>1, <3>1, StillServed
  <2> QED
    BY <2>1, <2>2
<1>7. ASSUME loop.event # None, ~loop.swayed
      PROVE  Undrifted(loop)' /\ \A s \in steady'[loop.event] : Got(loop, s)'
  <2>1. loop.event \in Event /\ topic'[loop.event] = topic[loop.event]
    BY <1>2, <1>4, <1>7 DEF Loop
  <2>2. steady'[loop.event] \subseteq steady[loop.event]
    BY <1>2, <2>1 DEF StillSteady
  <2>3. Undrifted(loop) /\ \A s \in steady[loop.event] : Got(loop, s)
    BY <1>7 DEF SteadyInv
  <2>4. Undrifted(loop)'
    BY <1>2, <1>3, <2>1, <2>3 DEF Undrifted
  <2> QED
    BY <1>2, <1>3, <2>2, <2>3, <2>4 DEF Got
<1> QED
  BY <1>2, <1>5, <1>6, <1>7 DEF SteadyInv

LEMMA SteadyStarts == DeliveryInit => SteadyInv
  BY DEF DeliveryInit, Init, SteadyInv, Registered, Idle

LEMMA SteadyStep ==
    DeliveryInv /\ SteadyInv /\ [DeliveryNext]_vars => SteadyInv'
<1> SUFFICES ASSUME DeliveryInv, SteadyInv, [DeliveryNext]_vars PROVE SteadyInv'
  OBVIOUS
<1>1. CASE ClientMoves /\ Aside
  BY <1>1, AsideSteady
<1>2. CASE Listen \/ \E e \in Event, t \in Topic : Publish(e, t)
  BY <1>2, TakeSteady, AbortSteady, SendSteady, NextSteady, PublishSteady DEF Listen
<1>3. CASE UNCHANGED vars
  <2>1. /\ UNCHANGED <<topic, steady, loop, conns, roster, owner, phase>>
    BY <1>3 DEF vars, clientVars, client, registry
  <2>2. Served' = Served
    BY <2>1 DEF Served
  <2> QED
    BY <2>1, <2>2 DEF SteadyInv, Registered, Addressed, Undrifted, Got
<1> QED
  BY <1>1, <1>2, <1>3 DEF DeliveryNext, ClientMoves

\* When the listener lets go of an event, every socket served since its
\* publication has it exactly once, unless a set changed under its loop: for any
\* number of users, sockets and events, and any order of the sends.
THEOREM DeliveredOnceAlways == DeliverySpec => DeliveredOnce
<1> DEFINE Once == loop.event # None /\ loop'.event # loop.event =>
                      \A s \in steady[loop.event] : loop.got[s] = 1 \/ loop.swayed
<1>1. DeliveryInv /\ SteadyInv /\ [DeliveryNext]_vars => [Once]_vars
  <2> SUFFICES ASSUME DeliveryInv, SteadyInv, DeliveryNext,
                      loop.event # None, loop'.event # loop.event, ~loop.swayed
               PROVE  \A s \in steady[loop.event] : loop.got[s] = 1
    OBVIOUS
  <2>1. loop \in Loop
    BY DEF DeliveryInv, ForwardInv, Forwarding
  <2>2. CASE ClientMoves /\ Aside
    BY <2>1, <2>2 DEF Aside, Drifted, Loop
  <2>3. CASE Take
    BY <2>3 DEF Take, Idle
  <2>4. CASE Abort
    BY <2>4, AbortSwayed
  <2>5. ASSUME NEW r \in Socket, SendNext(r) PROVE FALSE
    <3> DEFINE m == loop'
               l == loop
    <3>1. l \in Loop /\ m \in Send(l, r)
      BY <2>1, <2>5 DEF SendNext
    <3> HIDE DEF m, l
    <3>2. m.event = l.event
      BY <3>1, SendFields
    <3> QED
      BY <3>2 DEF m, l
  <2>6. CASE EndUser \/ EndPeer
    BY <2>6, NextSteady
  <2>7. CASE \E e \in Event, t \in Topic : Publish(e, t)
    BY <2>7 DEF Publish
  <2> QED
    BY <2>2, <2>3, <2>4, <2>5, <2>6, <2>7 DEF DeliveryNext, ClientMoves, Listen
<1>2. DeliverySpec => []SteadyInv
  BY SteadyStarts, SteadyStep, DeliveryAlways, PTL DEF DeliverySpec
<1> QED
  BY <1>1, <1>2, DeliveryAlways, PTL DEF DeliverySpec, DeliveredOnce

-----------------------------------------------------------------------------
(***************************************************************************)
(* The elements of the sequences a timeline is made of.                    *)
(***************************************************************************)

Entries(page) == {page[i] : i \in DOMAIN page}

Queue == Entries(events)

Ascends(page) == \A i, j \in DOMAIN page : i < j => page[i].id < page[j].id

LEMMA AppendEntries ==
    ASSUME NEW S, NEW q \in Seq(S), NEW n \in S
    PROVE  /\ Append(q, n) \in Seq(S)
           /\ DOMAIN q = 1 .. Len(q) /\ Len(q) \in Nat
           /\ DOMAIN Append(q, n) = 1 .. Len(q) + 1
           /\ \A i \in DOMAIN q : Append(q, n)[i] = q[i]
           /\ Append(q, n)[Len(q) + 1] = n
           /\ Entries(Append(q, n)) = Entries(q) \cup {n}
<1>1. Append(q, n) \in Seq(S) /\ Len(Append(q, n)) = Len(q) + 1
  OBVIOUS
<1>2. /\ DOMAIN q = 1 .. Len(q) /\ Len(q) \in Nat
      /\ DOMAIN Append(q, n) = 1 .. Len(q) + 1
  BY <1>1, LenProperties
<1>3. \A i \in 1 .. Len(q) : Append(q, n)[i] = q[i]
  OBVIOUS
<1>4. Append(q, n)[Len(q) + 1] = n
  OBVIOUS
<1>5. Entries(Append(q, n)) = Entries(q) \cup {n}
  BY <1>2, <1>3, <1>4 DEF Entries
<1> QED
  BY <1>1, <1>2, <1>3, <1>4, <1>5

LEMMA TailEntries ==
    ASSUME NEW S, NEW q \in Seq(S), q # <<>>
    PROVE  /\ Tail(q) \in Seq(S)
           /\ Head(q) \in S /\ Head(q) \in Entries(q)
           /\ Entries(Tail(q)) \subseteq Entries(q)
           /\ Entries(q) \subseteq Entries(Tail(q)) \cup {Head(q)}
           /\ DOMAIN q = 1 .. Len(q) /\ Len(q) \in Nat /\ 1 \in DOMAIN q /\ Head(q) = q[1]
           /\ DOMAIN Tail(q) = 1 .. Len(q) - 1
           /\ \A i \in DOMAIN Tail(q) : i + 1 \in DOMAIN q /\ Tail(q)[i] = q[i + 1]
<1>1. /\ Len(q) \in Nat /\ Len(q) # 0
      /\ DOMAIN q = 1 .. Len(q)
  BY LenProperties, EmptySeq
<1>2. /\ Head(q) \in S /\ Tail(q) \in Seq(S) /\ Len(Tail(q)) = Len(q) - 1
      /\ \A i \in 1 .. Len(Tail(q)) : Tail(q)[i] = q[i + 1]
  BY HeadTailProperties
<1>3. DOMAIN Tail(q) = 1 .. Len(q) - 1
  BY <1>2, LenProperties
<1>4. Head(q) = q[1] /\ 1 \in DOMAIN q
  BY <1>1
<1>5. \A i \in DOMAIN Tail(q) : i + 1 \in DOMAIN q /\ Tail(q)[i] = q[i + 1]
  BY <1>1, <1>2, <1>3
<1>6. \A i \in DOMAIN q : i = 1 \/ (i - 1 \in DOMAIN Tail(q) /\ Tail(q)[i - 1] = q[i])
  BY <1>1, <1>2, <1>3
<1>7. Entries(q) \subseteq Entries(Tail(q)) \cup {Head(q)}
  BY <1>4, <1>6 DEF Entries
<1>8. Entries(Tail(q)) \subseteq Entries(q) /\ Head(q) \in Entries(q)
  BY <1>4, <1>5 DEF Entries
<1> QED
  BY <1>1, <1>2, <1>3, <1>4, <1>5, <1>7, <1>8

LEMMA ConcatEntries ==
    ASSUME NEW S, NEW p \in Seq(S), NEW q \in Seq(S)
    PROVE  /\ p \o q \in Seq(S)
           /\ Entries(p \o q) = Entries(p) \cup Entries(q)
           /\ \A i, j \in DOMAIN (p \o q) : i < j =>
                 \/ \E a, b \in DOMAIN p : a < b /\ (p \o q)[i] = p[a] /\ (p \o q)[j] = p[b]
                 \/ \E a, b \in DOMAIN q : a < b /\ (p \o q)[i] = q[a] /\ (p \o q)[j] = q[b]
                 \/ \E a \in DOMAIN p, b \in DOMAIN q : (p \o q)[i] = p[a] /\ (p \o q)[j] = q[b]
<1>1. /\ Len(p) \in Nat /\ Len(q) \in Nat
      /\ DOMAIN p = 1 .. Len(p) /\ DOMAIN q = 1 .. Len(q)
  BY LenProperties
<1>2. /\ p \o q \in Seq(S) /\ Len(p \o q) = Len(p) + Len(q)
      /\ \A i \in 1 .. Len(p) + Len(q) :
            (p \o q)[i] = IF i <= Len(p) THEN p[i] ELSE q[i - Len(p)]
  BY ConcatProperties
<1>3. DOMAIN (p \o q) = 1 .. Len(p) + Len(q)
  BY <1>2, LenProperties
<1>4. PICK r : r = p \o q
  OBVIOUS
<1>5. \A i \in DOMAIN r : \/ i \in DOMAIN p /\ r[i] = p[i] /\ i <= Len(p)
                          \/ i - Len(p) \in DOMAIN q /\ r[i] = q[i - Len(p)] /\ i > Len(p)
  BY <1>1, <1>2, <1>3, <1>4
<1>6. \A i \in DOMAIN p : i \in DOMAIN r /\ r[i] = p[i]
  BY <1>1, <1>2, <1>3, <1>4
<1>7. \A i \in DOMAIN q : i + Len(p) \in DOMAIN r /\ r[i + Len(p)] = q[i]
  BY <1>1, <1>2, <1>3, <1>4
<1>8. Entries(r) = Entries(p) \cup Entries(q)
  <2>1. Entries(r) \subseteq Entries(p) \cup Entries(q)
    BY <1>5 DEF Entries
  <2>2. Entries(p) \subseteq Entries(r)
    BY <1>6 DEF Entries
  <2>3. Entries(q) \subseteq Entries(r)
    BY <1>7 DEF Entries
  <2> QED
    BY <2>1, <2>2, <2>3
<1>9. ASSUME NEW i \in DOMAIN r, NEW j \in DOMAIN r, i < j
      PROVE  \/ \E a, b \in DOMAIN p : a < b /\ r[i] = p[a] /\ r[j] = p[b]
             \/ \E a, b \in DOMAIN q : a < b /\ r[i] = q[a] /\ r[j] = q[b]
             \/ \E a \in DOMAIN p, b \in DOMAIN q : r[i] = p[a] /\ r[j] = q[b]
  <2>1. i \in Nat /\ j \in Nat
    BY <1>1, <1>3, <1>4
  <2>2. CASE j <= Len(p)
    <3>1. i \in DOMAIN p /\ j \in DOMAIN p /\ r[i] = p[i] /\ r[j] = p[j]
      BY <1>1, <1>5, <1>9, <2>1, <2>2
    <3> QED
      BY <1>9, <3>1
  <2>3. CASE i > Len(p)
    <3>1. /\ i - Len(p) \in DOMAIN q /\ j - Len(p) \in DOMAIN q
          /\ r[i] = q[i - Len(p)] /\ r[j] = q[j - Len(p)]
          /\ i - Len(p) < j - Len(p)
      BY <1>1, <1>5, <1>9, <2>1, <2>3
    <3> QED
      BY <3>1
  <2>4. CASE i <= Len(p) /\ j > Len(p)
    BY <1>1, <1>5, <1>9, <2>1, <2>4
  <2> QED
    BY <1>1, <1>9, <2>1, <2>2, <2>3, <2>4
<1> QED
  BY ZenonT(60), <1>2, <1>4, <1>8, <1>9

LEMMA AscendingIs ==
    ASSUME NEW numbers, IsFiniteSet(numbers), NEW f \in Ascending(numbers)
    PROVE  /\ Cardinality(numbers) \in Nat
           /\ f \in [1 .. Cardinality(numbers) -> numbers] /\ f \in Seq(numbers)
           /\ DOMAIN f = 1 .. Cardinality(numbers)
           /\ \A i, j \in DOMAIN f : i < j => f[i] < f[j]
           /\ \A i \in DOMAIN f : f[i] \in numbers
           /\ \A n \in numbers : \E i \in DOMAIN f : f[i] = n
<1>1. Cardinality(numbers) \in Nat
  BY FS_CardinalityType
<1> QED
  BY <1>1, SeqDef DEF Ascending

\* A sequence made of one thing for each number of a finite set.
LEMMA MappedEntries ==
    ASSUME NEW S, NEW numbers, IsFiniteSet(numbers), NEW f \in Ascending(numbers),
           NEW g \in [numbers -> S],
           NEW r, r = [i \in DOMAIN f |-> g[f[i]]]
    PROVE  /\ r \in Seq(S)
           /\ DOMAIN r = DOMAIN f
           /\ Entries(r) = {g[n] : n \in numbers}
<1>1. /\ Cardinality(numbers) \in Nat
      /\ DOMAIN f = 1 .. Cardinality(numbers)
      /\ \A i \in DOMAIN f : f[i] \in numbers
      /\ \A n \in numbers : \E i \in DOMAIN f : f[i] = n
  BY AscendingIs
<1>2. r \in [1 .. Cardinality(numbers) -> S]
  BY <1>1
<1>3. r \in Seq(S)
  BY <1>1, <1>2, SeqDef
<1>4. Entries(r) = {g[n] : n \in numbers}
  BY <1>1 DEF Entries
<1> QED
  BY <1>3, <1>4

-----------------------------------------------------------------------------
(***************************************************************************)
(* What the steps do to the queue, the list and the pages.                 *)
(***************************************************************************)

LoadState == [stage : {"idle", "requested", "decrypting"},
              kind : {"page", "more"}, before : 0 .. MaxMessages + 1,
              page : Seq(Entry), read : Nat, more : BOOLEAN]

NoticeOf(kind, m) == [kind |-> kind, id |-> m]

EntryOf(m, v, b) == [id |-> m, version |-> v, pushed |-> b]

LEMMA IdsAre == \A page : Ids(page) = {e.id : e \in Entries(page)}
BY DEF Ids, Entries

LEMMA IdIs ==
    /\ MaxMessages \in Nat
    /\ Id \subseteq Nat
    /\ IsFiniteSet(Id)
    /\ \A m \in Id : m < MaxMessages + 1
<1>1. MaxMessages \in Nat
  BY ChatTimelineAssumption
<1> QED
  BY <1>1, FS_Interval DEF Id

LEMMA EntryIs ==
    ASSUME NEW e \in Entry
    PROVE  /\ e.id \in Id /\ e.version \in {0, 1, Unreadable}
           /\ e = EntryOf(e.id, e.version, e.pushed)
BY DEF Entry, EntryOf

LEMMA EntryOfIs ==
    ASSUME NEW m \in Id, NEW v \in {0, 1, Unreadable}, NEW b \in BOOLEAN
    PROVE  /\ EntryOf(m, v, b) \in Entry
           /\ EntryOf(m, v, b).id = m /\ EntryOf(m, v, b).version = v
BY DEF Entry, EntryOf

LEMMA NoticeOfIs ==
    /\ \A kind \in Kind, m \in Id : /\ NoticeOf(kind, m) \in Notice
                                    /\ NoticeOf(kind, m).kind = kind
                                    /\ NoticeOf(kind, m).id = m
    /\ \A n \in Notice : n.kind \in Kind /\ n.id \in Id /\ n = NoticeOf(n.kind, n.id)
BY DEF Notice, NoticeOf

LEMMA NotifyIs ==
    ASSUME TimelineTypeOK, NEW kind \in Kind, NEW m \in Id, Notify(kind, m)
    PROVE  /\ UNCHANGED connected
           /\ \/ /\ connected /\ events' = Append(events, NoticeOf(kind, m))
                 /\ events' \in Seq(Notice)
                 /\ Queue' = Queue \cup {NoticeOf(kind, m)} /\ UNCHANGED misled
              \/ /\ UNCHANGED events
                 /\ Queue' = Queue /\ misled' = misled \cup {m}
<1>1. CASE connected
  <2>1. /\ events' = Append(events, NoticeOf(kind, m))
        /\ UNCHANGED <<connected, misled>>
    BY <1>1 DEF Notify, NoticeOf
  <2>2. events \in Seq(Notice) /\ NoticeOf(kind, m) \in Notice
    BY NoticeOfIs DEF TimelineTypeOK
  <2>3. /\ Append(events, NoticeOf(kind, m)) \in Seq(Notice)
        /\ Entries(Append(events, NoticeOf(kind, m))) = Entries(events) \cup {NoticeOf(kind, m)}
    BY <2>2, AppendEntries
  <2> QED
    BY <1>1, <2>1, <2>3 DEF Queue
<1>2. CASE ~ connected
  BY <1>2 DEF Notify, Queue, socket
<1> QED
  BY <1>1, <1>2

\* addMessage: the entry is there, or is put at the end.
LEMMA AddIs ==
    ASSUME TimelineTypeOK, NEW m \in Id, NEW v \in {0, Unreadable}, NEW b \in BOOLEAN,
           AddMessage(EntryOf(m, v, b))
    PROVE  /\ UNCHANGED hasMore
           /\ \/ m \in Listed /\ UNCHANGED <<exists, list, late>>
              \/ /\ m \notin Listed
                 /\ exists' = TRUE /\ list' = Append(list, EntryOf(m, v, b))
                 /\ list' \in Seq(Entry)
                 /\ Entries(list') = Entries(list) \cup {EntryOf(m, v, b)}
                 /\ Ids(list') = Listed \cup {m}
                 /\ \/ Behind(m) /\ late' = late \cup {m}
                    \/ ~ Behind(m) /\ late' = late
<1>1. EntryOf(m, v, b) \in Entry /\ EntryOf(m, v, b).id = m
  BY EntryOfIs
<1>2. CASE m \in Listed
  BY <1>1, <1>2 DEF AddMessage, store
<1>3. CASE m \notin Listed
  <2>1. /\ exists' = TRUE /\ list' = Append(list, EntryOf(m, v, b))
        /\ late' = IF Behind(m) THEN late \cup {m} ELSE late
        /\ UNCHANGED hasMore
    BY <1>1, <1>3 DEF AddMessage
  <2>2. list \in Seq(Entry)
    BY DEF TimelineTypeOK
  <2>3. list' \in Seq(Entry) /\ Entries(list') = Entries(list) \cup {EntryOf(m, v, b)}
    BY <1>1, <2>1, <2>2, AppendEntries
  <2>4. Ids(list') = Listed \cup {m}
    BY <1>1, <2>3, IdsAre DEF Listed
  <2> QED
    BY <1>3, <2>1, <2>3, <2>4
<1> QED
  BY <1>2, <1>3

\* What a push or an answer shows: a text, or a placeholder of an encrypted message.
LEMMA ShowsIs ==
    ASSUME NEW m \in Id, Decrypted(m) \/ Answered(m)
    PROVE  \E v \in {0, Unreadable}, b \in BOOLEAN :
              /\ AddMessage(EntryOf(m, v, b))
              /\ v = Unreadable => m \in Sealed
<1>1. CASE Decrypted(m)
  <2>1. PICK v \in IF m \in Sealed THEN {0, Unreadable} ELSE {0} :
           AddMessage([id |-> m, version |-> v, pushed |-> TRUE])
    BY <1>1 DEF Decrypted
  <2>2. v \in {0, Unreadable} /\ (v = Unreadable => m \in Sealed)
    BY <2>1 DEF Unreadable
  <2> QED
    BY <2>1, <2>2 DEF EntryOf
<1>2. CASE Answered(m)
  <2>1. AddMessage(EntryOf(m, 0, FALSE))
    BY <1>2 DEF Answered, EntryOf
  <2>2. 0 # Unreadable
    BY DEF Unreadable
  <2> QED
    BY <2>1, <2>2
<1> QED
  BY <1>1, <1>2

\* removeMessage: the entries kept, in their order.
LEMMA RemovedIs ==
    ASSUME TimelineTypeOK, NEW m,
           NEW kept \in Ascending({i \in DOMAIN list : list[i].id # m}),
           list' = [i \in DOMAIN kept |-> list[kept[i]]]
    PROVE  /\ list' \in Seq(Entry)
           /\ Entries(list') = {e \in Entries(list) : e.id # m}
           /\ \A i, j \in DOMAIN list' : i < j =>
                 \E a, b \in DOMAIN list : a < b /\ list'[i] = list[a] /\ list'[j] = list[b]
<1> DEFINE rest == {i \in DOMAIN list : list[i].id # m}
<1>1. /\ list \in Seq(Entry) /\ DOMAIN list = 1 .. Len(list) /\ Len(list) \in Nat
      /\ \A i \in DOMAIN list : list[i] \in Entry
  BY LenProperties, ElementOfSeq DEF TimelineTypeOK
<1>2. IsFiniteSet(rest)
  <2>1. IsFiniteSet(DOMAIN list)
    BY <1>1, FS_Interval
  <2> QED
    BY <2>1, FS_Subset
<1>3. PICK g \in [rest -> Entry] : \A i \in rest : g[i] = list[i]
  <2>1. [i \in rest |-> list[i]] \in [rest -> Entry]
    BY <1>1
  <2> QED
    BY <2>1
<1>4. /\ \A i \in DOMAIN kept : kept[i] \in rest
      /\ \A i, j \in DOMAIN kept : i < j => kept[i] < kept[j]
  BY <1>2, AscendingIs
<1>5. list' = [i \in DOMAIN kept |-> g[kept[i]]]
  BY <1>3, <1>4
<1>6. kept \in Ascending(rest)
  OBVIOUS
<1> HIDE DEF rest
<1>7. list' \in Seq(Entry) /\ DOMAIN list' = DOMAIN kept /\ Entries(list') = {g[n] : n \in rest}
  BY <1>2, <1>5, <1>6, MappedEntries
<1>8. Entries(list') = {e \in Entries(list) : e.id # m}
  <2>1. rest = {i \in DOMAIN list : list[i].id # m}
    BY DEF rest
  <2>2. ASSUME NEW e \in Entries(list')
        PROVE  e \in Entries(list) /\ e.id # m
    <3>1. PICK n \in rest : e = g[n]
      BY <1>7, <2>2
    <3> QED
      BY <1>3, <2>1, <3>1 DEF Entries
  <2>3. ASSUME NEW e \in Entries(list), e.id # m
        PROVE  e \in Entries(list')
    <3>1. PICK n \in DOMAIN list : e = list[n]
      BY DEF Entries
    <3>2. n \in rest /\ e = g[n]
      BY <1>3, <2>1, <2>3, <3>1
    <3> QED
      BY <1>7, <3>2
  <2> QED
    BY <2>2, <2>3
<1>9. \A i, j \in DOMAIN list' : i < j =>
         \E a, b \in DOMAIN list : a < b /\ list'[i] = list[a] /\ list'[j] = list[b]
  BY <1>4, <1>7 DEF rest
<1> QED
  BY <1>7, <1>8, <1>9

EditedEntry(e, m) == IF e.id = m THEN [e EXCEPT !.version = 1] ELSE e

\* updateMessage: the entries in their places, with the new text.
LEMMA EditedIs ==
    ASSUME TimelineTypeOK, NEW m,
           list' = [i \in DOMAIN list |->
                      IF list[i].id = m THEN [list[i] EXCEPT !.version = 1] ELSE list[i]]
    PROVE  /\ list' \in Seq(Entry)
           /\ DOMAIN list' = DOMAIN list
           /\ \A i \in DOMAIN list : list'[i] = EditedEntry(list[i], m)
           /\ Entries(list') = {EditedEntry(e, m) : e \in Entries(list)}
           /\ \A e \in Entries(list) : EditedEntry(e, m).id = e.id
           /\ Ids(list') = Listed
<1>1. /\ list \in Seq(Entry) /\ DOMAIN list = 1 .. Len(list) /\ Len(list) \in Nat
      /\ \A i \in DOMAIN list : list[i] \in Entry
  BY LenProperties, ElementOfSeq DEF TimelineTypeOK
<1>2. \A e \in Entry : EditedEntry(e, m) \in Entry /\ EditedEntry(e, m).id = e.id
  BY DEF EditedEntry, Entry
<1>3. list' = [i \in 1 .. Len(list) |-> EditedEntry(list[i], m)]
  BY <1>1 DEF EditedEntry
<1>4. list' \in [1 .. Len(list) -> Entry]
  BY <1>1, <1>2, <1>3
<1>5. list' \in Seq(Entry)
  BY <1>1, <1>4, SeqDef
<1>6. DOMAIN list' = DOMAIN list /\ \A i \in DOMAIN list : list'[i] = EditedEntry(list[i], m)
  BY <1>1, <1>3
<1>7. Entries(list') = {EditedEntry(e, m) : e \in Entries(list)}
  BY <1>6 DEF Entries
<1>8. \A e \in Entries(list) : EditedEntry(e, m).id = e.id
  BY <1>1, <1>2 DEF Entries
<1>9. Ids(list') = Listed
  <2>1. Ids(list') = {e.id : e \in Entries(list')} /\ Listed = {e.id : e \in Entries(list)}
    BY IdsAre DEF Listed
  <2>2. \A e \in Entries(list') : \E d \in Entries(list) : e.id = d.id
    BY <1>7, <1>8
  <2>3. \A d \in Entries(list) : \E e \in Entries(list') : e.id = d.id
    BY <1>7, <1>8
  <2>4. {e.id : e \in Entries(list')} \subseteq {e.id : e \in Entries(list)}
    BY <2>2
  <2>5. {e.id : e \in Entries(list)} \subseteq {e.id : e \in Entries(list')}
    BY <2>3
  <2> QED
    BY <2>1, <2>4, <2>5
<1> QED
  BY <1>5, <1>6, <1>7, <1>8, <1>9

\* One load goes on to l, and the others stay.
LoadTo(s, l) ==
    /\ l \in LoadState
    /\ load' \in [Slot -> LoadState]
    /\ load'[s] = l
    /\ \A r \in Slot \ {s} : load'[r] = load[r]

\* What is shown of an entry that is decrypted is what it had, unless it is encrypted:
\* a placeholder, or the text the cache has kept.
Reread(e, d) ==
    /\ e.id = d.id
    /\ e.version = 1 => d.version = 1
    /\ e.version = 0 => d.version = 0 \/ e.id \in outdated'
    /\ e.version = Unreadable => d.version = Unreadable \/ e.id \in Sealed

LEMMA LoadIs ==
    ASSUME TimelineTypeOK
    PROVE  /\ load \in [Slot -> LoadState]
           /\ NoLoad \in LoadState
           /\ NoLoad.stage = "idle" /\ NoLoad.kind = "page" /\ NoLoad.before = 0
           /\ NoLoad.page = <<>> /\ NoLoad.more = FALSE
<1>1. load \in [Slot -> LoadState]
  BY DEF TimelineTypeOK, LoadState
<1>2. <<>> \in Seq(Entry) /\ 0 \in 0 .. MaxMessages + 1
  BY EmptySeq, IdIs
<1> QED
  BY <1>1, <1>2 DEF NoLoad, LoadState

LEMMA LoadEffect ==
    ASSUME TimelineTypeOK, NEW s \in Slot, NEW l \in LoadState,
           load' = [load EXCEPT ![s] = l]
    PROVE  LoadTo(s, l)
BY LoadIs DEF LoadTo

LEMMA RequestIs ==
    ASSUME TimelineTypeOK, NEW s \in Slot, NEW kind \in {"page", "more"},
           NEW before \in 0 .. MaxMessages + 1, Request(s, kind, before)
    PROVE  \E l : /\ LoadTo(s, l)
                  /\ load[s].stage = "idle"
                  /\ l.stage = "requested" /\ l.kind = kind /\ l.before = before
                  /\ l.page = <<>>
<1>1. PICK l : l = [NoLoad EXCEPT !.stage = "requested", !.kind = kind, !.before = before]
  OBVIOUS
<1>2. /\ l \in LoadState
      /\ l.stage = "requested" /\ l.kind = kind /\ l.before = before /\ l.page = <<>>
  BY <1>1, LoadIs DEF LoadState
<1>3. load[s].stage = "idle" /\ load' = [load EXCEPT ![s] = l]
  BY <1>1 DEF Request
<1> QED
  BY <1>2, <1>3, LoadEffect

\* One entry of a page is decrypted: the page keeps its messages in their places.
LEMMA EntryDecryptedIs ==
    ASSUME TimelineTypeOK, NEW s \in Slot, EntryDecrypted(s)
    PROVE  \E l : /\ LoadTo(s, l)
                  /\ load[s].stage = "decrypting" /\ l.stage = "decrypting"
                  /\ l.kind = load[s].kind /\ l.before = load[s].before
                  /\ l.more = load[s].more
                  /\ DOMAIN l.page = DOMAIN load[s].page
                  /\ \A i \in DOMAIN l.page : Reread(l.page[i], load[s].page[i])
                  /\ outdated \subseteq outdated'
<1>1. PICK i, entry : i = load[s].read + 1 /\ entry = load[s].page[i]
  OBVIOUS
<1>2. load[s].stage = "decrypting" /\ i \in DOMAIN load[s].page
  BY <1>1 DEF EntryDecrypted
<1>3. PICK text \in TextsOf(entry) :
         /\ load' = [load EXCEPT ![s] = [@ EXCEPT !.page[i].version = text, !.read = i]]
         /\ outdated' = IF text = 0 /\ entry.version # 0
                        THEN outdated \cup {entry.id} ELSE outdated
  BY <1>1 DEF EntryDecrypted
<1>4. /\ load[s] \in LoadState /\ load[s].page \in Seq(Entry)
      /\ DOMAIN load[s].page = 1 .. Len(load[s].page) /\ Len(load[s].page) \in Nat
      /\ \A j \in DOMAIN load[s].page : load[s].page[j] \in Entry
  <2>1. load[s] \in LoadState
    BY LoadIs
  <2>2. load[s].page \in Seq(Entry)
    BY <2>1 DEF LoadState
  <2> QED
    BY <2>1, <2>2, LenProperties, ElementOfSeq
<1>5. entry \in Entry /\ i \in Nat
  BY <1>1, <1>2, <1>4
<1>6. /\ text \in {0, 1, Unreadable}
      /\ text = 1 => entry.version = 1
      /\ text = 0 => entry.version = 0 \/ entry.id \in outdated'
      /\ text = Unreadable => entry.version = Unreadable \/ entry.id \in Sealed
  BY <1>3, <1>5, EntryIs DEF TextsOf, Unreadable
<1>7. PICK read : read = [entry EXCEPT !.version = text]
  OBVIOUS
<1>8. read \in Entry /\ read.id = entry.id /\ read.version = text
  BY <1>5, <1>6, <1>7 DEF Entry
<1>9. PICK page : page = [load[s].page EXCEPT ![i] = read]
  OBVIOUS
<1>10. /\ page \in Seq(Entry) /\ DOMAIN page = DOMAIN load[s].page
       /\ page[i] = read
       /\ \A j \in DOMAIN page : j # i => page[j] = load[s].page[j]
  <2>1. page \in [1 .. Len(load[s].page) -> Entry]
    BY <1>4, <1>8, <1>9
  <2> QED
    BY <1>2, <1>4, <1>9, <2>1, SeqDef
<1>11. \A j \in DOMAIN page : Reread(page[j], load[s].page[j])
  BY <1>1, <1>6, <1>8, <1>10 DEF Reread
<1>12. PICK l : l = [load[s] EXCEPT !.page = page, !.read = i]
  OBVIOUS
<1>13. /\ l \in LoadState /\ l.stage = load[s].stage /\ l.kind = load[s].kind
       /\ l.before = load[s].before /\ l.more = load[s].more /\ l.page = page
  BY <1>4, <1>5, <1>10, <1>12 DEF LoadState
<1>14. l = [load[s] EXCEPT !.page[i].version = text, !.read = i]
  BY <1>1, <1>7, <1>9, <1>12
<1>15. load' = [load EXCEPT ![s] = l]
  BY <1>3, <1>14
<1>16. LoadTo(s, l)
  BY <1>13, <1>15, LoadEffect
<1> QED
  BY <1>2, <1>3, <1>10, <1>11, <1>13, <1>16

\* The same messages in the same places, in the same order.
LEMMA RereadIds ==
    ASSUME NEW p, NEW q, DOMAIN p = DOMAIN q, \A i \in DOMAIN p : Reread(p[i], q[i])
    PROVE  /\ Ids(p) = Ids(q)
           /\ Ascends(q) => Ascends(p)
<1>1. \A i \in DOMAIN p : p[i].id = q[i].id
  BY DEF Reread
<1> QED
  BY <1>1 DEF Ids, Ascends

LEMMA OlderIs ==
    ASSUME NEW s \in Slot
    PROVE  /\ IsFiniteSet(Newest(Older(s))) /\ IsFiniteSet(Older(s))
           /\ Newest(Older(s)) \subseteq Older(s)
           /\ Older(s) \subseteq Id
           /\ \A m \in Older(s) : post[m] = "committed" /\ m < load[s].before
BY IdIs, FS_Subset DEF Older, Newest

\* What is left out of a page is older than all of it.
LEMMA NewestAbove ==
    ASSUME NEW ids, ids \subseteq Id, NEW m \in ids, m \notin Newest(ids),
           NEW n \in Newest(ids)
    PROVE  m < n
<1>1. IsFiniteSet(ids) /\ n \in ids /\ m \in Nat /\ n \in Nat /\ ids \subseteq Nat
  BY IdIs, FS_Subset DEF Newest
<1> DEFINE above(k) == {x \in ids : x > k}
<1>2. /\ IsFiniteSet(above(m)) /\ IsFiniteSet(above(n))
      /\ Cardinality(above(m)) \in Nat /\ Cardinality(above(n)) \in Nat
  BY <1>1, FS_Subset, FS_CardinalityType
<1>3. Cardinality(above(n)) < PageSize /\ ~ (Cardinality(above(m)) < PageSize)
  BY DEF Newest
<1>4. ASSUME n <= m
      PROVE  FALSE
  <2>1. above(m) \subseteq above(n)
    <3>1. \A x \in ids : x > m => x > n
      BY <1>1, <1>4
    <3> QED
      BY <3>1
  <2>2. Cardinality(above(m)) <= Cardinality(above(n))
    BY <1>2, <2>1, FS_Subset
  <2> HIDE DEF above
  <2> QED
    BY <1>2, <1>3, <2>2, ChatTimelineAssumption
<1> QED
  BY <1>1, <1>4

LEMMA PageReadIs ==
    ASSUME TimelineTypeOK, NEW s \in Slot, PageRead(s)
    PROVE  \E l : /\ LoadTo(s, l)
                  /\ load[s].stage = "requested"
                  /\ l.stage = "decrypting" /\ l.kind = load[s].kind
                  /\ l.before = load[s].before
                  /\ Ascends(l.page)
                  /\ Entries(l.page) = {EntryOf(m, version[m], FALSE) : m \in Newest(Older(s))}
                  /\ Ids(l.page) = Newest(Older(s))
                  /\ l.more = (Newest(Older(s)) # Older(s))
<1>1. PICK numbers : numbers = Newest(Older(s))
  OBVIOUS
<1>2. IsFiniteSet(numbers) /\ numbers \subseteq Id
  BY <1>1, OlderIs
<1>3. PICK ids \in Ascending(numbers) : AnswerPage(s, ids, numbers # Older(s))
  BY <1>1 DEF PageRead
<1>4. PICK g : g = [m \in numbers |-> EntryOf(m, version[m], FALSE)]
  OBVIOUS
<1>5. \A m \in numbers : /\ g[m] = EntryOf(m, version[m], FALSE)
                         /\ g[m] \in Entry /\ g[m].id = m
  <2>1. \A m \in numbers : m \in Id /\ version[m] \in {0, 1}
    BY <1>2 DEF TimelineTypeOK
  <2>2. \A m \in numbers : /\ EntryOf(m, version[m], FALSE) \in Entry
                           /\ EntryOf(m, version[m], FALSE).id = m
    BY <2>1, EntryOfIs
  <2> QED
    BY <1>4, <2>2
<1>6. g \in [numbers -> Entry]
  BY <1>4, <1>5
<1>7. /\ \A i \in DOMAIN ids : ids[i] \in numbers
      /\ \A i, j \in DOMAIN ids : i < j => ids[i] < ids[j]
      /\ \A m \in numbers : \E i \in DOMAIN ids : ids[i] = m
  BY <1>2, AscendingIs
<1>8. PICK page : page = [i \in DOMAIN ids |-> g[ids[i]]]
  OBVIOUS
<1>9. page = [i \in DOMAIN ids |-> [id |-> ids[i], version |-> version[ids[i]],
                                    pushed |-> FALSE]]
  BY <1>5, <1>7, <1>8 DEF EntryOf
<1>10. page \in Seq(Entry) /\ DOMAIN page = DOMAIN ids /\ Entries(page) = {g[m] : m \in numbers}
  BY <1>2, <1>6, <1>8, MappedEntries
<1>11. Entries(page) = {EntryOf(m, version[m], FALSE) : m \in numbers}
  <2>1. \A m \in numbers : g[m] = EntryOf(m, version[m], FALSE)
    BY <1>5
  <2>2. {g[m] : m \in numbers} = {EntryOf(m, version[m], FALSE) : m \in numbers}
    BY <2>1
  <2> QED
    BY <1>10, <2>2
<1>12. Ascends(page)
  <2>1. \A i \in DOMAIN page : page[i] = g[ids[i]] /\ page[i].id = ids[i]
    BY <1>5, <1>7, <1>8, <1>10
  <2> QED
    BY <1>7, <1>10, <2>1 DEF Ascends
<1>13. Ids(page) = numbers
  <2>1. \A i \in DOMAIN page : page[i].id = ids[i]
    BY <1>5, <1>7, <1>8, <1>10
  <2> QED
    BY <1>7, <1>10, <2>1 DEF Ids
<1>14. PICK more \in BOOLEAN : more = (numbers # Older(s))
  OBVIOUS
<1>15. PICK l : l = [load[s] EXCEPT !.stage = "decrypting", !.page = page, !.more = more]
  OBVIOUS
<1>16. /\ l \in LoadState
       /\ l.stage = "decrypting" /\ l.kind = load[s].kind /\ l.before = load[s].before
       /\ l.page = page /\ l.more = more
  <2>1. load[s] \in LoadState
    BY LoadIs
  <2> QED
    BY <1>10, <1>15, <2>1 DEF LoadState
<1>17. load' = [load EXCEPT ![s] = l]
  BY <1>3, <1>9, <1>14, <1>15 DEF AnswerPage
<1>18. LoadTo(s, l)
  BY <1>16, <1>17, LoadEffect
<1>19. load[s].stage = "requested"
  BY DEF PageRead
<1> QED
  BY <1>1, <1>11, <1>12, <1>13, <1>14, <1>16, <1>18, <1>19

-----------------------------------------------------------------------------
(***************************************************************************)
(* The types, and what a load has.                                         *)
(***************************************************************************)

\* A load that is not under way is as new, one that waits for its answer has no page,
\* and a page is in order and older than what it was asked for.
PagesInv ==
    \A s \in Slot :
        /\ load[s].stage = "idle" => load[s] = NoLoad
        /\ load[s].stage = "requested" => load[s].page = <<>>
        /\ Ascends(load[s].page)
        /\ \A n \in Ids(load[s].page) : n < load[s].before

ServerTyped ==
    /\ post \in [Id -> {"none", "open", "published", "committed", "deleted", "void"}]
    /\ version \in [Id -> {0, 1}]
    /\ changing \in SUBSET Change

EventsTyped ==
    /\ connected \in BOOLEAN
    /\ events \in Seq(Notice)
    /\ events # <<>> => connected

ListTyped ==
    /\ exists \in BOOLEAN
    /\ list \in Seq(Entry)
    /\ ~ exists => list = <<>>
    /\ hasMore \in BOOLEAN

RestTyped ==
    /\ decrypting \in SUBSET Id
    /\ awaited \in SUBSET Id
    /\ crossed \in BOOLEAN
    /\ cached \in SUBSET Id
    /\ {misled, late, lost, raced, outdated} \subseteq SUBSET Id

CountsTyped ==
    /\ loads \in 0 .. MaxLoads
    /\ changes \in 0 .. MaxChanges
    /\ faults \in 0 .. MaxFaults

TimelineTyped ==
    /\ ServerTyped
    /\ EventsTyped
    /\ ListTyped
    /\ RestTyped
    /\ CountsTyped
    /\ load \in [Slot -> LoadState]

LEMMA TimelineGroups == TimelineTypeOK <=> TimelineTyped
BY SMTT(30) DEF TimelineTypeOK, TimelineTyped, ServerTyped, EventsTyped, ListTyped, RestTyped,
   CountsTyped, LoadState

LEMMA ServerStays ==
    ASSUME Receive \/ (\E s \in Slot : Load(s)) \/ UNCHANGED timelineVars
    PROVE  UNCHANGED server
BY DEF Receive, Load, SocketOpens, SocketCloses, NewReceived, ChangeReceived, Decrypted,
   Answered, CachePut, LoadBegins, MoreBegins, Request, PageRead, EntryDecrypted, PageShown,
   MoreShown, LoadFails, timelineVars

LEMMA ServerTypes ==
    ASSUME TimelineTypeOK, [TimelineNext]_timelineVars
    PROVE  ServerTyped'
<1> USE TimelineGroups DEF TimelineTyped
<1>1. CASE UNCHANGED server
  BY <1>1 DEF ServerTyped, server
<1>2. ASSUME NEW m \in Id, NEW to \in {"open", "published", "committed", "deleted", "void"},
             post' = [post EXCEPT ![m] = to], UNCHANGED <<version, changing>>
      PROVE  ServerTyped'
  BY <1>2 DEF ServerTyped
<1>3. CASE PostBegins
  BY <1>2, <1>3 DEF PostBegins
<1>4. ASSUME NEW m \in Id, PostPublished(m) \/ PostCommitted(m) \/ PostUndone(m)
      PROVE  ServerTyped'
  BY <1>2, <1>4 DEF PostPublished, PostCommitted, PostUndone
<1>5. ASSUME NEW m \in Id, NEW kind \in {"edit", "delete"}, ChangePublished(m, kind)
      PROVE  ServerTyped'
  <2>1. changing' = changing \cup {[kind |-> kind, id |-> m]} /\ UNCHANGED <<post, version>>
    BY <1>5 DEF ChangePublished
  <2>2. [kind |-> kind, id |-> m] \in Change
    BY DEF Change
  <2> QED
    BY <2>1, <2>2 DEF ServerTyped
<1>6. ASSUME NEW m \in Id, NEW kind \in {"edit", "delete"}, ChangeCommitted(m, kind)
      PROVE  ServerTyped'
  <2>1. changing' \in SUBSET Change
    BY <1>6 DEF ChangeCommitted, ServerTyped
  <2>2. post' \in [Id -> {"none", "open", "published", "committed", "deleted", "void"}]
    BY <1>6 DEF ChangeCommitted, ServerTyped
  <2>3. version' \in [Id -> {0, 1}]
    BY <1>6 DEF ChangeCommitted, ServerTyped
  <2> QED
    BY <2>1, <2>2, <2>3 DEF ServerTyped
<1>7. ASSUME NEW m \in Id, NEW kind \in {"edit", "delete"}, ChangeUndone(m, kind)
      PROVE  ServerTyped'
  BY SMTT(30), <1>7 DEF ChangeUndone, ServerTyped
<1> QED
  BY <1>1, <1>3, <1>4, <1>5, <1>6, <1>7, ServerStays DEF TimelineNext, Serve

LEMMA EventsStay ==
    ASSUME \/ PostBegins
           \/ \E m \in Id : \/ PostCommitted(m) \/ PostUndone(m)
                            \/ \E kind \in {"edit", "delete"} :
                                  ChangeCommitted(m, kind) \/ ChangeUndone(m, kind)
                            \/ Decrypted(m) \/ Answered(m) \/ CachePut(m)
           \/ (\E s \in Slot : Load(s)) \/ UNCHANGED timelineVars
    PROVE  UNCHANGED <<connected, events>>
BY DEF PostBegins, PostCommitted, PostUndone, ChangeCommitted, ChangeUndone, Decrypted,
   Answered, CachePut, Load, LoadBegins, MoreBegins, Request, PageRead, EntryDecrypted,
   PageShown, MoreShown, LoadFails, timelineVars, socket

LEMMA HeadOf ==
    ASSUME TimelineTypeOK, events # <<>>
    PROVE  /\ Head(events) \in Notice /\ Head(events) \in Queue
           /\ Head(events).kind \in Kind /\ Head(events).id \in Id
           /\ Head(events) = NoticeOf(Head(events).kind, Head(events).id)
           /\ Tail(events) \in Seq(Notice)
           /\ Entries(Tail(events)) \subseteq Queue
           /\ Queue \subseteq Entries(Tail(events)) \cup {Head(events)}
<1>1. events \in Seq(Notice)
  BY DEF TimelineTypeOK
<1> QED
  BY <1>1, TailEntries, NoticeOfIs DEF Queue

LEMMA EventsTypes ==
    ASSUME TimelineTypeOK, [TimelineNext]_timelineVars
    PROVE  EventsTyped'
<1> USE TimelineGroups DEF TimelineTyped
<1>1. CASE UNCHANGED <<connected, events>>
  BY <1>1 DEF EventsTyped
<1>2. ASSUME NEW kind \in Kind, NEW m \in Id, Notify(kind, m)
      PROVE  EventsTyped'
  <2>1. /\ UNCHANGED connected
        /\ \/ connected /\ events' \in Seq(Notice)
           \/ UNCHANGED events
    BY <1>2, NotifyIs
  <2> QED
    BY <2>1 DEF EventsTyped
<1>3. ASSUME NEW m \in Id, PostPublished(m)
      PROVE  EventsTyped'
  BY <1>2, <1>3 DEF PostPublished, Kind
<1>4. ASSUME NEW m \in Id, NEW kind \in {"edit", "delete"}, ChangePublished(m, kind)
      PROVE  EventsTyped'
  BY <1>2, <1>4 DEF ChangePublished, Kind
<1>5. CASE SocketOpens
  BY <1>5 DEF SocketOpens, EventsTyped
<1>6. CASE SocketCloses
  BY <1>6, EmptySeq DEF SocketCloses, EventsTyped
<1>7. CASE NewReceived \/ ChangeReceived
  <2>1. events # <<>> /\ events' = Tail(events) /\ UNCHANGED connected
    BY <1>7 DEF NewReceived, ChangeReceived
  <2> QED
    BY <2>1, HeadOf DEF EventsTyped
<1> QED
  BY <1>1, <1>3, <1>4, <1>5, <1>6, <1>7, EventsStay DEF TimelineNext, Serve, Receive

LEMMA StoreStays ==
    ASSUME \/ Serve \/ SocketOpens \/ SocketCloses \/ NewReceived
           \/ \E m \in Id : CachePut(m)
           \/ \E s \in Slot : \/ LoadBegins(s) \/ MoreBegins(s) \/ PageRead(s)
                              \/ EntryDecrypted(s) \/ LoadFails(s)
           \/ UNCHANGED timelineVars
    PROVE  UNCHANGED <<exists, list, hasMore>>
BY DEF Serve, PostBegins, PostPublished, PostCommitted, PostUndone, ChangePublished,
   ChangeCommitted, ChangeUndone, SocketOpens, SocketCloses, NewReceived, CachePut,
   LoadBegins, MoreBegins, Request, PageRead, EntryDecrypted, LoadFails, timelineVars, store

LEMMA ListTypes ==
    ASSUME TimelineTypeOK, [TimelineNext]_timelineVars
    PROVE  ListTyped'
<1> USE TimelineGroups DEF TimelineTyped
<1>1. CASE UNCHANGED <<exists, list, hasMore>>
  BY <1>1 DEF ListTyped
<1>2. ASSUME NEW m \in Id, Decrypted(m) \/ Answered(m)
      PROVE  ListTyped'
  <2>1. PICK v \in {0, Unreadable}, b \in BOOLEAN : AddMessage(EntryOf(m, v, b))
    BY <1>2, ShowsIs
  <2>2. /\ UNCHANGED hasMore
        /\ \/ UNCHANGED <<exists, list>>
           \/ exists' = TRUE /\ list' \in Seq(Entry)
    BY <2>1, AddIs
  <2> QED
    BY <2>2 DEF ListTyped
<1>3. CASE ChangeReceived
  <2>1. UNCHANGED <<exists, hasMore>>
    BY <1>3 DEF ChangeReceived
  <2>2. PICK m : m = Head(events).id
    OBVIOUS
  <2>3. CASE \E kept \in Ascending({i \in DOMAIN list : list[i].id # m}) :
                   list' = [i \in DOMAIN kept |-> list[kept[i]]]
    <3>1. list' \in Seq(Entry) /\ Entries(list') \subseteq Entries(list)
      BY <2>3, RemovedIs
    <3>2. list = <<>> => list' = <<>>
      <4>1. Entries(<<>>) = {}
        BY DEF Entries
      <4>2. list' # <<>> => Head(list') \in Entries(list')
        BY <3>1, TailEntries
      <4> QED
        BY <3>1, <4>1, <4>2
    <3> QED
      BY <2>1, <3>1, <3>2 DEF ListTyped
  <2>4. CASE list' = [i \in DOMAIN list |->
                        IF list[i].id = m THEN [list[i] EXCEPT !.version = 1] ELSE list[i]]
    <3>1. list' \in Seq(Entry) /\ DOMAIN list' = DOMAIN list /\ list \in Seq(Entry)
      BY <2>4, EditedIs DEF ListTyped
    <3>2. list = <<>> => list' = <<>>
      BY <3>1, EmptySeq, LenProperties
    <3> QED
      BY <2>1, <3>1, <3>2 DEF ListTyped
  <2> QED
    BY <1>3, <2>2, <2>3, <2>4 DEF ChangeReceived
<1>4. ASSUME NEW s \in Slot, PageShown(s) \/ MoreShown(s)
      PROVE  ListTyped'
  <2>1. load[s].page \in Seq(Entry) /\ load[s].more \in BOOLEAN /\ list \in Seq(Entry)
    BY DEF LoadState, ListTyped
  <2>2. load[s].page \o list \in Seq(Entry)
    BY <2>1, ConcatProperties
  <2> QED
    BY <1>4, <2>1, <2>2 DEF PageShown, MoreShown, ListTyped
<1> QED
  BY <1>1, <1>2, <1>3, <1>4, StoreStays DEF TimelineNext, Receive, Load

LEMMA RestTypes ==
    ASSUME TimelineTypeOK, [TimelineNext]_timelineVars
    PROVE  RestTyped'
<1> USE TimelineGroups DEF TimelineTyped
<1>1. CASE UNCHANGED <<decrypting, awaited, crossed, misled, late, lost, raced, cached, outdated>>
  BY <1>1 DEF RestTyped
<1>2. CASE PostBegins
  BY <1>2 DEF PostBegins, RestTyped, causes
<1>3. ASSUME NEW m \in Id, PostUndone(m)
      PROVE  RestTyped'
  BY <1>3 DEF PostUndone, RestTyped, causes
<1>4. ASSUME NEW kind \in Kind, NEW m \in Id, Notify(kind, m),
             UNCHANGED <<decrypting, awaited, crossed, late, lost, raced, cached, outdated>>
      PROVE  RestTyped'
  BY <1>4, NotifyIs DEF RestTyped
<1>5. CASE Serve
  <2>1. ASSUME NEW m \in Id, PostPublished(m)
        PROVE  RestTyped'
    BY <1>4, <2>1 DEF PostPublished, Kind
  <2>2. ASSUME NEW m \in Id, NEW kind \in {"edit", "delete"}, ChangePublished(m, kind)
        PROVE  RestTyped'
    BY <1>4, <2>2 DEF ChangePublished, Kind
  <2>3. ASSUME NEW m \in Id,
               PostCommitted(m) \/ \E kind \in {"edit", "delete"} : ChangeCommitted(m, kind)
        PROVE  RestTyped'
    BY <1>1, <2>3 DEF PostCommitted, ChangeCommitted, causes
  <2>4. ASSUME NEW m \in Id, NEW kind \in {"edit", "delete"}, ChangeUndone(m, kind)
        PROVE  RestTyped'
    BY <2>4 DEF ChangeUndone, RestTyped
  <2> QED
    BY <1>2, <1>3, <1>5, <2>1, <2>2, <2>3, <2>4 DEF Serve
<1>6. CASE SocketOpens
  BY <1>1, <1>6 DEF SocketOpens, causes
<1>7. CASE SocketCloses
  <2>1. Ids(events) \subseteq Id
    <3>1. events \in Seq(Notice)
      BY DEF EventsTyped
    <3>2. \A i \in DOMAIN events : events[i] \in Notice
      BY <3>1, ElementOfSeq, LenProperties
    <3> QED
      BY <3>2 DEF Ids, Notice
  <2> QED
    BY <1>7, <2>1 DEF SocketCloses, RestTyped
<1>8. CASE NewReceived
  <2>1. Head(events).id \in Id
    BY <1>8, HeadOf DEF NewReceived
  <2> QED
    BY <1>8, <2>1 DEF NewReceived, RestTyped, causes
<1>9. CASE ChangeReceived
  <2>1. Head(events).id \in Id
    BY <1>9, HeadOf DEF ChangeReceived
  <2>2. /\ UNCHANGED <<decrypting, awaited, crossed, misled, late, lost, cached, outdated>>
        /\ raced' \in {raced, raced \cup {Head(events).id}}
    BY <1>9 DEF ChangeReceived
  <2> QED
    BY <2>1, <2>2 DEF RestTyped
<1>10. ASSUME NEW m \in Id, Decrypted(m) \/ Answered(m)
       PROVE  RestTyped'
  <2>1. PICK v \in {0, Unreadable}, b \in BOOLEAN : AddMessage(EntryOf(m, v, b))
    BY <1>10, ShowsIs
  <2>2. late' \in {late, late \cup {m}}
    BY <2>1, AddIs
  <2> QED
    BY <1>10, <2>2 DEF Decrypted, Answered, RestTyped
<1>11. ASSUME NEW s \in Slot, Load(s)
       PROVE  RestTyped'
  <2>1. CASE LoadBegins(s) \/ MoreBegins(s)
    <3>1. /\ UNCHANGED <<decrypting, awaited, misled, late, lost, raced, cached, outdated>>
          /\ crossed' \in BOOLEAN
      BY <2>1 DEF LoadBegins, MoreBegins, Request, RestTyped
    <3> QED
      BY <3>1 DEF RestTyped
  <2>2. CASE PageRead(s)
    BY <2>2 DEF PageRead, RestTyped
  <2>3. CASE PageShown(s)
    <3>1. Listed \subseteq Id
      <4>1. list \in Seq(Entry)
        BY DEF ListTyped
      <4>2. \A i \in DOMAIN list : list[i] \in Entry
        BY <4>1, ElementOfSeq, LenProperties
      <4> QED
        BY <4>2 DEF Listed, Ids, Entry
    <3> QED
      BY <2>3, <3>1 DEF PageShown, RestTyped
  <2>4. CASE MoreShown(s) \/ LoadFails(s)
    BY <1>1, <2>4 DEF MoreShown, LoadFails, causes
  <2>5. CASE EntryDecrypted(s)
    <3>1. PICK m : m = load[s].page[load[s].read + 1].id
      OBVIOUS
    <3>2. load[s].read + 1 \in DOMAIN load[s].page /\ load[s].page \in Seq(Entry)
      BY <2>5, LoadIs DEF EntryDecrypted, LoadState
    <3>3. m \in Id
      BY <3>1, <3>2, ElementOfSeq, LenProperties, EntryIs
    <3>4. /\ UNCHANGED <<decrypting, awaited, crossed, misled, late, lost, raced>>
          /\ cached' \in {cached, cached \cup {m}}
          /\ outdated' \in {outdated, outdated \cup {m}}
      BY <2>5, <3>1 DEF EntryDecrypted
    <3> QED
      BY <3>3, <3>4 DEF RestTyped
  <2> QED
    BY <1>11, <2>1, <2>2, <2>3, <2>4, <2>5 DEF Load
<1>12. CASE UNCHANGED timelineVars
  BY <1>1, <1>12 DEF timelineVars, causes
<1>13. ASSUME NEW m \in Id, CachePut(m)
       PROVE  RestTyped'
  BY <1>13 DEF CachePut, RestTyped, causes
<1> QED
  BY <1>5, <1>6, <1>7, <1>8, <1>9, <1>10, <1>11, <1>12, <1>13 DEF TimelineNext, Receive

LEMMA CountsTypes ==
    ASSUME TimelineTypeOK, [TimelineNext]_timelineVars
    PROVE  CountsTyped'
<1> USE TimelineGroups DEF TimelineTyped
<1>1. /\ loads \in Nat /\ changes \in Nat /\ faults \in Nat
      /\ MaxLoads \in Nat /\ MaxChanges \in Nat /\ MaxFaults \in Nat
      /\ loads <= MaxLoads /\ changes <= MaxChanges /\ faults <= MaxFaults
  BY ChatTimelineAssumption DEF CountsTyped
<1>2. CASE UNCHANGED <<loads, changes, faults>>
  BY <1>2 DEF CountsTyped
<1>3. CASE Fault /\ UNCHANGED <<loads, changes>>
  BY <1>1, <1>3 DEF Fault, CountsTyped
<1>4. CASE loads < MaxLoads /\ loads' = loads + 1 /\ UNCHANGED <<changes, faults>>
  BY <1>1, <1>4 DEF CountsTyped
<1>5. CASE changes < MaxChanges /\ changes' = changes + 1 /\ UNCHANGED <<loads, faults>>
  BY <1>1, <1>5 DEF CountsTyped
<1>6. CASE Serve
  <2>1. CASE PostBegins \/ \E m \in Id : \/ PostPublished(m) \/ PostCommitted(m)
                                         \/ \E kind \in {"edit", "delete"} :
                                               ChangeCommitted(m, kind)
    BY <1>2, <2>1 DEF PostBegins, PostPublished, PostCommitted, ChangeCommitted
  <2>2. CASE \E m \in Id : \/ PostUndone(m)
                           \/ \E kind \in {"edit", "delete"} : ChangeUndone(m, kind)
    BY <1>3, <2>2 DEF PostUndone, ChangeUndone
  <2>3. CASE \E m \in Id, kind \in {"edit", "delete"} : ChangePublished(m, kind)
    BY <1>5, <2>3 DEF ChangePublished
  <2> QED
    BY <1>6, <2>1, <2>2, <2>3 DEF Serve
<1>7. CASE Receive
  <2>1. CASE SocketCloses
    BY <1>3, <2>1 DEF SocketCloses
  <2>2. CASE ~ SocketCloses
    BY <1>2, <1>7, <2>2 DEF Receive, SocketOpens, NewReceived, ChangeReceived, Decrypted,
       Answered, CachePut
  <2> QED
    BY <2>1, <2>2
<1>8. ASSUME NEW s \in Slot, Load(s)
      PROVE  CountsTyped'
  <2>1. CASE LoadBegins(s) \/ MoreBegins(s)
    BY <1>4, <2>1 DEF LoadBegins, MoreBegins, Request
  <2>2. CASE PageRead(s) \/ EntryDecrypted(s) \/ PageShown(s) \/ MoreShown(s)
    BY <1>2, <2>2 DEF PageRead, EntryDecrypted, PageShown, MoreShown
  <2>3. CASE LoadFails(s)
    BY <1>3, <2>3 DEF LoadFails
  <2> QED
    BY <1>8, <2>1, <2>2, <2>3 DEF Load
<1>9. CASE UNCHANGED timelineVars
  BY <1>2, <1>9 DEF timelineVars
<1> QED
  BY <1>6, <1>7, <1>8, <1>9 DEF TimelineNext

LEMMA LoadStays ==
    ASSUME Serve \/ Receive \/ UNCHANGED timelineVars
    PROVE  UNCHANGED load
BY DEF Serve, PostBegins, PostPublished, PostCommitted, PostUndone, ChangePublished,
   ChangeCommitted, ChangeUndone, Receive, SocketOpens, SocketCloses, NewReceived,
   ChangeReceived, Decrypted, Answered, CachePut, timelineVars

\* Where the loads that begin start from.
LEMMA BeginsIs ==
    ASSUME TimelineTypeOK, NEW s \in Slot, LoadBegins(s) \/ MoreBegins(s)
    PROVE  \E l : /\ LoadTo(s, l)
                  /\ load[s].stage = "idle"
                  /\ l.stage = "requested" /\ l.page = <<>>
                  /\ \/ l.kind = "page" /\ l.before = MaxMessages + 1
                     \/ /\ l.kind = "more" /\ l.before = Head(list).id
                        /\ list # <<>> /\ hasMore /\ Head(list) \in Entries(list)
<1>1. CASE LoadBegins(s)
  <2>1. Request(s, "page", MaxMessages + 1)
    BY <1>1 DEF LoadBegins
  <2>2. MaxMessages + 1 \in 0 .. MaxMessages + 1
    BY IdIs
  <2> QED
    BY <2>1, <2>2, RequestIs
<1>2. CASE MoreBegins(s)
  <2>1. Request(s, "more", Head(list).id) /\ list # <<>> /\ hasMore
    BY <1>2 DEF MoreBegins
  <2>2. list \in Seq(Entry)
    BY DEF TimelineTypeOK
  <2>3. Head(list) \in Entry /\ Head(list) \in Entries(list)
    BY <2>1, <2>2, TailEntries
  <2>4. Head(list).id \in 0 .. MaxMessages + 1
    <3>1. Head(list).id \in 1 .. MaxMessages
      BY <2>3 DEF Entry, Id
    <3> QED
      BY <3>1, IdIs
  <2>5. PICK l : /\ LoadTo(s, l)
                 /\ load[s].stage = "idle"
                 /\ l.stage = "requested" /\ l.kind = "more" /\ l.before = Head(list).id
                 /\ l.page = <<>>
    BY <2>1, <2>4, RequestIs
  <2> QED
    BY <2>1, <2>3, <2>5
<1> QED
  BY <1>1, <1>2

LEMMA LoadEndsIs ==
    ASSUME TimelineTypeOK, NEW s \in Slot, PageShown(s) \/ MoreShown(s) \/ LoadFails(s)
    PROVE  LoadTo(s, NoLoad) /\ load[s].stage # "idle"
<1>1. load' = [load EXCEPT ![s] = NoLoad] /\ load[s].stage \in {"requested", "decrypting"}
  BY DEF PageShown, MoreShown, IsRead, LoadFails
<1> QED
  BY <1>1, LoadEffect, LoadIs

LEMMA PagesStep ==
    ASSUME TimelineTypeOK, PagesInv, [TimelineNext]_timelineVars
    PROVE  load' \in [Slot -> LoadState] /\ PagesInv'
<1>1. CASE UNCHANGED load
  BY <1>1, LoadIs DEF PagesInv
<1>2. ASSUME NEW s \in Slot, NEW l, LoadTo(s, l),
             /\ l.stage = "idle" => l = NoLoad
             /\ l.stage = "requested" => l.page = <<>>
             /\ Ascends(l.page)
             /\ \A n \in Ids(l.page) : n < l.before
      PROVE  load' \in [Slot -> LoadState] /\ PagesInv'
  <2>1. /\ load' \in [Slot -> LoadState] /\ load'[s] = l
        /\ \A r \in Slot \ {s} : load'[r] = load[r]
    BY <1>2 DEF LoadTo
  <2>2. ASSUME NEW r \in Slot
        PROVE  /\ load'[r].stage = "idle" => load'[r] = NoLoad
               /\ load'[r].stage = "requested" => load'[r].page = <<>>
               /\ Ascends(load'[r].page)
               /\ \A n \in Ids(load'[r].page) : n < load'[r].before
    <3>1. CASE r = s
      BY <1>2, <2>1, <3>1
    <3>2. CASE r # s
      BY <2>1, <3>2 DEF PagesInv
    <3> QED
      BY <3>1, <3>2
  <2> QED
    BY <2>1, <2>2 DEF PagesInv
<1>3. Ascends(<<>>) /\ Ids(<<>>) = {}
  BY DEF Ascends, Ids
<1>4. ASSUME NEW s \in Slot, LoadBegins(s) \/ MoreBegins(s)
      PROVE  load' \in [Slot -> LoadState] /\ PagesInv'
  <2>1. PICK l : LoadTo(s, l) /\ l.stage = "requested" /\ l.page = <<>>
    BY <1>4, BeginsIs
  <2>2. Ascends(l.page) /\ Ids(l.page) = {}
    BY <1>3, <2>1
  <2> QED
    BY <1>2, <2>1, <2>2
<1>5. ASSUME NEW s \in Slot, PageRead(s)
      PROVE  load' \in [Slot -> LoadState] /\ PagesInv'
  <2>1. PICK l : /\ LoadTo(s, l) /\ l.stage = "decrypting" /\ l.before = load[s].before
                 /\ Ascends(l.page) /\ Ids(l.page) = Newest(Older(s))
    BY <1>5, PageReadIs
  <2>2. \A n \in Ids(l.page) : n < l.before
    BY <2>1, OlderIs
  <2> QED
    BY <1>2, <2>1, <2>2
<1>6. ASSUME NEW s \in Slot, PageShown(s) \/ MoreShown(s) \/ LoadFails(s)
      PROVE  load' \in [Slot -> LoadState] /\ PagesInv'
  <2>1. LoadTo(s, NoLoad)
    BY <1>6, LoadEndsIs
  <2>2. Ascends(NoLoad.page) /\ Ids(NoLoad.page) = {} /\ NoLoad.stage = "idle"
    BY <1>3, LoadIs
  <2> QED
    BY <1>2, <2>1, <2>2
<1>7. ASSUME NEW s \in Slot, EntryDecrypted(s)
      PROVE  load' \in [Slot -> LoadState] /\ PagesInv'
  <2>1. PICK l : /\ LoadTo(s, l) /\ l.stage = "decrypting" /\ l.before = load[s].before
                 /\ DOMAIN l.page = DOMAIN load[s].page
                 /\ \A i \in DOMAIN l.page : Reread(l.page[i], load[s].page[i])
    BY <1>7, EntryDecryptedIs
  <2>2. Ids(l.page) = Ids(load[s].page) /\ (Ascends(load[s].page) => Ascends(l.page))
    BY <2>1, RereadIds
  <2> QED
    BY <1>2, <2>1, <2>2 DEF PagesInv
<1> QED
  BY <1>1, <1>4, <1>5, <1>6, <1>7, LoadStays DEF TimelineNext, Load

TimelineTypeInv == TimelineTypeOK /\ PagesInv

LEMMA TimelineTypesStep ==
    TimelineTypeInv /\ [TimelineNext]_timelineVars => TimelineTypeInv'
<1> SUFFICES ASSUME TimelineTypeInv, [TimelineNext]_timelineVars
             PROVE  TimelineTypeInv'
  OBVIOUS
<1>1. TimelineTypeOK /\ PagesInv
  BY DEF TimelineTypeInv
<1>2. /\ ServerTyped' /\ EventsTyped' /\ ListTyped' /\ RestTyped' /\ CountsTyped'
      /\ load' \in [Slot -> LoadState] /\ PagesInv'
  BY <1>1, ServerTypes, EventsTypes, ListTypes, RestTypes, CountsTypes, PagesStep
<1>3. TimelineTyped'
  BY <1>2 DEF TimelineTyped
<1>4. TimelineTypeOK'
  BY <1>3, TimelineGroups, PTL
<1> QED
  BY <1>2, <1>4 DEF TimelineTypeInv

LEMMA TimelineTypesInit == TimelineInit => TimelineTypeInv
<1> SUFFICES ASSUME TimelineInit
             PROVE  TimelineTypeInv
  OBVIOUS
<1>1. /\ ServerTyped /\ EventsTyped /\ ListTyped /\ RestTyped
  BY EmptySeq DEF TimelineInit, ServerTyped, EventsTyped, ListTyped, RestTyped
<1>2. CountsTyped
  BY ChatTimelineAssumption DEF TimelineInit, CountsTyped
<1>3. NoLoad \in LoadState /\ NoLoad.stage = "idle" /\ NoLoad.page = <<>>
  BY EmptySeq, IdIs DEF NoLoad, LoadState
<1>4. load \in [Slot -> LoadState] /\ \A s \in Slot : load[s] = NoLoad
  BY <1>3 DEF TimelineInit
<1>5. TimelineTypeOK
  BY <1>1, <1>2, <1>4, TimelineGroups DEF TimelineTyped
<1>6. Ascends(<<>>) /\ Ids(<<>>) = {}
  BY DEF Ascends, Ids
<1>7. PagesInv
  BY <1>3, <1>4, <1>6 DEF PagesInv
<1> QED
  BY <1>5, <1>7 DEF TimelineTypeInv

LEMMA TimelineTypeInvHolds == TimelineSpec => []TimelineTypeInv
<1> QED
  BY TimelineTypesInit, TimelineTypesStep, PTL DEF TimelineSpec

\* Every variable of a timeline keeps its type; only an open socket has something to
\* bring, and only a list that exists has messages.
THEOREM TimelineTypeInvariant == TimelineSpec => []TimelineTypeOK
<1> QED
  BY TimelineTypeInvHolds, PTL DEF TimelineTypeInv

-----------------------------------------------------------------------------
(***************************************************************************)
(* What is shown is current: the invariant.                                *)
(***************************************************************************)

Active(s) == load[s].stage # "idle"

\* The copies of messages the tab has: in the list, and in the pages not shown yet.
Copies == Entries(list) \cup UNION {Entries(load[s].page) : s \in Slot}

\* A copy of m is still to be listed by a push or an answer.
UnderWay(m) == NoticeOf("new", m) \in Queue \/ m \in decrypting \cup awaited

\* A change that is not committed can still be made, and its notice is on its way,
\* unless nobody got it or it came before the commit.
ChangesMade ==
    \A m \in Id :
        /\ NoticeOf("delete", m) \in changing => post[m] = "committed"
        /\ NoticeOf("edit", m) \in changing =>
              post[m] \in {"committed", "deleted"} /\ version[m] = 0
        /\ \A kind \in {"edit", "delete"} : NoticeOf(kind, m) \in changing =>
              NoticeOf(kind, m) \in Queue \/ m \in misled \cup raced

\* A notice of a change tells of one that is made, or about to be, or rolled back.
NoticesTrue ==
    \A m \in Id :
        /\ NoticeOf("delete", m) \in Queue =>
              NoticeOf("delete", m) \in changing \/ post[m] = "deleted" \/ m \in misled
        /\ NoticeOf("edit", m) \in Queue =>
              \/ NoticeOf("edit", m) \in changing \/ post[m] = "deleted" \/ version[m] = 1
              \/ m \in misled

EditsPosted == \A m \in Id : version[m] = 1 => post[m] \in {"committed", "deleted"}

\* The tab knows nothing of a message before it is published.
UnsentUnseen ==
    \A m \in Id : post[m] \in {"none", "open"} =>
        /\ \A kind \in Kind : NoticeOf(kind, m) \notin Queue
        /\ m \notin decrypting
        /\ \A e \in Copies : e.id # m

\* The notice of a message comes before those of its changes.
NewFirst ==
    \A i, j \in DOMAIN events : i < j /\ events[i].kind # "new" =>
        events[j] # NoticeOf("new", events[i].id)

\* A copy that does not show the text of before the edit, but from the cache.
Edited(e) == e.version = 0 => e.id \in outdated

\* Of a message whose changes met neither a closed socket nor a copy on its way, and were
\* not rolled back, the tab has no text but the current one or the one the cache has kept,
\* or is about to be told.
CopiesCurrent ==
    \A m \in Id \ (misled \cup raced) :
        /\ post[m] = "deleted" =>
              \/ NoticeOf("delete", m) \in Queue
              \/ ~ UnderWay(m) /\ \A e \in Copies : e.id # m
        /\ post[m] = "committed" /\ version[m] = 1 =>
              \/ NoticeOf("edit", m) \in Queue
              \/ ~ UnderWay(m) /\ \A e \in Copies : e.id = m => Edited(e)
        /\ post[m] # "deleted" /\ version[m] = 0 =>
              \A e \in Copies : e.id = m => e.version # 1

\* A placeholder is shown of encrypted messages only.
OthersReadable == \A e \in Copies : e.version = Unreadable => e.id \in Sealed

CurrentInv ==
    /\ ChangesMade /\ NoticesTrue /\ EditsPosted /\ UnsentUnseen /\ NewFirst
    /\ CopiesCurrent /\ OthersReadable

LEMMA NoticesDiffer ==
    \A k1, k2, m1, m2 : NoticeOf(k1, m1) = NoticeOf(k2, m2) <=> k1 = k2 /\ m1 = m2
<1> SUFFICES ASSUME NEW k1, NEW k2, NEW m1, NEW m2, NoticeOf(k1, m1) = NoticeOf(k2, m2)
             PROVE  k1 = k2 /\ m1 = m2
  OBVIOUS
<1>1. NoticeOf(k1, m1).kind = k1 /\ NoticeOf(k1, m1).id = m1
  BY DEF NoticeOf
<1>2. NoticeOf(k2, m2).kind = k2 /\ NoticeOf(k2, m2).id = m2
  BY DEF NoticeOf
<1> QED
  BY <1>1, <1>2

\* The messages of which the socket has something to bring.
LEMMA QueuedIs ==
    ASSUME TimelineTypeOK
    PROVE  /\ Queue \subseteq Notice
           /\ Ids(events) = {e.id : e \in Queue}
           /\ \A m \in Id : m \in Ids(events) <=> \E kind \in Kind : NoticeOf(kind, m) \in Queue
<1>1. events \in Seq(Notice)
  BY DEF TimelineTypeOK
<1>2. Queue \subseteq Notice
  BY <1>1, ElementOfSeq, LenProperties DEF Queue, Entries
<1>3. Ids(events) = {e.id : e \in Queue}
  BY IdsAre DEF Queue
<1>4. ASSUME NEW m \in Id, m \in Ids(events)
      PROVE  \E kind \in Kind : NoticeOf(kind, m) \in Queue
  <2>1. PICK e \in Queue : e.id = m
    BY <1>3, <1>4
  <2> QED
    BY <1>2, <2>1, NoticeOfIs
<1>5. ASSUME NEW m \in Id, NEW kind \in Kind, NoticeOf(kind, m) \in Queue
      PROVE  m \in Ids(events)
  <2>1. NoticeOf(kind, m).id = m
    BY NoticeOfIs
  <2> QED
    BY <1>3, <1>5, <2>1
<1> QED
  BY <1>2, <1>3, <1>4, <1>5

LEMMA CopiesStay == UNCHANGED <<list, load>> => Copies' = Copies
BY DEF Copies

\* A load that goes on without a new page, and a list made of what there is, are no
\* new copies.
LEMMA CopiesShrink ==
    ASSUME TimelineTypeOK, NEW s \in Slot, NEW l, LoadTo(s, l), Entries(l.page) \subseteq Copies,
           Entries(list') \subseteq Copies
    PROVE  Copies' \subseteq Copies
<1>1. ASSUME NEW r \in Slot
      PROVE  Entries(load'[r].page) \subseteq Copies
  <2>1. CASE r = s
    BY <2>1 DEF LoadTo
  <2>2. CASE r # s
    BY <2>2 DEF LoadTo, Copies
  <2> QED
    BY <2>1, <2>2
<1>2. Copies' = Entries(list') \cup UNION {Entries(load'[r].page) : r \in Slot}
  BY DEF Copies
<1> QED
  BY <1>1, <1>2

\* One message's row is changed.
PostTo(m, to) ==
    /\ post'[m] = to
    /\ \A n \in Id \ {m} : post'[n] = post[n]

LEMMA PostEffect ==
    ASSUME TimelineTypeOK, NEW m \in Id, NEW to, post' = [post EXCEPT ![m] = to]
    PROVE  PostTo(m, to)
BY DEF TimelineTypeOK, PostTo

\* Steps that bring nothing new to the tab, and change no message.
Calm ==
    /\ UNCHANGED <<post, version, changing, events, misled, raced>>
    /\ decrypting' \subseteq decrypting /\ awaited' \subseteq awaited
    /\ outdated \subseteq outdated'
    /\ \A e \in Copies' : \E d \in Copies : Reread(e, d)

LEMMA CalmCurrent ==
    ASSUME CurrentInv, Calm
    PROVE  CurrentInv'
<1>1. Queue' = Queue
  BY DEF Calm, Queue
<1>2. ChangesMade' /\ NoticesTrue' /\ EditsPosted' /\ NewFirst'
  BY <1>1 DEF Calm, CurrentInv, ChangesMade, NoticesTrue, EditsPosted, NewFirst
<1>3. /\ UNCHANGED <<post, version, misled, raced>>
      /\ decrypting' \subseteq decrypting /\ outdated \subseteq outdated'
  BY DEF Calm
<1>4. \A e \in Copies' : \E d \in Copies :
         /\ e.id = d.id
         /\ Edited(d) => Edited(e)'
         /\ d.version # 1 => e.version # 1
         /\ e.version = Unreadable => d.version = Unreadable \/ e.id \in Sealed
  <2> SUFFICES ASSUME NEW e \in Copies'
               PROVE  \E d \in Copies :
                         /\ e.id = d.id
                         /\ Edited(d) => Edited(e)'
                         /\ d.version # 1 => e.version # 1
                         /\ e.version = Unreadable => d.version = Unreadable \/ e.id \in Sealed
    OBVIOUS
  <2>1. PICK d \in Copies : Reread(e, d)
    BY DEF Calm
  <2>2. Edited(d) => Edited(e)'
    BY <1>3, <2>1 DEF Reread, Edited
  <2> QED
    BY <2>1, <2>2 DEF Reread
<1>5. UnsentUnseen'
  BY <1>1, <1>3, <1>4 DEF CurrentInv, UnsentUnseen
<1>6. \A m : UnderWay(m)' => UnderWay(m)
  BY <1>1 DEF Calm, UnderWay
<1>7. CopiesCurrent'
  <2> SUFFICES ASSUME NEW m \in Id, m \notin misled \cup raced
               PROVE  /\ post[m] = "deleted" =>
                            \/ NoticeOf("delete", m) \in Queue
                            \/ ~ UnderWay(m)' /\ \A e \in Copies' : e.id # m
                      /\ post[m] = "committed" /\ version[m] = 1 =>
                            \/ NoticeOf("edit", m) \in Queue
                            \/ ~ UnderWay(m)' /\ \A e \in Copies' : e.id = m => Edited(e)'
                      /\ post[m] # "deleted" /\ version[m] = 0 =>
                            \A e \in Copies' : e.id = m => e.version # 1
    BY <1>1, <1>3 DEF CopiesCurrent
  <2>1. /\ post[m] = "deleted" =>
              \/ NoticeOf("delete", m) \in Queue
              \/ ~ UnderWay(m) /\ \A e \in Copies : e.id # m
        /\ post[m] = "committed" /\ version[m] = 1 =>
              \/ NoticeOf("edit", m) \in Queue
              \/ ~ UnderWay(m) /\ \A e \in Copies : e.id = m => Edited(e)
        /\ post[m] # "deleted" /\ version[m] = 0 =>
              \A e \in Copies : e.id = m => e.version # 1
    BY DEF CurrentInv, CopiesCurrent
  <2>2. (\A e \in Copies : e.id # m) => \A e \in Copies' : e.id # m
    BY <1>4
  <2>3. (\A e \in Copies : e.id = m => Edited(e)) => \A e \in Copies' : e.id = m => Edited(e)'
    BY <1>4
  <2>4. (\A e \in Copies : e.id = m => e.version # 1) =>
           \A e \in Copies' : e.id = m => e.version # 1
    BY <1>4
  <2> QED
    BY <1>6, <2>1, <2>2, <2>3, <2>4
<1>8. OthersReadable'
  BY <1>4 DEF CurrentInv, OthersReadable
<1> QED
  BY <1>2, <1>5, <1>7, <1>8 DEF CurrentInv

LEMMA RereadSame == \A e : Reread(e, e)
BY DEF Reread

LEMMA CalmSteps ==
    ASSUME TimelineTypeInv,
           \/ SocketOpens \/ UNCHANGED timelineVars
           \/ \E m \in Id : CachePut(m)
           \/ \E s \in Slot : \/ LoadBegins(s) \/ MoreBegins(s) \/ EntryDecrypted(s)
                              \/ PageShown(s) \/ MoreShown(s) \/ LoadFails(s)
    PROVE  Calm
<1> USE DEF TimelineTypeInv
<1>1. CASE SocketOpens \/ UNCHANGED timelineVars \/ \E m \in Id : CachePut(m)
  <2>1. UNCHANGED <<post, version, changing, events, misled, raced, outdated, decrypting, awaited>>
    BY <1>1 DEF SocketOpens, CachePut, timelineVars, server, causes, socket
  <2>2. UNCHANGED <<list, load>>
    BY <1>1 DEF SocketOpens, CachePut, timelineVars, store
  <2>3. Copies' = Copies
    BY <2>2, CopiesStay
  <2> QED
    BY <2>1, <2>3, RereadSame DEF Calm
<1>2. Entries(<<>>) = {}
  BY DEF Entries
<1>3. ASSUME NEW s \in Slot, LoadBegins(s) \/ MoreBegins(s)
      PROVE  Calm
  <2>1. /\ UNCHANGED <<post, version, changing, events, misled, raced, outdated>>
        /\ UNCHANGED <<decrypting, awaited, list>>
    BY <1>3 DEF LoadBegins, MoreBegins, Request, server, socket, store
  <2>2. PICK l : LoadTo(s, l) /\ l.page = <<>>
    BY <1>3, BeginsIs
  <2>3. Copies' \subseteq Copies
    <3>1. Entries(list') \subseteq Copies /\ Entries(l.page) \subseteq Copies
      BY <1>2, <2>1, <2>2 DEF Copies
    <3> QED
      BY <2>2, <3>1, CopiesShrink
  <2> QED
    BY <2>1, <2>3, RereadSame DEF Calm
<1>4. ASSUME NEW s \in Slot, PageShown(s) \/ MoreShown(s) \/ LoadFails(s)
      PROVE  Calm
  <2>1. /\ UNCHANGED <<post, version, changing, events, misled, raced, outdated>>
        /\ UNCHANGED <<decrypting, awaited>>
    BY <1>4 DEF PageShown, MoreShown, LoadFails, server, socket, store, causes
  <2>2. LoadTo(s, NoLoad) /\ NoLoad.page = <<>>
    BY <1>4, LoadEndsIs, LoadIs
  <2>3. load[s].page \in Seq(Entry) /\ list \in Seq(Entry)
    BY LoadIs DEF LoadState, TimelineTypeOK
  <2>4. Entries(load[s].page \o list) = Entries(load[s].page) \cup Entries(list)
    BY <2>3, ConcatEntries
  <2>5. list' = list \/ list' = load[s].page \/ list' = load[s].page \o list
    BY <1>4 DEF PageShown, MoreShown, LoadFails, store
  <2>6. Copies' \subseteq Copies
    <3>1. Entries(list') \subseteq Copies /\ Entries(NoLoad.page) \subseteq Copies
      BY <1>2, <2>2, <2>4, <2>5 DEF Copies
    <3> QED
      BY <2>2, <3>1, CopiesShrink
  <2> QED
    BY <2>1, <2>6, RereadSame DEF Calm
<1>5. ASSUME NEW s \in Slot, EntryDecrypted(s)
      PROVE  Calm
  <2>1. /\ UNCHANGED <<post, version, changing, events, misled, raced>>
        /\ UNCHANGED <<decrypting, awaited, list>>
    BY <1>5 DEF EntryDecrypted, server, socket, store
  <2>2. PICK l : /\ LoadTo(s, l)
                 /\ DOMAIN l.page = DOMAIN load[s].page
                 /\ \A i \in DOMAIN l.page : Reread(l.page[i], load[s].page[i])
                 /\ outdated \subseteq outdated'
    BY <1>5, EntryDecryptedIs
  <2>3. ASSUME NEW r \in Slot, NEW e \in Entries(load'[r].page)
        PROVE  \E d \in Copies : Reread(e, d)
    <3>1. CASE r = s
      <4>1. PICK i \in DOMAIN l.page : e = l.page[i]
        BY <2>2, <2>3, <3>1 DEF LoadTo, Entries
      <4>2. load[s].page[i] \in Copies
        BY <2>2 DEF Copies, Entries
      <4> QED
        BY <2>2, <4>1, <4>2
    <3>2. CASE r # s
      <4>1. e \in Copies
        BY <2>2, <2>3, <3>2 DEF LoadTo, Copies
      <4> QED
        BY <4>1, RereadSame
    <3> QED
      BY <3>1, <3>2
  <2>4. Copies' = Entries(list) \cup UNION {Entries(load'[r].page) : r \in Slot}
    BY <2>1 DEF Copies
  <2>5. \A e \in Entries(list) : e \in Copies /\ Reread(e, e)
    BY RereadSame DEF Copies
  <2> QED
    BY <2>1, <2>2, <2>3, <2>4, <2>5 DEF Calm
<1> QED
  BY <1>1, <1>3, <1>4, <1>5

\* The row of one message goes on, and neither its notices nor its text.
LEMMA PostCurrent ==
    ASSUME TimelineTypeInv, CurrentInv, NEW m0 \in Id,
           NEW to \in {"open", "committed", "void"}, PostTo(m0, to),
           post[m0] \in {"none", "published"}, (to = "open") = (post[m0] = "none"),
           UNCHANGED <<version, changing, events, decrypting, list, load, misled, raced,
                   outdated>>,
           awaited' \subseteq awaited \cup {m0}, to # "open" => awaited' \subseteq awaited
    PROVE  CurrentInv'
<1> USE DEF TimelineTypeInv
<1>1. Queue' = Queue /\ Copies' = Copies
  BY CopiesStay DEF Queue
<1>2. \A m \in Id \ {m0} : post'[m] = post[m]
  BY DEF PostTo
<1>3. post'[m0] = to
  BY DEF PostTo
<1>4. version[m0] = 0
  BY DEF CurrentInv, EditsPosted, TimelineTypeOK
<1>5. ChangesMade'
  BY <1>1, <1>2, <1>3 DEF CurrentInv, ChangesMade
<1>6. NoticesTrue'
  BY <1>1, <1>2, <1>3 DEF CurrentInv, NoticesTrue
<1>7. EditsPosted'
  BY <1>2, <1>4 DEF CurrentInv, EditsPosted
<1>8. UnsentUnseen'
  BY <1>1, <1>2, <1>3 DEF CurrentInv, UnsentUnseen
<1>9. NewFirst'
  BY DEF CurrentInv, NewFirst
<1>10. \A m \in Id \ {m0} : UnderWay(m)' => UnderWay(m)
  BY <1>1 DEF UnderWay
<1>11. CopiesCurrent'
  BY <1>1, <1>2, <1>3, <1>4, <1>10 DEF CurrentInv, CopiesCurrent, Edited
<1>12. OthersReadable'
  BY <1>1 DEF CurrentInv, OthersReadable
<1> QED
  BY <1>5, <1>6, <1>7, <1>8, <1>9, <1>11, <1>12 DEF CurrentInv

LEMMA PostSteps ==
    ASSUME TimelineTypeInv, CurrentInv,
           PostBegins \/ \E m \in Id : PostCommitted(m) \/ PostUndone(m)
    PROVE  CurrentInv'
<1> USE DEF TimelineTypeInv
<1>1. CASE PostBegins
  <2>1. PICK m \in Id : /\ post[m] = "none" /\ post' = [post EXCEPT ![m] = "open"]
                        /\ awaited' \in {awaited, {m}}
    BY <1>1 DEF PostBegins
  <2>2. UNCHANGED <<version, changing, events, decrypting, list, load, misled, raced,
                   outdated>>
    BY <1>1 DEF PostBegins, socket, store, causes
  <2>3. PostTo(m, "open") /\ awaited' \subseteq awaited \cup {m}
    BY <2>1, PostEffect
  <2> QED
    BY <2>1, <2>2, <2>3, PostCurrent
<1>2. ASSUME NEW m \in Id, PostCommitted(m)
      PROVE  CurrentInv'
  <2>1. /\ UNCHANGED <<version, changing, events, decrypting, list, load, misled, raced,
                   outdated>>
        /\ post[m] = "published" /\ post' = [post EXCEPT ![m] = "committed"]
        /\ awaited' \subseteq awaited
    BY <1>2 DEF PostCommitted, socket, store, causes
  <2>2. PostTo(m, "committed")
    BY <2>1, PostEffect
  <2> QED
    BY <2>1, <2>2, PostCurrent
<1>3. ASSUME NEW m \in Id, PostUndone(m)
      PROVE  CurrentInv'
  <2>1. /\ UNCHANGED <<version, changing, events, decrypting, list, load, misled, raced,
                   outdated>>
        /\ post[m] = "published" /\ post' = [post EXCEPT ![m] = "void"]
        /\ awaited' \subseteq awaited
    BY <1>3 DEF PostUndone, socket, store, causes
  <2>2. PostTo(m, "void")
    BY <2>1, PostEffect
  <2> QED
    BY <2>1, <2>2, PostCurrent
<1> QED
  BY <1>1, <1>2, <1>3

\* What is published keeps its order behind what is there.
LEMMA NewFirstNotify ==
    ASSUME TimelineTypeOK, NewFirst, NEW kind \in Kind, NEW m \in Id, Notify(kind, m),
           kind = "new" => \A k \in Kind : NoticeOf(k, m) \notin Queue
    PROVE  NewFirst'
<1>1. CASE UNCHANGED events
  BY <1>1 DEF NewFirst
<1>2. CASE events' = Append(events, NoticeOf(kind, m))
  <2>1. events \in Seq(Notice) /\ NoticeOf(kind, m) \in Notice
    BY NoticeOfIs DEF TimelineTypeOK
  <2>2. PICK q : q = Append(events, NoticeOf(kind, m))
    OBVIOUS
  <2>3. /\ DOMAIN events = 1 .. Len(events) /\ Len(events) \in Nat
        /\ DOMAIN q = 1 .. Len(events) + 1
        /\ \A i \in DOMAIN events : q[i] = events[i]
        /\ q[Len(events) + 1] = NoticeOf(kind, m)
    BY <2>1, <2>2, AppendEntries
  <2>4. ASSUME NEW i \in DOMAIN q, NEW j \in DOMAIN q, i < j, q[i].kind # "new",
               q[j] = NoticeOf("new", q[i].id)
        PROVE  FALSE
    <3>1. i \in DOMAIN events /\ q[i] = events[i] /\ (j \in DOMAIN events \/ j = Len(events) + 1)
      BY <2>3, <2>4
    <3>2. CASE j \in DOMAIN events
      <4>1. q[j] = events[j]
        BY <2>3, <3>2
      <4> QED
        BY <2>4, <3>1, <3>2, <4>1 DEF NewFirst
    <3>3. CASE j = Len(events) + 1
      <4>1. q[j] = NoticeOf(kind, m)
        BY <2>3, <3>3
      <4>2. kind = "new" /\ events[i].id = m
        BY <2>4, <3>1, <4>1, NoticesDiffer
      <4>3. events[i] \in Queue /\ events[i] \in Notice
        BY <3>1, QueuedIs DEF Queue, Entries
      <4>4. events[i] = NoticeOf(events[i].kind, m) /\ events[i].kind \in Kind
        BY <4>2, <4>3, NoticeOfIs
      <4> QED
        BY <4>2, <4>3, <4>4
    <3> QED
      BY <3>1, <3>2, <3>3
  <2>5. events' = q
    BY <1>2, <2>2
  <2> QED
    BY <2>4, <2>5 DEF NewFirst
<1> QED
  BY <1>1, <1>2, NotifyIs

LEMMA PublishedCurrent ==
    ASSUME TimelineTypeInv, CurrentInv, NEW m0 \in Id, PostPublished(m0)
    PROVE  CurrentInv'
<1> USE DEF TimelineTypeInv
<1>1. /\ post[m0] = "open" /\ post' = [post EXCEPT ![m0] = "published"]
      /\ Notify("new", m0) /\ "new" \in Kind
      /\ UNCHANGED <<version, changing, decrypting, awaited, list, load, raced, outdated>>
  BY DEF PostPublished, store, Kind
<1>2. PostTo(m0, "published")
  BY <1>1, PostEffect
<1>3. /\ \A m \in Id \ {m0} : post'[m] = post[m]
      /\ post'[m0] = "published"
  BY <1>2 DEF PostTo
<1>4. \/ Queue' = Queue \cup {NoticeOf("new", m0)} /\ misled' = misled
      \/ Queue' = Queue /\ misled' = misled \cup {m0}
  BY <1>1, NotifyIs
<1>5. /\ \A k \in Kind : NoticeOf(k, m0) \notin Queue
      /\ Copies' = Copies /\ \A e \in Copies : e.id # m0
  BY <1>1, CopiesStay DEF CurrentInv, UnsentUnseen
<1>6. misled \subseteq misled' /\ Queue \subseteq Queue'
  BY <1>4
<1>7. \A m \in Id, kind \in Kind : NoticeOf(kind, m) \in Queue' =>
         NoticeOf(kind, m) \in Queue \/ (kind = "new" /\ m = m0)
  BY <1>4, NoticesDiffer
<1>8. {"new", "edit", "delete"} = Kind
  BY DEF Kind
<1>9. ChangesMade'
  BY <1>1, <1>3, <1>6 DEF CurrentInv, ChangesMade
<1>10. NoticesTrue'
  BY <1>1, <1>3, <1>6, <1>7, <1>8 DEF CurrentInv, NoticesTrue
<1>11. EditsPosted'
  BY <1>1, <1>3 DEF CurrentInv, EditsPosted
<1>12. UnsentUnseen'
  BY <1>1, <1>3, <1>5, <1>7 DEF CurrentInv, UnsentUnseen
<1>13. NewFirst'
  BY <1>1, <1>5, NewFirstNotify DEF CurrentInv
<1>14. \A m \in Id \ {m0} : UnderWay(m)' => UnderWay(m)
  BY <1>1, <1>7, <1>8 DEF UnderWay
<1>15. CopiesCurrent'
  BY <1>1, <1>3, <1>5, <1>6, <1>14 DEF CurrentInv, CopiesCurrent, Edited
<1>16. OthersReadable'
  BY <1>5 DEF CurrentInv, OthersReadable
<1> QED
  BY <1>9, <1>10, <1>11, <1>12, <1>13, <1>15, <1>16 DEF CurrentInv

LEMMA ChangePublishedCurrent ==
    ASSUME TimelineTypeInv, CurrentInv, NEW m0 \in Id, NEW kind \in {"edit", "delete"},
           ChangePublished(m0, kind)
    PROVE  CurrentInv'
<1> USE DEF TimelineTypeInv
<1>1. /\ post[m0] = "committed" /\ (kind = "edit" => version[m0] = 0)
      /\ changing' = changing \cup {NoticeOf(kind, m0)}
      /\ Notify(kind, m0) /\ kind \in Kind /\ kind # "new"
      /\ UNCHANGED <<post, version, decrypting, awaited, list, load, raced, outdated>>
  BY DEF ChangePublished, store, Kind, NoticeOf
<1>2. \/ Queue' = Queue \cup {NoticeOf(kind, m0)} /\ misled' = misled
      \/ Queue' = Queue /\ misled' = misled \cup {m0}
  BY <1>1, NotifyIs
<1>3. Copies' = Copies
  BY <1>1, CopiesStay
<1>4. misled \subseteq misled' /\ Queue \subseteq Queue'
  BY <1>2
<1>5. \A m \in Id, k \in Kind : NoticeOf(k, m) \in Queue' =>
         NoticeOf(k, m) \in Queue \/ (k = kind /\ m = m0)
  BY <1>2, NoticesDiffer
<1>6. \A m \in Id, k \in Kind : NoticeOf(k, m) \in changing' <=>
         NoticeOf(k, m) \in changing \/ (k = kind /\ m = m0)
  BY <1>1, NoticesDiffer
<1>7. {"new", "edit", "delete"} = Kind
  BY DEF Kind
<1>8. ChangesMade'
  <2> SUFFICES ASSUME NEW m \in Id
               PROVE  /\ NoticeOf("delete", m) \in changing' => post[m] = "committed"
                      /\ NoticeOf("edit", m) \in changing' =>
                            post[m] \in {"committed", "deleted"} /\ version[m] = 0
                      /\ \A k \in {"edit", "delete"} : NoticeOf(k, m) \in changing' =>
                            NoticeOf(k, m) \in Queue' \/ m \in misled' \cup raced
    BY <1>1 DEF ChangesMade
  <2>1. /\ NoticeOf("delete", m) \in changing' => post[m] = "committed"
        /\ NoticeOf("edit", m) \in changing' =>
              post[m] \in {"committed", "deleted"} /\ version[m] = 0
    BY <1>1, <1>6, <1>7 DEF CurrentInv, ChangesMade
  <2>2. ASSUME NEW k \in {"edit", "delete"}, NoticeOf(k, m) \in changing'
        PROVE  NoticeOf(k, m) \in Queue' \/ m \in misled' \cup raced
    <3>1. CASE NoticeOf(k, m) \in changing
      BY <1>4, <3>1 DEF CurrentInv, ChangesMade
    <3>2. CASE k = kind /\ m = m0
      BY <1>2, <3>2
    <3> QED
      BY <1>6, <1>7, <2>2, <3>1, <3>2
  <2> QED
    BY <2>1, <2>2
<1>9. NoticesTrue'
  BY <1>1, <1>4, <1>5, <1>6, <1>7 DEF CurrentInv, NoticesTrue
<1>10. EditsPosted'
  BY <1>1 DEF CurrentInv, EditsPosted
<1>11. UnsentUnseen'
  BY <1>1, <1>3, <1>5 DEF CurrentInv, UnsentUnseen
<1>12. NewFirst'
  BY <1>1, NewFirstNotify DEF CurrentInv
<1>13. \A m \in Id : UnderWay(m)' => UnderWay(m)
  BY <1>1, <1>5, <1>7 DEF UnderWay
<1>14. CopiesCurrent'
  BY <1>1, <1>3, <1>4, <1>13 DEF CurrentInv, CopiesCurrent, Edited
<1>15. OthersReadable'
  BY <1>3 DEF CurrentInv, OthersReadable
<1> QED
  BY <1>8, <1>9, <1>10, <1>11, <1>12, <1>14, <1>15 DEF CurrentInv

LEMMA ChangeCommittedCurrent ==
    ASSUME TimelineTypeInv, CurrentInv, NEW m0 \in Id, NEW kind \in {"edit", "delete"},
           ChangeCommitted(m0, kind)
    PROVE  CurrentInv'
<1> USE DEF TimelineTypeInv
<1>1. /\ NoticeOf(kind, m0) \in changing /\ changing' = changing \ {NoticeOf(kind, m0)}
      /\ UNCHANGED <<events, misled, decrypting, awaited, list, load, raced, outdated>>
  BY DEF ChangeCommitted, store, socket, causes, NoticeOf
<1>2. Queue' = Queue /\ Copies' = Copies
  BY <1>1, CopiesStay DEF Queue
<1>3. \A m \in Id \ {m0} : post'[m] = post[m] /\ version'[m] = version[m]
  BY DEF ChangeCommitted, TimelineTypeOK
<1>4. /\ kind = "delete" => post'[m0] = "deleted" /\ version'[m0] = version[m0]
      /\ kind = "edit" => /\ post'[m0] = post[m0]
                          /\ post[m0] = "committed" => version'[m0] = 1
                          /\ post[m0] # "committed" => version'[m0] = version[m0]
  BY DEF ChangeCommitted, TimelineTypeOK
<1>5. /\ post[m0] \in {"committed", "deleted"}
      /\ NoticeOf(kind, m0) \in Queue \/ m0 \in misled \cup raced
  BY <1>1 DEF CurrentInv, ChangesMade
<1>6. post'[m0] \in {"committed", "deleted"}
  BY <1>4, <1>5
<1>7. \A m \in Id, k \in Kind : NoticeOf(k, m) \in changing' <=>
         NoticeOf(k, m) \in changing /\ ~ (k = kind /\ m = m0)
  BY <1>1, NoticesDiffer
<1>8. {"new", "edit", "delete"} = Kind
  BY DEF Kind
<1>9. ChangesMade'
  BY <1>1, <1>2, <1>3, <1>4, <1>6, <1>7, <1>8 DEF CurrentInv, ChangesMade
<1>10. NoticesTrue'
  BY <1>1, <1>2, <1>3, <1>4, <1>5, <1>7, <1>8 DEF CurrentInv, NoticesTrue
<1>11. EditsPosted'
  BY <1>3, <1>6 DEF CurrentInv, EditsPosted
<1>12. UnsentUnseen'
  BY <1>1, <1>2, <1>3, <1>6 DEF CurrentInv, UnsentUnseen
<1>13. NewFirst'
  BY <1>1 DEF CurrentInv, NewFirst
<1>14. \A m \in Id : UnderWay(m)' => UnderWay(m)
  BY <1>1, <1>2 DEF UnderWay
<1>15. CopiesCurrent'
  BY <1>1, <1>2, <1>3, <1>4, <1>5, <1>14 DEF CurrentInv, CopiesCurrent, Edited
<1>16. OthersReadable'
  BY <1>2 DEF CurrentInv, OthersReadable
<1> QED
  BY <1>9, <1>10, <1>11, <1>12, <1>13, <1>15, <1>16 DEF CurrentInv

\* A change that was published is rolled back.
LEMMA ChangeUndoneCurrent ==
    ASSUME TimelineTypeInv, CurrentInv, NEW m0 \in Id, NEW kind \in {"edit", "delete"},
           ChangeUndone(m0, kind)
    PROVE  CurrentInv'
<1> USE DEF TimelineTypeInv
<1>1. /\ changing' = changing \ {NoticeOf(kind, m0)} /\ misled' = misled \cup {m0}
      /\ UNCHANGED <<post, version, events, decrypting, awaited, list, load, raced, outdated>>
  BY DEF ChangeUndone, store, socket, NoticeOf
<1>2. Queue' = Queue /\ Copies' = Copies
  BY <1>1, CopiesStay DEF Queue
<1>3. \A m \in Id, k \in {"edit", "delete"} : NoticeOf(k, m) \in changing =>
         NoticeOf(k, m) \in changing' \/ m \in misled'
  BY <1>1, NoticesDiffer
<1>4. ChangesMade'
  BY <1>1, <1>2 DEF CurrentInv, ChangesMade
<1>5. NoticesTrue'
  BY <1>1, <1>2, <1>3 DEF CurrentInv, NoticesTrue
<1>6. EditsPosted' /\ NewFirst'
  BY <1>1 DEF CurrentInv, EditsPosted, NewFirst
<1>7. UnsentUnseen'
  BY <1>1, <1>2 DEF CurrentInv, UnsentUnseen
<1>8. \A m \in Id : UnderWay(m)' => UnderWay(m)
  BY <1>1, <1>2 DEF UnderWay
<1>9. CopiesCurrent'
  BY <1>1, <1>2, <1>8 DEF CurrentInv, CopiesCurrent, Edited
<1>10. OthersReadable'
  BY <1>2 DEF CurrentInv, OthersReadable
<1> QED
  BY <1>4, <1>5, <1>6, <1>7, <1>9, <1>10 DEF CurrentInv

LEMMA ClosedCurrent ==
    ASSUME TimelineTypeInv, CurrentInv, SocketCloses
    PROVE  CurrentInv'
<1> USE DEF TimelineTypeInv
<1>1. /\ events' = <<>> /\ misled' = misled \cup Ids(events)
      /\ UNCHANGED <<post, version, changing, decrypting, awaited, list, load, raced, outdated>>
  BY DEF SocketCloses, server, store
<1>2. Queue' = {} /\ Copies' = Copies
  BY <1>1, CopiesStay DEF Queue, Entries
<1>3. \A m \in Id, kind \in Kind : NoticeOf(kind, m) \in Queue => m \in misled'
  BY <1>1, QueuedIs
<1>4. {"new", "edit", "delete"} = Kind
  BY DEF Kind
<1>5. ChangesMade'
  BY <1>1, <1>2, <1>3, <1>4 DEF CurrentInv, ChangesMade
<1>6. NoticesTrue' /\ NewFirst'
  BY <1>1, <1>2 DEF NoticesTrue, NewFirst
<1>7. EditsPosted'
  BY <1>1 DEF CurrentInv, EditsPosted
<1>8. UnsentUnseen'
  BY <1>1, <1>2 DEF CurrentInv, UnsentUnseen
<1>9. \A m \in Id : UnderWay(m)' => UnderWay(m)
  BY <1>1, <1>2 DEF UnderWay
<1>10. CopiesCurrent'
  BY <1>1, <1>2, <1>3, <1>4, <1>9 DEF CurrentInv, CopiesCurrent, Edited
<1>11. OthersReadable'
  BY <1>2 DEF CurrentInv, OthersReadable
<1> QED
  BY <1>5, <1>6, <1>7, <1>8, <1>10, <1>11 DEF CurrentInv

\* What the socket brings first leaves the others in their order, and what tells of a
\* change leaves no notice of the message behind it.
LEMMA NewFirstTail ==
    ASSUME TimelineTypeOK, NewFirst, events # <<>>, events' = Tail(events)
    PROVE  /\ NewFirst'
           /\ Queue' \subseteq Queue /\ Queue \subseteq Queue' \cup {Head(events)}
           /\ Head(events).kind # "new" => NoticeOf("new", Head(events).id) \notin Queue'
<1>1. events \in Seq(Notice)
  BY DEF TimelineTypeOK
<1>2. PICK q : q = Tail(events)
  OBVIOUS
<1>3. /\ DOMAIN events = 1 .. Len(events) /\ Len(events) \in Nat /\ 1 \in DOMAIN events
      /\ Head(events) = events[1]
      /\ DOMAIN q = 1 .. Len(events) - 1
      /\ \A i \in DOMAIN q : i + 1 \in DOMAIN events /\ q[i] = events[i + 1]
      /\ Entries(q) \subseteq Entries(events)
      /\ Entries(events) \subseteq Entries(q) \cup {Head(events)}
  BY <1>1, <1>2, TailEntries
<1>4. ASSUME NEW i \in DOMAIN q, NEW j \in DOMAIN q, i < j, q[i].kind # "new"
      PROVE  q[j] # NoticeOf("new", q[i].id)
  <2>1. i + 1 < j + 1
    BY <1>3, <1>4
  <2> QED
    BY <1>3, <1>4, <2>1 DEF NewFirst
<1>5. ASSUME Head(events).kind # "new", NEW e \in Entries(q)
      PROVE  e # NoticeOf("new", Head(events).id)
  <2>1. PICK j \in DOMAIN q : e = q[j]
    BY <1>5 DEF Entries
  <2>2. 1 < j + 1 /\ j + 1 \in DOMAIN events /\ e = events[j + 1]
    BY <1>3, <2>1
  <2> QED
    BY <1>3, <1>5, <2>2 DEF NewFirst
<1>6. events' = q
  BY <1>2
<1> QED
  BY <1>3, <1>4, <1>5, <1>6 DEF NewFirst, Queue

LEMMA NewReceivedCurrent ==
    ASSUME TimelineTypeInv, CurrentInv, NewReceived
    PROVE  CurrentInv'
<1> USE DEF TimelineTypeInv
<1>1. PICK m0 : m0 = Head(events).id
  OBVIOUS
<1>2. /\ events # <<>> /\ events' = Tail(events)
      /\ decrypting' = decrypting \cup {m0}
      /\ UNCHANGED <<post, version, changing, awaited, list, load, misled, raced,
                   outdated>>
  BY <1>1 DEF NewReceived, server, store, causes
<1>3. Head(events) = NoticeOf("new", m0) /\ m0 \in Id /\ NoticeOf("new", m0) \in Queue
  BY <1>1, <1>2, HeadOf DEF NewReceived
<1>4. NewFirst' /\ Queue' \subseteq Queue /\ Queue \subseteq Queue' \cup {NoticeOf("new", m0)}
  BY <1>2, <1>3, NewFirstTail DEF CurrentInv
<1>5. Copies' = Copies
  BY <1>2, CopiesStay
<1>6. \A m \in Id, kind \in {"edit", "delete"} : NoticeOf(kind, m) \in Queue =>
         NoticeOf(kind, m) \in Queue'
  <2>1. \A m \in Id, kind \in {"edit", "delete"} : NoticeOf(kind, m) # NoticeOf("new", m0)
    BY NoticesDiffer
  <2> QED
    BY <1>4, <2>1
<1>7. {"new", "edit", "delete"} = Kind
  BY DEF Kind
<1>8. ChangesMade'
  BY <1>2, <1>6 DEF CurrentInv, ChangesMade
<1>9. NoticesTrue'
  BY <1>2, <1>4 DEF CurrentInv, NoticesTrue
<1>10. EditsPosted'
  BY <1>2 DEF CurrentInv, EditsPosted
<1>11. UnsentUnseen'
  BY <1>2, <1>3, <1>4, <1>5, <1>7 DEF CurrentInv, UnsentUnseen
<1>12. \A m \in Id : UnderWay(m)' => UnderWay(m)
  BY <1>2, <1>3, <1>4 DEF UnderWay
<1>13. CopiesCurrent'
  BY <1>2, <1>4, <1>5, <1>6, <1>12 DEF CurrentInv, CopiesCurrent, Edited
<1>14. OthersReadable'
  BY <1>5 DEF CurrentInv, OthersReadable
<1> QED
  BY <1>4, <1>8, <1>9, <1>10, <1>11, <1>13, <1>14 DEF CurrentInv

\* A change the socket brings: the list is as the change wants it.
ChangeMet(kind, m) ==
    /\ events # <<>> /\ events' = Tail(events)
    /\ Head(events) = NoticeOf(kind, m)
    /\ UNCHANGED <<post, version, changing, decrypting, awaited, load, misled, outdated>>
    /\ raced' \in {raced, raced \cup {m}}
    /\ m \notin raced' => /\ m \notin decrypting \cup awaited
                          /\ NoticeOf(kind, m) \notin changing
                          /\ \A s \in Slot : load[s].stage = "idle"
    /\ \/ /\ kind = "delete"
          /\ Entries(list') = {e \in Entries(list) : e.id # m}
       \/ /\ kind = "edit"
          /\ Entries(list') = {EditedEntry(e, m) : e \in Entries(list)}

LEMMA ChangeMetIs ==
    ASSUME TimelineTypeOK, ChangeReceived
    PROVE  \E kind \in {"edit", "delete"}, m \in Id : ChangeMet(kind, m)
<1>1. PICK kind, m : kind = Head(events).kind /\ m = Head(events).id
  OBVIOUS
<1>2. /\ events # <<>> /\ kind # "new" /\ events' = Tail(events)
      /\ UNCHANGED <<post, version, changing, decrypting, awaited, load, misled, outdated>>
  BY <1>1 DEF ChangeReceived, server
<1>3. /\ m \in Id /\ kind \in {"edit", "delete"} /\ Head(events) = NoticeOf(kind, m)
  BY <1>1, <1>2, HeadOf DEF Kind
<1>4. raced' = IF \/ m \in decrypting \cup awaited
                  \/ NoticeOf(kind, m) \in changing
                  \/ \E s \in Slot : load[s].stage # "idle"
               THEN raced \cup {m} ELSE raced
  BY <1>1 DEF ChangeReceived, NoticeOf
<1>5. \/ kind = "delete" /\ Entries(list') = {e \in Entries(list) : e.id # m}
      \/ kind = "edit" /\ Entries(list') = {EditedEntry(e, m) : e \in Entries(list)}
  <2>1. CASE kind = "delete"
    <3>1. PICK kept \in Ascending({i \in DOMAIN list : list[i].id # m}) :
             list' = [i \in DOMAIN kept |-> list[kept[i]]]
      BY <1>1, <2>1 DEF ChangeReceived
    <3> QED
      BY <2>1, <3>1, RemovedIs
  <2>2. CASE kind = "edit"
    <3>1. list' = [i \in DOMAIN list |->
                     IF list[i].id = m THEN [list[i] EXCEPT !.version = 1] ELSE list[i]]
      BY <1>1, <2>2 DEF ChangeReceived
    <3> QED
      BY <2>2, <3>1, EditedIs
  <2> QED
    BY <1>3, <2>1, <2>2
<1> QED
  BY <1>2, <1>3, <1>4, <1>5 DEF ChangeMet

LEMMA ChangeReceivedCurrent ==
    ASSUME TimelineTypeInv, CurrentInv, NEW kind \in {"edit", "delete"}, NEW m0 \in Id,
           ChangeMet(kind, m0)
    PROVE  CurrentInv'
<1> USE DEF TimelineTypeInv
<1>1. /\ events # <<>> /\ events' = Tail(events) /\ Head(events) = NoticeOf(kind, m0)
      /\ UNCHANGED <<post, version, changing, decrypting, awaited, load, misled, outdated>>
      /\ raced \subseteq raced' /\ raced' \subseteq raced \cup {m0}
  BY DEF ChangeMet
<1>2. m0 \notin raced' => /\ m0 \notin decrypting \cup awaited
                          /\ NoticeOf(kind, m0) \notin changing
                          /\ \A s \in Slot : load[s].stage = "idle"
  BY DEF ChangeMet
<1>3. Head(events) \in Queue /\ NoticeOf(kind, m0).kind = kind /\ NoticeOf(kind, m0).id = m0
  BY <1>1, HeadOf DEF NoticeOf
<1>4. /\ NewFirst' /\ Queue' \subseteq Queue /\ Queue \subseteq Queue' \cup {NoticeOf(kind, m0)}
      /\ NoticeOf("new", m0) \notin Queue'
  BY <1>1, <1>3, NewFirstTail DEF CurrentInv
<1>5. \A m \in Id, k \in Kind : NoticeOf(k, m) \in Queue =>
         NoticeOf(k, m) \in Queue' \/ (k = kind /\ m = m0)
  <2> SUFFICES ASSUME NEW m \in Id, NEW k \in Kind, NoticeOf(k, m) \in Queue,
                      NoticeOf(k, m) \notin Queue'
               PROVE  k = kind /\ m = m0
    OBVIOUS
  <2>1. NoticeOf(k, m) = NoticeOf(kind, m0)
    BY <1>4
  <2> QED
    BY <2>1, NoticesDiffer
<1>6. {"new", "edit", "delete"} = Kind
  BY DEF Kind
<1>7. \/ NoticeOf(kind, m0) \in changing \/ post[m0] = "deleted" \/ m0 \in misled
      \/ kind = "edit" /\ version[m0] = 1
  BY <1>1, <1>3 DEF CurrentInv, NoticesTrue
<1>8. /\ \A e \in Copies' : e.id # m0 => e \in Copies
      /\ \A e \in Copies' : \E d \in Copies : d.id = e.id
      /\ \A e \in Copies' : e \in Copies \/ e.version = 1
      /\ m0 \notin raced' /\ kind = "delete" => \A e \in Copies' : e.id # m0
      /\ m0 \notin raced' /\ kind = "edit" => \A e \in Copies' : e.id = m0 => e.version = 1
  <2>1. Copies' = Entries(list') \cup UNION {Entries(load[s].page) : s \in Slot}
    BY <1>1 DEF Copies
  <2>2. m0 \notin raced' => Copies' = Entries(list')
    <3>1. Entries(<<>>) = {}
      BY DEF Entries
    <3>2. m0 \notin raced' => \A s \in Slot : load[s].page = <<>>
      BY <1>2, LoadIs DEF PagesInv
    <3> QED
      BY <2>1, <3>1, <3>2
  <2>3. Entries(list) \subseteq Entry /\ Entries(list) \subseteq Copies
    <3>1. list \in Seq(Entry)
      BY DEF TimelineTypeOK
    <3> QED
      BY <3>1, ElementOfSeq, LenProperties DEF Entries, Copies
  <2>4. \A e \in Entry : /\ EditedEntry(e, m0).id = e.id
                         /\ e.id # m0 => EditedEntry(e, m0) = e
                         /\ e.id = m0 => EditedEntry(e, m0).version = 1
    BY DEF EditedEntry, Entry
  <2>5. /\ \A e \in Entries(list') : e.id # m0 => e \in Entries(list)
        /\ \A e \in Entries(list') : \E d \in Entries(list) : d.id = e.id
        /\ \A e \in Entries(list') : e \in Entries(list) \/ e.version = 1
        /\ kind = "delete" => \A e \in Entries(list') : e.id # m0
        /\ kind = "edit" => \A e \in Entries(list') : e.id = m0 => e.version = 1
    <3>1. CASE /\ kind = "delete"
               /\ Entries(list') = {e \in Entries(list) : e.id # m0}
      BY <3>1
    <3>2. CASE /\ kind = "edit"
               /\ Entries(list') = {EditedEntry(e, m0) : e \in Entries(list)}
      <4>1. \A e \in Entries(list') : \E d \in Entries(list) : e = EditedEntry(d, m0)
        BY <3>2
      <4> QED
        BY <2>3, <2>4, <3>2, <4>1
    <3> QED
      BY <3>1, <3>2 DEF ChangeMet
  <2>6. \A e \in Copies' : e \in Entries(list') \/ e \in Copies
    BY <2>1 DEF Copies
  <2>7. /\ \A e \in Copies' : e.id # m0 => e \in Copies
        /\ \A e \in Copies' : \E d \in Copies : d.id = e.id
        /\ \A e \in Copies' : e \in Copies \/ e.version = 1
    BY <2>3, <2>5, <2>6
  <2>8. /\ m0 \notin raced' /\ kind = "delete" => \A e \in Copies' : e.id # m0
        /\ m0 \notin raced' /\ kind = "edit" => \A e \in Copies' : e.id = m0 => e.version = 1
    BY <2>2, <2>5
  <2> QED
    BY <2>7, <2>8
<1>9. ChangesMade'
  BY <1>1, <1>2, <1>5, <1>6 DEF CurrentInv, ChangesMade
<1>10. NoticesTrue'
  BY <1>1, <1>4 DEF CurrentInv, NoticesTrue
<1>11. EditsPosted'
  BY <1>1 DEF CurrentInv, EditsPosted
<1>12. UnsentUnseen'
  BY <1>1, <1>4, <1>8 DEF CurrentInv, UnsentUnseen
<1>13. \A m \in Id : UnderWay(m)' => UnderWay(m)
  BY <1>1, <1>4 DEF UnderWay
<1>14. m0 \notin raced' => ~ UnderWay(m0)'
  BY <1>1, <1>2, <1>4 DEF UnderWay
<1>15. CopiesCurrent'
  <2> SUFFICES ASSUME NEW m \in Id, m \notin misled \cup raced'
               PROVE  /\ post[m] = "deleted" =>
                            \/ NoticeOf("delete", m) \in Queue'
                            \/ ~ UnderWay(m)' /\ \A e \in Copies' : e.id # m
                      /\ post[m] = "committed" /\ version[m] = 1 =>
                            \/ NoticeOf("edit", m) \in Queue'
                            \/ ~ UnderWay(m)' /\ \A e \in Copies' : e.id = m => Edited(e)'
                      /\ post[m] # "deleted" /\ version[m] = 0 =>
                            \A e \in Copies' : e.id = m => e.version # 1
    BY <1>1 DEF CopiesCurrent
  <2>1. /\ post[m] = "deleted" =>
              \/ NoticeOf("delete", m) \in Queue
              \/ ~ UnderWay(m) /\ \A e \in Copies : e.id # m
        /\ post[m] = "committed" /\ version[m] = 1 =>
              \/ NoticeOf("edit", m) \in Queue
              \/ ~ UnderWay(m) /\ \A e \in Copies : e.id = m => Edited(e)
        /\ post[m] # "deleted" /\ version[m] = 0 =>
              \A e \in Copies : e.id = m => e.version # 1
    BY <1>1 DEF CurrentInv, CopiesCurrent
  <2>2. CASE m # m0
    <3>1. \A e \in Copies' : e.id = m => e \in Copies /\ (Edited(e) => Edited(e)')
      BY <1>1, <1>8, <2>2 DEF Edited
    <3> QED
      BY <1>5, <1>6, <1>13, <2>1, <2>2, <3>1
  <2>3. CASE m = m0 /\ kind = "delete"
    <3>1. post[m] = "deleted" /\ ~ UnderWay(m)' /\ \A e \in Copies' : e.id # m
      BY <1>2, <1>7, <1>8, <1>14, <2>3
    <3> QED
      BY <3>1
  <2>4. CASE m = m0 /\ kind = "edit"
    <3>1. /\ ~ UnderWay(m)' /\ \A e \in Copies' : e.id = m => Edited(e)'
          /\ post[m] = "deleted" \/ version[m] = 1
      BY <1>2, <1>7, <1>8, <1>14, <2>4 DEF Edited
    <3>2. post[m] = "deleted" => NoticeOf("delete", m) \in Queue' \/ \A e \in Copies' : e.id # m
      BY <1>5, <1>6, <1>8, <2>1, <2>4
    <3> QED
      BY <3>1, <3>2
  <2> QED
    BY <2>2, <2>3, <2>4
<1>16. OthersReadable'
  BY <1>8 DEF CurrentInv, OthersReadable, Unreadable
<1> QED
  BY <1>4, <1>9, <1>10, <1>11, <1>12, <1>15, <1>16 DEF CurrentInv

\* A message pushed and decrypted, or answered, is listed unless it was.
LEMMA AddedCurrent ==
    ASSUME TimelineTypeInv, CurrentInv, NEW m0 \in Id, Decrypted(m0) \/ Answered(m0)
    PROVE  CurrentInv'
<1> USE DEF TimelineTypeInv
<1>1. PICK v \in {0, Unreadable}, b \in BOOLEAN :
         AddMessage(EntryOf(m0, v, b)) /\ (v = Unreadable => m0 \in Sealed)
  BY ShowsIs
<1>2. /\ UNCHANGED <<post, version, changing, events, load, misled, raced, outdated>>
      /\ decrypting' \subseteq decrypting /\ awaited' \subseteq awaited
      /\ m0 \in decrypting \cup awaited
      /\ m0 \in decrypting \/ post[m0] \in {"committed", "deleted"}
  BY DEF Decrypted, Answered, server, socket
<1>3. \/ list' = list
      \/ Entries(list') = Entries(list) \cup {EntryOf(m0, v, b)}
  BY <1>1, AddIs
<1>4. Queue' = Queue /\ Copies' \subseteq Copies \cup {EntryOf(m0, v, b)}
  BY <1>2, <1>3 DEF Queue, Copies
<1>5. EntryOf(m0, v, b).id = m0 /\ EntryOf(m0, v, b).version = v /\ v # 1
  BY DEF EntryOf, Unreadable
<1>6. post[m0] \notin {"none", "open"}
  BY <1>2 DEF CurrentInv, UnsentUnseen
<1>7. ChangesMade' /\ NoticesTrue' /\ EditsPosted' /\ NewFirst'
  BY <1>2, <1>4 DEF CurrentInv, ChangesMade, NoticesTrue, EditsPosted, NewFirst
<1>8. UnsentUnseen'
  BY <1>2, <1>4, <1>5, <1>6 DEF CurrentInv, UnsentUnseen
<1>9. \A m \in Id : UnderWay(m)' => UnderWay(m)
  BY <1>2, <1>4 DEF UnderWay
<1>10. UnderWay(m0)
  BY <1>2 DEF UnderWay
<1>11. CopiesCurrent'
  BY <1>2, <1>4, <1>5, <1>9, <1>10 DEF CurrentInv, CopiesCurrent, Edited
<1>12. OthersReadable'
  BY <1>1, <1>4, <1>5 DEF CurrentInv, OthersReadable
<1> QED
  BY <1>7, <1>8, <1>11, <1>12 DEF CurrentInv

\* A page has what the server has, of all the messages it reaches.
LEMMA PageReadCurrent ==
    ASSUME TimelineTypeInv, CurrentInv, NEW s \in Slot, PageRead(s)
    PROVE  CurrentInv'
<1> USE DEF TimelineTypeInv
<1>1. PICK l : /\ LoadTo(s, l)
               /\ Entries(l.page) = {EntryOf(m, version[m], FALSE) : m \in Newest(Older(s))}
  BY PageReadIs
<1>2. /\ UNCHANGED <<post, version, changing, events, decrypting, awaited, list, raced, outdated>>
      /\ misled' = misled \ Caught(s)
  BY DEF PageRead, server, socket, store
<1>3. load[s].page = <<>>
  BY DEF PageRead, PagesInv
<1>4. Queue' = Queue
  BY <1>2 DEF Queue
<1>5. \A e \in Entries(l.page) : /\ e.id \in Id /\ post[e.id] = "committed"
                                 /\ e.version = version[e.id]
  <2>1. ASSUME NEW m \in Newest(Older(s))
        PROVE  /\ EntryOf(m, version[m], FALSE).id = m /\ m \in Id /\ post[m] = "committed"
               /\ EntryOf(m, version[m], FALSE).version = version[m]
    BY OlderIs DEF EntryOf
  <2> SUFFICES ASSUME NEW e \in Entries(l.page)
               PROVE  e.id \in Id /\ post[e.id] = "committed" /\ e.version = version[e.id]
    OBVIOUS
  <2>2. PICK m \in Newest(Older(s)) : e = EntryOf(m, version[m], FALSE)
    BY <1>1
  <2> QED
    BY <2>1, <2>2
<1>6. Copies' \subseteq Copies \cup Entries(l.page)
  <2>1. Copies' = Entries(list) \cup UNION {Entries(load'[r].page) : r \in Slot}
    BY <1>2 DEF Copies
  <2>2. ASSUME NEW r \in Slot
        PROVE  Entries(load'[r].page) \subseteq Copies \cup Entries(l.page)
    <3>1. load'[s] = l /\ (r # s => load'[r] = load[r])
      BY <1>1 DEF LoadTo
    <3>2. CASE r = s
      BY <3>1, <3>2
    <3>3. CASE r # s
      BY <3>1, <3>3 DEF Copies
    <3> QED
      BY <3>2, <3>3
  <2>3. Entries(list) \subseteq Copies
    BY DEF Copies
  <2> QED
    BY <2>1, <2>2, <2>3
\* Of a message the load finds out about there was no copy, and no notice.
<1>7. ASSUME NEW m \in Caught(s)
      PROVE  /\ m \in Id /\ post[m] \in {"committed", "deleted"}
             /\ \A kind \in Kind : NoticeOf(kind, m) \notin Queue
             /\ ~ UnderWay(m)
             /\ \A kind \in Kind : NoticeOf(kind, m) \notin changing
             /\ \A e \in Copies : e.id # m
  <2>1. /\ m \in Id /\ post[m] \in {"committed", "deleted"}
        /\ m \notin Listed \cup Ids(events) \cup decrypting \cup awaited
        /\ ~ \E c \in changing : c.id = m
        /\ \A r \in Slot \ {s} : load[r].stage = "idle"
    BY DEF Caught
  <2>2. \A kind \in Kind : NoticeOf(kind, m) \notin Queue
    BY <2>1, QueuedIs
  <2>3. ~ UnderWay(m)
    BY <2>1, <2>2 DEF UnderWay, Kind
  <2>4. \A kind \in Kind : NoticeOf(kind, m) \notin changing
    BY <2>1, NoticeOfIs
  <2>5. \A r \in Slot : load[r].page = <<>>
    <3>1. \A r \in Slot \ {s} : load[r].page = <<>>
      BY <2>1, LoadIs DEF PagesInv
    <3> QED
      BY <1>3, <3>1
  <2>6. \A e \in Copies : e.id # m
    <3>1. Entries(<<>>) = {}
      BY DEF Entries
    <3>2. Copies = Entries(list)
      BY <2>5, <3>1 DEF Copies
    <3>3. \A e \in Entries(list) : e.id \in Listed
      BY IdsAre DEF Listed
    <3> QED
      BY <2>1, <3>2, <3>3
  <2> QED
    BY <2>1, <2>2, <2>3, <2>4, <2>6
<1>8. {"new", "edit", "delete"} = Kind
  BY DEF Kind
<1>9. ChangesMade'
  <2>1. \A m \in Id, kind \in {"edit", "delete"} :
           NoticeOf(kind, m) \in changing => m \notin Caught(s)
    BY <1>7, <1>8
  <2> QED
    BY <1>2, <1>4, <2>1 DEF CurrentInv, ChangesMade
<1>10. NoticesTrue'
  <2>1. \A m \in Id, kind \in {"edit", "delete"} :
           NoticeOf(kind, m) \in Queue => m \notin Caught(s)
    BY <1>7, <1>8
  <2> QED
    BY <1>2, <1>4, <2>1 DEF CurrentInv, NoticesTrue
<1>11. EditsPosted' /\ NewFirst'
  BY <1>2, <1>4 DEF CurrentInv, EditsPosted, NewFirst
<1>12. OthersReadable'
  <2>1. \A m \in Id : version[m] \in {0, 1} /\ version[m] # Unreadable
    BY DEF TimelineTypeOK, Unreadable
  <2>2. \A e \in Entries(l.page) : e.version # Unreadable
    BY <1>5, <2>1
  <2> QED
    BY <1>6, <2>2 DEF CurrentInv, OthersReadable
<1>13. UnsentUnseen'
  BY <1>2, <1>4, <1>5, <1>6 DEF CurrentInv, UnsentUnseen
<1>14. \A m \in Id : UnderWay(m)' <=> UnderWay(m)
  BY <1>2, <1>4 DEF UnderWay
<1>15. CopiesCurrent'
  <2> SUFFICES ASSUME NEW m \in Id, m \notin misled' \cup raced
               PROVE  /\ post[m] = "deleted" =>
                            \/ NoticeOf("delete", m) \in Queue
                            \/ ~ UnderWay(m) /\ \A e \in Copies' : e.id # m
                      /\ post[m] = "committed" /\ version[m] = 1 =>
                            \/ NoticeOf("edit", m) \in Queue
                            \/ ~ UnderWay(m) /\ \A e \in Copies' : e.id = m => Edited(e)'
                      /\ post[m] # "deleted" /\ version[m] = 0 =>
                            \A e \in Copies' : e.id = m => e.version # 1
    BY <1>2, <1>4, <1>14 DEF CopiesCurrent
  <2>1. \A e \in Copies' : e.id = m =>
           e \in Copies \/ (post[m] = "committed" /\ e.version = version[m])
    <3> SUFFICES ASSUME NEW e \in Copies', e.id = m, e \notin Copies
                 PROVE  post[m] = "committed" /\ e.version = version[m]
      OBVIOUS
    <3>1. e \in Entries(l.page)
      BY <1>6
    <3>2. post[e.id] = "committed" /\ e.version = version[e.id]
      BY <1>5, <3>1
    <3> QED
      BY <3>2
  <2>2. CASE m \in Caught(s)
    <3>1. ~ UnderWay(m) /\ \A e \in Copies : e.id # m
      BY <1>7, <2>2
    <3> QED
      BY <2>1, <3>1 DEF Edited
  <2>3. CASE m \notin Caught(s)
    <3>1. m \notin misled \cup raced
      BY <1>2, <2>3
    <3>2. /\ post[m] = "deleted" =>
                \/ NoticeOf("delete", m) \in Queue
                \/ ~ UnderWay(m) /\ \A e \in Copies : e.id # m
          /\ post[m] = "committed" /\ version[m] = 1 =>
                \/ NoticeOf("edit", m) \in Queue
                \/ ~ UnderWay(m) /\ \A e \in Copies : e.id = m => Edited(e)
          /\ post[m] # "deleted" /\ version[m] = 0 =>
                \A e \in Copies : e.id = m => e.version # 1
      BY <3>1 DEF CurrentInv, CopiesCurrent
    <3>3. \A e : Edited(e) => Edited(e)'
      BY <1>2 DEF Edited
    <3>4. \A e \in Copies' : e.id = m /\ e \notin Copies /\ version[m] = 1 => Edited(e)'
      BY <2>1 DEF Edited
    <3> QED
      BY <2>1, <3>2, <3>3, <3>4
  <2> QED
    BY <2>2, <2>3
<1> QED
  BY <1>9, <1>10, <1>11, <1>12, <1>13, <1>15 DEF CurrentInv

LEMMA CurrentStep ==
    TimelineTypeInv /\ CurrentInv /\ [TimelineNext]_timelineVars => CurrentInv'
<1> SUFFICES ASSUME TimelineTypeInv, CurrentInv, [TimelineNext]_timelineVars
             PROVE  CurrentInv'
  OBVIOUS
<1>1. CASE Serve
  BY <1>1, PostSteps, PublishedCurrent, ChangePublishedCurrent, ChangeCommittedCurrent,
     ChangeUndoneCurrent DEF Serve
<1>2. CASE ChangeReceived
  <2>1. PICK kind \in {"edit", "delete"}, m \in Id : ChangeMet(kind, m)
    BY <1>2, ChangeMetIs DEF TimelineTypeInv
  <2> QED
    BY <2>1, ChangeReceivedCurrent
<1>3. CASE Receive
  BY <1>2, <1>3, ClosedCurrent, NewReceivedCurrent, AddedCurrent, CalmSteps, CalmCurrent
     DEF Receive
<1>4. ASSUME NEW s \in Slot, Load(s)
      PROVE  CurrentInv'
  BY <1>4, PageReadCurrent, CalmSteps, CalmCurrent DEF Load
<1>5. CASE UNCHANGED timelineVars
  BY <1>5, CalmSteps, CalmCurrent
<1> QED
  BY <1>1, <1>3, <1>4, <1>5 DEF TimelineNext

LEMMA CurrentInit == TimelineInit => CurrentInv
<1> SUFFICES ASSUME TimelineInit
             PROVE  CurrentInv
  OBVIOUS
<1>1. NoLoad.page = <<>>
  BY DEF NoLoad
<1>2. Queue = {} /\ Copies = {}
  BY <1>1 DEF TimelineInit, Queue, Copies, Entries
<1>3. ChangesMade /\ NoticesTrue /\ EditsPosted /\ NewFirst
  BY <1>2 DEF TimelineInit, ChangesMade, NoticesTrue, EditsPosted, NewFirst
<1>4. UnsentUnseen /\ CopiesCurrent /\ OthersReadable
  BY <1>2 DEF TimelineInit, UnsentUnseen, CopiesCurrent, OthersReadable
<1> QED
  BY <1>3, <1>4 DEF CurrentInv

LEMMA CurrentInvHolds == TimelineSpec => [](TimelineTypeInv /\ CurrentInv)
<1> QED
  BY TimelineTypesInit, TimelineTypesStep, CurrentInit, CurrentStep, PTL DEF TimelineSpec

LEMMA CurrentShown == TimelineTypeInv /\ CurrentInv => ShownIsCurrent
<1> SUFFICES ASSUME TimelineTypeInv, CurrentInv, NEW i \in DOMAIN list, AtRest(list[i].id)
             PROVE  \/ /\ post[list[i].id] = "committed"
                       /\ \/ list[i].version = version[list[i].id]
                          \/ list[i].version = Unreadable /\ list[i].id \in Sealed
                          \/ list[i].version = 0 /\ list[i].id \in outdated
                    \/ post[list[i].id] = "void"
                    \/ list[i].id \in misled \cup raced
  BY DEF ShownIsCurrent
<1> USE DEF TimelineTypeInv
<1>1. list[i] \in Entries(list) /\ list[i] \in Copies
  BY DEF Entries, Copies
<1>2. PICK e, m : e = list[i] /\ m = list[i].id
  OBVIOUS
<1>3. e \in Entry /\ m \in Id /\ m = e.id /\ e \in Copies
  <2>1. list \in Seq(Entry)
    BY DEF TimelineTypeOK
  <2> QED
    BY <1>1, <1>2, <2>1, ElementOfSeq, LenProperties, EntryIs
<1>4. /\ post[m] \notin {"none", "open", "published"}
      /\ \A kind \in Kind : NoticeOf(kind, m) \notin Queue
  <2>1. post[m] # "published" /\ m \notin Ids(events)
    BY <1>2 DEF AtRest
  <2> QED
    BY <1>3, <2>1, QueuedIs DEF CurrentInv, UnsentUnseen
<1>5. post[m] \in {"committed", "deleted", "void"} /\ version[m] \in {0, 1}
  BY <1>3, <1>4 DEF TimelineTypeOK
<1>6. ASSUME m \notin misled \cup raced
      PROVE  /\ post[m] # "deleted"
             /\ post[m] = "committed" => \/ e.version = version[m]
                                         \/ e.version = Unreadable /\ m \in Sealed
                                         \/ e.version = 0 /\ m \in outdated
  <2>1. {"edit", "delete"} \subseteq Kind
    BY DEF Kind
  <2>2. e.version \in {0, 1, Unreadable}
    BY <1>3, EntryIs
  <2>3. e.version = Unreadable => m \in Sealed
    BY <1>3 DEF CurrentInv, OthersReadable
  <2> QED
    BY <1>3, <1>4, <1>5, <1>6, <2>1, <2>2, <2>3 DEF CurrentInv, CopiesCurrent, Edited
<1> QED
  BY <1>2, <1>5, <1>6

\* ShownIsCurrent: what is listed of a message nothing more happens to is what the
\* server has of it, unless its change met a copy on its way or no socket.
THEOREM ShownAlwaysCurrent == TimelineSpec => []ShownIsCurrent
<1> QED
  BY CurrentInvHolds, CurrentShown, PTL

-----------------------------------------------------------------------------
(***************************************************************************)
(* What is shown is shown once: the invariant.                             *)
(***************************************************************************)

OneLoad == \A s, r \in Slot : Active(s) /\ Active(r) => s = r

ListOrdered ==
    \A i, j \in DOMAIN list : i < j => list[i].id < list[j].id \/ list[j].id \in late

\* What is asked for is older than all that is listed.
MoreBelow ==
    \A s \in Slot : load[s].kind = "more" =>
        \A e \in Entries(list) : load[s].before <= e.id \/ e.id \in late

OnceInv == ~ crossed => OneLoad /\ ListOrdered /\ MoreBelow

LEMMA ListIs ==
    ASSUME TimelineTypeOK
    PROVE  /\ list \in Seq(Entry)
           /\ DOMAIN list = 1 .. Len(list) /\ Len(list) \in Nat
           /\ \A i \in DOMAIN list : list[i] \in Entries(list) /\ list[i].id \in Id
           /\ Entries(list) \subseteq Entry
           /\ \A e \in Entries(list) : e.id \in Id
           /\ Listed = {e.id : e \in Entries(list)}
           /\ list = <<>> <=> Listed = {}
<1>1. list \in Seq(Entry)
  BY DEF TimelineTypeOK
<1>2. DOMAIN list = 1 .. Len(list) /\ Len(list) \in Nat
  BY <1>1, LenProperties
<1>3. \A i \in DOMAIN list : list[i] \in Entries(list) /\ list[i] \in Entry
  BY <1>1, <1>2, ElementOfSeq DEF Entries
<1>4. Entries(list) \subseteq Entry
  BY <1>3 DEF Entries
<1>5. \A e \in Entry : e.id \in Id
  BY EntryIs
<1>6. Listed = {e.id : e \in Entries(list)}
  BY IdsAre DEF Listed
<1>7. list = <<>> <=> Entries(list) = {}
  <2>1. Entries(<<>>) = {}
    BY DEF Entries
  <2>2. list # <<>> => Head(list) \in Entries(list)
    BY <1>1, TailEntries
  <2> QED
    BY <2>1, <2>2
<1> QED
  BY <1>1, <1>2, <1>3, <1>4, <1>5, <1>6, <1>7

LEMMA OnceStays ==
    ASSUME OnceInv, UNCHANGED <<list, load, late, crossed>>
    PROVE  OnceInv'
<1>1. OneLoad => OneLoad'
  BY DEF OneLoad, Active
<1>2. ListOrdered => ListOrdered'
  BY DEF ListOrdered
<1>3. MoreBelow => MoreBelow'
  BY DEF MoreBelow
<1> QED
  BY <1>1, <1>2, <1>3 DEF OnceInv

LEMMA OnceFrame ==
    ASSUME \/ Serve \/ SocketOpens \/ SocketCloses \/ NewReceived \/ UNCHANGED timelineVars
           \/ \E m \in Id : CachePut(m)
    PROVE  UNCHANGED <<list, load, late, crossed>>
BY DEF Serve, PostBegins, PostPublished, PostCommitted, PostUndone, ChangePublished,
   ChangeCommitted, ChangeUndone, SocketOpens, SocketCloses, NewReceived, CachePut,
   timelineVars, store, causes

LEMMA AddedOnce ==
    ASSUME TimelineTypeInv, OnceInv, NEW m \in Id, Decrypted(m) \/ Answered(m)
    PROVE  OnceInv'
<1> USE DEF TimelineTypeInv
<1>1. PICK v \in {0, Unreadable}, b \in BOOLEAN : AddMessage(EntryOf(m, v, b))
  BY ShowsIs
<1>2. UNCHANGED <<load, crossed>>
  BY DEF Decrypted, Answered
<1>3. CASE UNCHANGED <<list, late>>
  BY <1>2, <1>3, OnceStays
<1>4. CASE /\ m \notin Listed
           /\ list' = Append(list, EntryOf(m, v, b))
           /\ Entries(list') = Entries(list) \cup {EntryOf(m, v, b)}
           /\ \/ Behind(m) /\ late' = late \cup {m}
              \/ ~ Behind(m) /\ late' = late
  <2> SUFFICES ASSUME ~ crossed, OneLoad, ListOrdered, MoreBelow
               PROVE  OneLoad' /\ ListOrdered' /\ MoreBelow'
    BY <1>2 DEF OnceInv
  <2>1. OneLoad'
    BY <1>2 DEF OneLoad, Active
  <2>2. EntryOf(m, v, b).id = m /\ EntryOf(m, v, b) \in Entry
    BY EntryOfIs
  <2>3. late \subseteq late'
    BY <1>4
  <2>4. \/ m \in late'
        \/ /\ \A n \in Listed : n < m
           /\ \A s \in Slot : load[s].kind = "more" => load[s].before <= m
    <3>1. CASE Behind(m)
      BY <1>4, <3>1
    <3>2. CASE ~ Behind(m)
      <4>1. /\ \A n \in Listed : ~ n > m
            /\ \A s \in Slot : load[s].kind = "more" => ~ load[s].before > m
        BY <3>2 DEF Behind
      <4>2. \A n \in Listed : n \in Nat /\ n # m
        <5>1. \A n \in Listed : n \in Id
          BY ListIs
        <5>2. \A n \in Listed : n # m
          BY <1>4
        <5> QED
          BY <5>1, <5>2, IdIs
      <4>3. m \in Nat /\ \A s \in Slot : load[s].before \in Nat
        BY LoadIs, IdIs DEF LoadState
      <4> QED
        BY <4>1, <4>2, <4>3
    <3> QED
      BY <3>1, <3>2
  <2>5. ListOrdered'
    <3>1. PICK q : q = Append(list, EntryOf(m, v, b))
      OBVIOUS
    <3>2. /\ DOMAIN list = 1 .. Len(list) /\ Len(list) \in Nat
          /\ DOMAIN q = 1 .. Len(list) + 1
          /\ \A i \in DOMAIN list : q[i] = list[i]
          /\ q[Len(list) + 1].id = m
      BY <2>2, <3>1, ListIs, AppendEntries
    <3>3. ASSUME NEW i \in DOMAIN q, NEW j \in DOMAIN q, i < j
          PROVE  q[i].id < q[j].id \/ q[j].id \in late'
      <4>1. /\ i \in DOMAIN list /\ q[i] = list[i]
            /\ j \in DOMAIN list \/ j = Len(list) + 1
        BY <3>2, <3>3
      <4>2. CASE j \in DOMAIN list
        <5>1. list[i].id < list[j].id \/ list[j].id \in late
          BY <3>3, <4>1, <4>2 DEF ListOrdered
        <5> QED
          BY <2>3, <3>2, <4>1, <4>2, <5>1
      <4>3. CASE j = Len(list) + 1
        <5>1. q[j].id = m
          BY <3>2, <4>3
        <5>2. list[i].id \in Listed
          BY <4>1, ListIs
        <5> QED
          BY <2>4, <4>1, <5>1, <5>2
      <4> QED
        BY <4>1, <4>2, <4>3
    <3>4. list' = q
      BY <1>4, <3>1
    <3> QED
      BY <3>3, <3>4 DEF ListOrdered
  <2>6. MoreBelow'
    BY <1>2, <1>4, <2>2, <2>3, <2>4 DEF MoreBelow
  <2> QED
    BY <2>1, <2>5, <2>6
<1> QED
  BY <1>1, <1>3, <1>4, AddIs

LEMMA ChangeReceivedOnce ==
    ASSUME TimelineTypeInv, OnceInv, ChangeReceived
    PROVE  OnceInv'
<1> USE DEF TimelineTypeInv
<1>1. UNCHANGED <<load, late, crossed>>
  BY DEF ChangeReceived
<1>2. PICK m : m = Head(events).id
  OBVIOUS
<1>3. /\ \A e \in Entries(list') : \E d \in Entries(list) : e.id = d.id
      /\ \A i, j \in DOMAIN list' : i < j =>
            \E a, b \in DOMAIN list :
               a < b /\ list'[i].id = list[a].id /\ list'[j].id = list[b].id
  <2>1. CASE \E kept \in Ascending({i \in DOMAIN list : list[i].id # m}) :
                   list' = [i \in DOMAIN kept |-> list[kept[i]]]
    <3>1. /\ Entries(list') = {e \in Entries(list) : e.id # m}
          /\ \A i, j \in DOMAIN list' : i < j =>
                \E a, b \in DOMAIN list : a < b /\ list'[i] = list[a] /\ list'[j] = list[b]
      <4>1. PICK kept \in Ascending({i \in DOMAIN list : list[i].id # m}) :
               list' = [i \in DOMAIN kept |-> list[kept[i]]]
        BY <2>1
      <4> QED
        BY <4>1, RemovedIs
    <3>2. \A e \in Entries(list') : \E d \in Entries(list) : e.id = d.id
      BY <3>1
    <3>3. \A i, j \in DOMAIN list' : i < j =>
             \E a, b \in DOMAIN list :
                a < b /\ list'[i].id = list[a].id /\ list'[j].id = list[b].id
      BY <3>1
    <3> QED
      BY <3>2, <3>3
  <2>2. CASE list' = [i \in DOMAIN list |->
                        IF list[i].id = m THEN [list[i] EXCEPT !.version = 1] ELSE list[i]]
    <3>1. /\ DOMAIN list' = DOMAIN list
          /\ \A i \in DOMAIN list : list'[i] = EditedEntry(list[i], m)
          /\ Entries(list') = {EditedEntry(e, m) : e \in Entries(list)}
          /\ \A e \in Entries(list) : EditedEntry(e, m).id = e.id
      BY <2>2, EditedIs
    <3>2. \A i \in DOMAIN list : list'[i].id = list[i].id
      BY <3>1, ListIs
    <3>3. \A e \in Entries(list') : \E d \in Entries(list) : e.id = d.id
      BY <3>1
    <3> QED
      BY <3>1, <3>2, <3>3
  <2> QED
    BY <1>2, <2>1, <2>2 DEF ChangeReceived
<1>4. OneLoad => OneLoad'
  BY <1>1 DEF OneLoad, Active
<1>5. ListOrdered => ListOrdered'
  <2> SUFFICES ASSUME ListOrdered, NEW i \in DOMAIN list', NEW j \in DOMAIN list', i < j
               PROVE  list'[i].id < list'[j].id \/ list'[j].id \in late
    BY <1>1 DEF ListOrdered
  <2>1. PICK a \in DOMAIN list, b \in DOMAIN list :
           a < b /\ list'[i].id = list[a].id /\ list'[j].id = list[b].id
    BY <1>3
  <2>2. list[a].id < list[b].id \/ list[b].id \in late
    BY <2>1 DEF ListOrdered
  <2> QED
    BY <2>1, <2>2
<1>6. MoreBelow => MoreBelow'
  <2> SUFFICES ASSUME MoreBelow, NEW s \in Slot, load[s].kind = "more",
                      NEW e \in Entries(list')
               PROVE  load[s].before <= e.id \/ e.id \in late
    BY <1>1 DEF MoreBelow
  <2>1. PICK d \in Entries(list) : e.id = d.id
    BY <1>3
  <2>2. load[s].before <= d.id \/ d.id \in late
    BY DEF MoreBelow
  <2> QED
    BY <2>1, <2>2
<1> QED
  BY <1>1, <1>4, <1>5, <1>6 DEF OnceInv

LEMMA BegunOnce ==
    ASSUME TimelineTypeInv, OnceInv, NEW s \in Slot, LoadBegins(s) \/ MoreBegins(s)
    PROVE  OnceInv'
<1> USE DEF TimelineTypeInv
<1>1. PICK l : /\ LoadTo(s, l)
               /\ l.stage = "requested"
               /\ \/ l.kind = "page"
                  \/ /\ l.kind = "more" /\ l.before = Head(list).id
                     /\ list # <<>>
  BY BeginsIs
<1>2. /\ UNCHANGED <<list, late>>
      /\ crossed' = (crossed \/ \E r \in Slot \ {s} : load[r].stage # "idle")
  BY DEF LoadBegins, MoreBegins, Request, store
<1>3. load'[s] = l /\ \A r \in Slot \ {s} : load'[r] = load[r]
  BY <1>1 DEF LoadTo
<1> SUFFICES ASSUME ~ crossed'
             PROVE  OneLoad' /\ ListOrdered' /\ MoreBelow'
  BY DEF OnceInv
<1>4. ~ crossed /\ \A r \in Slot \ {s} : load[r].stage = "idle"
  BY <1>2
<1>5. ListOrdered /\ MoreBelow
  BY <1>4 DEF OnceInv
<1>6. OneLoad'
  BY <1>3, <1>4 DEF OneLoad, Active
<1>7. ListOrdered'
  BY <1>2, <1>5 DEF ListOrdered
<1>8. MoreBelow'
  <2> SUFFICES ASSUME NEW r \in Slot, load'[r].kind = "more", NEW e \in Entries(list)
               PROVE  load'[r].before <= e.id \/ e.id \in late
    BY <1>2 DEF MoreBelow
  <2>1. CASE r # s
    BY <1>3, <1>5, <2>1 DEF MoreBelow
  <2>2. CASE r = s
    <3>1. l.before = Head(list).id /\ list # <<>> /\ load'[r].before = l.before
      BY <1>1, <1>3, <2>2
    <3>2. list \in Seq(Entry)
      BY ListIs
    <3>3. Head(list) = list[1] /\ 1 \in DOMAIN list
      BY <3>1, <3>2, TailEntries
    <3>4. PICK i \in DOMAIN list : e = list[i]
      BY DEF Entries
    <3>5. i = 1 \/ 1 < i
      BY <3>4, ListIs
    <3>6. list[1].id \in Nat /\ list[i].id \in Nat
      BY <3>3, ListIs, IdIs
    <3>7. list[1].id <= list[i].id \/ list[i].id \in late
      BY <1>5, <3>3, <3>5, <3>6 DEF ListOrdered
    <3> QED
      BY <3>1, <3>3, <3>4, <3>7
  <2> QED
    BY <2>1, <2>2
<1> QED
  BY <1>6, <1>7, <1>8

\* A load that goes on with what it was asked for.
LEMMA GoneOnOnce ==
    ASSUME TimelineTypeInv, OnceInv, NEW s \in Slot, PageRead(s) \/ EntryDecrypted(s)
    PROVE  OnceInv'
<1> USE DEF TimelineTypeInv
<1>1. PICK l : /\ LoadTo(s, l)
               /\ load[s].stage # "idle"
               /\ l.stage = "decrypting" /\ l.kind = load[s].kind
               /\ l.before = load[s].before
  <2>1. CASE PageRead(s)
    BY <2>1, PageReadIs
  <2>2. CASE EntryDecrypted(s)
    BY <2>2, EntryDecryptedIs
  <2> QED
    BY <2>1, <2>2
<1>2. UNCHANGED <<list, late, crossed>>
  BY DEF PageRead, EntryDecrypted, store
<1>3. \A r \in Slot : /\ load'[r].stage # "idle" <=> load[r].stage # "idle"
                      /\ load'[r].kind = load[r].kind /\ load'[r].before = load[r].before
  <2> SUFFICES ASSUME NEW r \in Slot
               PROVE  /\ load'[r].stage # "idle" <=> load[r].stage # "idle"
                      /\ load'[r].kind = load[r].kind /\ load'[r].before = load[r].before
    OBVIOUS
  <2>1. CASE r = s
    BY <1>1, <2>1 DEF LoadTo
  <2>2. CASE r # s
    BY <1>1, <2>2 DEF LoadTo
  <2> QED
    BY <2>1, <2>2
<1>4. OneLoad => OneLoad'
  BY <1>3 DEF OneLoad, Active
<1>5. ListOrdered => ListOrdered'
  BY <1>2 DEF ListOrdered
<1>6. MoreBelow => MoreBelow'
  BY <1>2, <1>3 DEF MoreBelow
<1> QED
  BY <1>2, <1>4, <1>5, <1>6 DEF OnceInv

LEMMA EndedOnce ==
    ASSUME TimelineTypeInv, OnceInv, NEW s \in Slot, PageShown(s) \/ MoreShown(s) \/ LoadFails(s)
    PROVE  OnceInv'
<1> USE DEF TimelineTypeInv
<1>1. LoadTo(s, NoLoad) /\ load[s].stage # "idle" /\ NoLoad.stage = "idle" /\ NoLoad.kind = "page"
  BY LoadEndsIs, LoadIs
<1>2. UNCHANGED <<late, crossed>>
  BY DEF PageShown, MoreShown, LoadFails, causes
<1> SUFFICES ASSUME ~ crossed, OneLoad, ListOrdered, MoreBelow
             PROVE  OneLoad' /\ ListOrdered' /\ MoreBelow'
  BY <1>2 DEF OnceInv
<1>3. \A r \in Slot : load'[r] = NoLoad
  <2> SUFFICES ASSUME NEW r \in Slot
               PROVE  load'[r] = NoLoad
    OBVIOUS
  <2>1. CASE r = s
    BY <1>1, <2>1 DEF LoadTo
  <2>2. CASE r # s
    <3>1. load[r].stage = "idle"
      BY <1>1, <2>2 DEF OneLoad, Active
    <3> QED
      BY <1>1, <2>2, <3>1 DEF LoadTo, PagesInv
  <2> QED
    BY <2>1, <2>2
<1>4. OneLoad' /\ MoreBelow'
  BY <1>1, <1>3 DEF OneLoad, MoreBelow, Active
<1>5. ListOrdered'
  <2>1. Ascends(load[s].page) /\ \A n \in Ids(load[s].page) : n < load[s].before
    BY DEF PagesInv
  <2>2. CASE LoadFails(s)
    BY <1>2, <2>2 DEF LoadFails, ListOrdered, store
  <2>3. CASE PageShown(s)
    <3>1. list' = load[s].page
      BY <2>3 DEF PageShown
    <3> QED
      BY <2>1, <3>1 DEF ListOrdered, Ascends
  <2>4. CASE MoreShown(s)
    <3>1. list' = load[s].page \o list /\ load[s].kind = "more"
      BY <2>4 DEF MoreShown
    <3>2. load[s].page \in Seq(Entry) /\ load[s].before \in Nat
      BY LoadIs, IdIs DEF LoadState
    <3>3. PICK p : p = load[s].page
      OBVIOUS
    <3>4. \A i, j \in DOMAIN (p \o list) : i < j =>
             \/ \E a, b \in DOMAIN p :
                   a < b /\ (p \o list)[i] = p[a] /\ (p \o list)[j] = p[b]
             \/ \E a, b \in DOMAIN list :
                   a < b /\ (p \o list)[i] = list[a] /\ (p \o list)[j] = list[b]
             \/ \E a \in DOMAIN p, b \in DOMAIN list :
                   (p \o list)[i] = p[a] /\ (p \o list)[j] = list[b]
      <4>1. p \in Seq(Entry) /\ list \in Seq(Entry)
        BY <3>2, <3>3, ListIs
      <4> QED
        BY SMTT(30), <4>1, ConcatEntries
    <3>5. PICK q : q = p \o list
      OBVIOUS
    <3>6. ASSUME NEW i \in DOMAIN q, NEW j \in DOMAIN q, i < j
          PROVE  q[i].id < q[j].id \/ q[j].id \in late
      <4>1. CASE \E a, b \in DOMAIN p : a < b /\ q[i] = p[a] /\ q[j] = p[b]
        BY <2>1, <3>3, <4>1 DEF Ascends
      <4>2. CASE \E a, b \in DOMAIN list : a < b /\ q[i] = list[a] /\ q[j] = list[b]
        BY <4>2 DEF ListOrdered
      <4>3. CASE \E a \in DOMAIN p, b \in DOMAIN list : q[i] = p[a] /\ q[j] = list[b]
        <5>1. PICK a \in DOMAIN p, b \in DOMAIN list : q[i] = p[a] /\ q[j] = list[b]
          BY <4>3
        <5>2. p[a].id < load[s].before
          BY <2>1, <3>3 DEF Ids
        <5>3. list[b] \in Entries(list) /\ list[b].id \in Nat
          BY ListIs, IdIs
        <5>4. load[s].before <= list[b].id \/ list[b].id \in late
          BY <3>1, <5>3 DEF MoreBelow
        <5>5. p[a].id \in Nat
          <6>1. p \in Seq(Entry)
            BY <3>2, <3>3
          <6>2. p[a] \in Entry
            BY <6>1, ElementOfSeq, LenProperties
          <6> QED
            BY <6>2, EntryIs, IdIs
        <5> QED
          BY <3>2, <5>1, <5>2, <5>3, <5>4, <5>5
      <4> QED
        BY <3>4, <3>5, <3>6, <4>1, <4>2, <4>3
    <3>7. list' = q
      BY <3>1, <3>3, <3>5
    <3> QED
      BY <1>2, <3>6, <3>7 DEF ListOrdered
  <2> QED
    BY <2>2, <2>3, <2>4
<1> QED
  BY <1>4, <1>5

LEMMA OnceStep ==
    TimelineTypeInv /\ OnceInv /\ [TimelineNext]_timelineVars => OnceInv'
<1> SUFFICES ASSUME TimelineTypeInv, OnceInv, [TimelineNext]_timelineVars
             PROVE  OnceInv'
  OBVIOUS
<1>1. CASE Serve \/ UNCHANGED timelineVars
  BY <1>1, OnceFrame, OnceStays
<1>2. CASE Receive
  BY <1>2, OnceFrame, OnceStays, AddedOnce, ChangeReceivedOnce DEF Receive
<1>3. ASSUME NEW s \in Slot, Load(s)
      PROVE  OnceInv'
  BY <1>3, BegunOnce, GoneOnOnce, EndedOnce DEF Load
<1> QED
  BY <1>1, <1>2, <1>3 DEF TimelineNext

LEMMA OnceInit == TimelineInit => OnceInv
<1>1. NoLoad.kind = "page" /\ NoLoad.stage = "idle"
  BY DEF NoLoad
<1> QED
  BY <1>1 DEF TimelineInit, OnceInv, OneLoad, ListOrdered, MoreBelow, Active, Entries

LEMMA OnceInvHolds == TimelineSpec => [](TimelineTypeInv /\ OnceInv)
<1> QED
  BY TimelineTypesInit, TimelineTypesStep, OnceInit, OnceStep, PTL DEF TimelineSpec

LEMMA OnceListed == TimelineTypeInv /\ OnceInv => ListedOnce
<1> SUFFICES ASSUME TimelineTypeInv, OnceInv, NEW i \in DOMAIN list, NEW j \in DOMAIN list,
                    list[i].id = list[j].id, i # j, ~ crossed
             PROVE  list[i].id \in late
  BY DEF ListedOnce
<1>1. i \in Nat /\ j \in Nat /\ list[i].id \in Nat /\ list[j].id \in Nat
  <2>1. TimelineTypeOK
    BY DEF TimelineTypeInv
  <2>2. DOMAIN list = 1 .. Len(list) /\ Len(list) \in Nat
    BY <2>1, ListIs
  <2>3. list[i].id \in Id /\ list[j].id \in Id
    BY <2>1, ListIs
  <2>4. i \in Nat /\ j \in Nat
    BY <2>2
  <2> QED
    BY <2>3, <2>4, IdIs
<1>2. i < j \/ j < i
  BY <1>1
<1> QED
  BY <1>1, <1>2 DEF OnceInv, ListOrdered

\* ListedOnce: no message is listed twice, unless loads crossed or it came in behind.
THEOREM ListedOnceAlways == TimelineSpec => []ListedOnce
<1> QED
  BY OnceInvHolds, OnceListed, PTL

-----------------------------------------------------------------------------
(***************************************************************************)
(* What the server has is shown or to be had: the invariant.               *)
(***************************************************************************)

\* A push will list m.
Coming(m) == NoticeOf("new", m) \in Queue \/ m \in decrypting

Seen(m) == Coming(m) \/ m \in Listed

\* The button leads to m.
Below(m) == exists /\ hasMore /\ \A n \in Listed : m < n

\* The load in slot s brings m, or leaves the button that leads to it.
Brought(s, m) ==
    /\ m < load[s].before
    /\ \/ load[s].stage = "requested"
       \/ m \in Ids(load[s].page)
       \/ load[s].more /\ \A n \in Ids(load[s].page) : m < n

\* None of the exceptions applies to m.
Sure(m) ==
    /\ m \notin misled \cup lost
    /\ ~ \E n \in late : n < m
    /\ NoticeOf("delete", m) \notin changing

\* Where a published message is found: now, and after each load that is under way.
ReachOf(m) ==
    /\ post[m] = "published" => Seen(m)
    /\ post[m] = "committed" =>
          /\ \/ Seen(m) \/ Below(m)
             \/ \E s \in Slot : load[s].stage = "decrypting" /\ Brought(s, m)
          /\ \A s \in Slot : Active(s) => Seen(m) \/ Brought(s, m)

ReachInv == ~ crossed => \A m \in Id : Sure(m) => ReachOf(m)

LEMMA SeenReached ==
    ASSUME NEW m, Seen(m)
    PROVE  ReachOf(m)
BY DEF ReachOf

LEMMA SeenReachedNext ==
    ASSUME NEW m, Seen(m)'
    PROVE  ReachOf(m)'
BY DEF ReachOf

\* Exceptions once made stay, until a load finds out about the message.
LEMMA SureBefore ==
    ASSUME NEW m, Sure(m)', misled \subseteq misled', lost \subseteq lost', late \subseteq late',
           NoticeOf("delete", m) \in changing => NoticeOf("delete", m) \in changing'
    PROVE  Sure(m)
BY DEF Sure

\* The loads and the list stay, and what was seen.
LEMMA ReachStays ==
    ASSUME NEW m, ReachOf(m), post[m] = post'[m] \/ post[m] = "published",
           UNCHANGED <<exists, list, hasMore, load>>, Coming(m) => Coming(m)'
    PROVE  ReachOf(m)'
<1>1. Seen(m) => Seen(m)'
  BY DEF Seen, Listed
<1>2. Below(m) => Below(m)'
  BY DEF Below, Listed
<1>3. \A s \in Slot : /\ Brought(s, m) => Brought(s, m)'
                      /\ load'[s].stage = load[s].stage /\ (Active(s)' => Active(s))
  BY DEF Brought, Active
<1> QED
  BY <1>1, <1>2, <1>3 DEF ReachOf

LEMMA ReachCalm ==
    ASSUME ReachInv, UNCHANGED <<exists, list, hasMore, load, crossed>>,
           \A m \in Id : Sure(m)' /\ post'[m] \in {"published", "committed"} =>
              \/ Coming(m)'
              \/ /\ Sure(m) /\ (post[m] = post'[m] \/ post[m] = "published")
                 /\ Coming(m) => Coming(m)'
    PROVE  ReachInv'
<1> SUFFICES ASSUME ~ crossed, NEW m \in Id, Sure(m)'
             PROVE  ReachOf(m)'
  BY DEF ReachInv
<1>1. CASE post'[m] \notin {"published", "committed"}
  BY <1>1 DEF ReachOf
<1>2. CASE Coming(m)'
  BY <1>2, SeenReachedNext DEF Seen
<1>3. CASE /\ Sure(m) /\ (post[m] = post'[m] \/ post[m] = "published")
           /\ Coming(m) => Coming(m)'
  <2>1. ReachOf(m)
    BY <1>3 DEF ReachInv
  <2> QED
    BY <1>3, <2>1, ReachStays
<1> QED
  BY <1>1, <1>2, <1>3

LEMMA ReachServe ==
    ASSUME TimelineTypeInv, ReachInv, Serve
    PROVE  ReachInv'
<1> USE DEF TimelineTypeInv
<1>1. UNCHANGED <<exists, list, hasMore, load, crossed, decrypting, late, lost>>
  BY DEF Serve, PostBegins, PostPublished, PostCommitted, PostUndone, ChangePublished,
     ChangeCommitted, ChangeUndone, store, causes
<1>2. ASSUME NEW m0 \in Id, NEW to, PostTo(m0, to),
             UNCHANGED <<changing, events, misled>>,
             to \in {"open", "void"} \/ (to = "committed" /\ post[m0] = "published")
      PROVE  ReachInv'
  <2>1. Queue' = Queue
    BY <1>2 DEF Queue
  <2>2. ASSUME NEW m \in Id, Sure(m)', post'[m] \in {"published", "committed"}
        PROVE  /\ Sure(m) /\ (post[m] = post'[m] \/ post[m] = "published")
               /\ Coming(m) => Coming(m)'
    <3>1. Sure(m)
      BY <1>1, <1>2, <2>2 DEF Sure
    <3>2. Coming(m) => Coming(m)'
      BY <1>1, <2>1 DEF Coming
    <3>3. post[m] = post'[m] \/ post[m] = "published"
      BY <1>2, <2>2 DEF PostTo
    <3> QED
      BY <3>1, <3>2, <3>3
  <2> QED
    BY <1>1, <2>2, ReachCalm
<1>3. CASE PostBegins
  <2>1. PICK m \in Id : post' = [post EXCEPT ![m] = "open"]
    BY <1>3 DEF PostBegins
  <2>2. UNCHANGED <<changing, events, misled>>
    BY <1>3 DEF PostBegins, socket, causes
  <2>3. PostTo(m, "open")
    BY <2>1, PostEffect
  <2> QED
    BY <1>2, <2>2, <2>3
<1>4. ASSUME NEW m \in Id, PostCommitted(m)
      PROVE  ReachInv'
  <2>1. PostTo(m, "committed") /\ post[m] = "published"
    BY <1>4, PostEffect DEF PostCommitted
  <2>2. UNCHANGED <<changing, events, misled>>
    BY <1>4 DEF PostCommitted, socket, causes
  <2> QED
    BY <1>2, <2>1, <2>2
<1>5. ASSUME NEW m \in Id, PostUndone(m)
      PROVE  ReachInv'
  <2>1. PostTo(m, "void")
    BY <1>5, PostEffect DEF PostUndone
  <2>2. UNCHANGED <<changing, events, misled>>
    BY <1>5 DEF PostUndone, socket, causes
  <2> QED
    BY <1>2, <2>1, <2>2
<1>6. ASSUME NEW m0 \in Id, PostPublished(m0)
      PROVE  ReachInv'
  <2>1. /\ PostTo(m0, "published") /\ Notify("new", m0) /\ "new" \in Kind
        /\ UNCHANGED changing
    BY <1>6, PostEffect DEF PostPublished, Kind
  <2>2. \/ Queue' = Queue \cup {NoticeOf("new", m0)} /\ misled' = misled
        \/ Queue' = Queue /\ misled' = misled \cup {m0}
    BY <2>1, NotifyIs
  <2>3. misled \subseteq misled' /\ Queue \subseteq Queue'
    BY <2>2
  <2>4. ASSUME NEW m \in Id, Sure(m)', post'[m] \in {"published", "committed"}
        PROVE  \/ Coming(m)'
               \/ /\ Sure(m) /\ (post[m] = post'[m] \/ post[m] = "published")
                  /\ Coming(m) => Coming(m)'
    <3>1. CASE m = m0
      <4>1. m0 \notin misled'
        BY <2>4, <3>1 DEF Sure
      <4> QED
        BY <2>2, <3>1, <4>1 DEF Coming
    <3>2. CASE m # m0
      <4>1. post[m] = post'[m]
        BY <2>1, <3>2 DEF PostTo
      <4>2. Sure(m)
        BY <1>1, <2>1, <2>3, <2>4 DEF Sure
      <4>3. Coming(m) => Coming(m)'
        BY <1>1, <2>3 DEF Coming
      <4> QED
        BY <4>1, <4>2, <4>3
    <3> QED
      BY <3>1, <3>2
  <2> QED
    BY <1>1, <2>4, ReachCalm
<1>7. ASSUME NEW m0 \in Id, NEW kind \in {"edit", "delete"}, ChangePublished(m0, kind)
      PROVE  ReachInv'
  <2>1. /\ UNCHANGED post /\ Notify(kind, m0) /\ kind \in Kind
        /\ changing \subseteq changing'
    BY <1>7 DEF ChangePublished, Kind
  <2>2. misled \subseteq misled' /\ Queue \subseteq Queue'
    BY <2>1, NotifyIs
  <2>3. ASSUME NEW m \in Id, Sure(m)'
        PROVE  Sure(m) /\ post[m] = post'[m] /\ (Coming(m) => Coming(m)')
    <3>1. Sure(m)
      BY <1>1, <2>1, <2>2, <2>3 DEF Sure
    <3>2. Coming(m) => Coming(m)'
      BY <1>1, <2>2 DEF Coming
    <3> QED
      BY <2>1, <3>1, <3>2
  <2> QED
    BY <1>1, <2>3, ReachCalm
<1>8. ASSUME NEW m0 \in Id, NEW kind \in {"edit", "delete"}, ChangeCommitted(m0, kind)
      PROVE  ReachInv'
  <2>1. /\ UNCHANGED <<events, misled>>
        /\ changing' = changing \ {NoticeOf(kind, m0)}
    BY <1>8 DEF ChangeCommitted, socket, causes, NoticeOf
  <2>2. /\ \A m \in Id \ {m0} : post'[m] = post[m]
        /\ kind = "delete" => post'[m0] = "deleted"
        /\ kind = "edit" => post'[m0] = post[m0]
    BY <1>8 DEF ChangeCommitted, TimelineTypeOK
  <2>3. Queue' = Queue
    BY <2>1 DEF Queue
  <2>4. ASSUME NEW m \in Id, Sure(m)', post'[m] \in {"published", "committed"}
        PROVE  Sure(m) /\ post[m] = post'[m] /\ (Coming(m) => Coming(m)')
    <3>1. ~ (kind = "delete" /\ m = m0) /\ post[m] = post'[m]
      BY <2>2, <2>4
    <3>2. NoticeOf(kind, m0) # NoticeOf("delete", m)
      BY <3>1, NoticesDiffer
    <3>3. Sure(m)
      BY <1>1, <2>1, <2>4, <3>2 DEF Sure
    <3>4. Coming(m) => Coming(m)'
      BY <1>1, <2>3 DEF Coming
    <3> QED
      BY <3>1, <3>3, <3>4
  <2> QED
    BY <1>1, <2>4, ReachCalm
<1>9. ASSUME NEW m0 \in Id, NEW kind \in {"edit", "delete"}, ChangeUndone(m0, kind)
      PROVE  ReachInv'
  <2>1. /\ UNCHANGED <<post, events>> /\ misled' = misled \cup {m0}
        /\ changing' = changing \ {NoticeOf(kind, m0)}
    BY <1>9 DEF ChangeUndone, socket, NoticeOf
  <2>2. ASSUME NEW m \in Id, Sure(m)'
        PROVE  Sure(m) /\ post[m] = post'[m] /\ (Coming(m) => Coming(m)')
    <3>1. m # m0
      BY <2>1, <2>2 DEF Sure
    <3>2. NoticeOf(kind, m0) # NoticeOf("delete", m)
      BY <3>1, NoticesDiffer
    <3>3. Sure(m)
      BY <1>1, <2>1, <2>2, <3>2 DEF Sure
    <3>4. Coming(m) => Coming(m)'
      BY <1>1, <2>1 DEF Coming, Queue
    <3> QED
      BY <2>1, <3>3, <3>4
  <2> QED
    BY <1>1, <2>2, ReachCalm
<1> QED
  BY <1>3, <1>4, <1>5, <1>6, <1>7, <1>8, <1>9 DEF Serve

LEMMA ReachSocket ==
    ASSUME TimelineTypeInv, ReachInv,
           \/ SocketOpens \/ SocketCloses \/ NewReceived \/ UNCHANGED timelineVars
           \/ \E m \in Id : CachePut(m)
    PROVE  ReachInv'
<1> USE DEF TimelineTypeInv
<1>1. UNCHANGED <<exists, list, hasMore, load, crossed, late, lost, post, changing>>
  BY DEF SocketOpens, SocketCloses, NewReceived, CachePut, timelineVars, store, causes, server
<1>2. \A m \in Id : misled \subseteq misled' /\ m \notin misled' => (Coming(m) => Coming(m)')
  <2>1. CASE SocketOpens \/ UNCHANGED timelineVars \/ \E m \in Id : CachePut(m)
    BY <2>1 DEF Coming, Queue, SocketOpens, CachePut, timelineVars, socket
  <2>2. CASE SocketCloses
    <3>1. misled' = misled \cup Ids(events) /\ UNCHANGED decrypting
      BY <2>2 DEF SocketCloses
    <3> QED
      BY <3>1, QueuedIs DEF Coming, Kind
  <2>3. CASE NewReceived
    <3>1. /\ events # <<>> /\ events' = Tail(events)
          /\ decrypting' = decrypting \cup {Head(events).id}
      BY <2>3 DEF NewReceived
    <3>2. Queue \subseteq Queue' \cup {Head(events)}
      BY <3>1, HeadOf DEF Queue
    <3>3. \A m \in Id : NoticeOf("new", m).id = m
      BY DEF NoticeOf
    <3>4. ASSUME NEW m \in Id, Coming(m)
          PROVE  Coming(m)'
      <4>1. CASE NoticeOf("new", m) = Head(events)
        <5>1. m = Head(events).id
          BY <3>3, <4>1
        <5> QED
          BY <3>1, <5>1 DEF Coming
      <4>2. CASE NoticeOf("new", m) # Head(events)
        BY <3>1, <3>2, <3>4, <4>2 DEF Coming
      <4> QED
        BY <4>1, <4>2
    <3> QED
      BY <3>4
  <2> QED
    BY <2>1, <2>2, <2>3
<1>3. misled \subseteq misled'
  BY DEF SocketOpens, SocketCloses, NewReceived, CachePut, timelineVars, causes
<1>4. ASSUME NEW m \in Id, Sure(m)'
      PROVE  Sure(m) /\ post[m] = post'[m] /\ (Coming(m) => Coming(m)')
  <2>1. Sure(m) /\ m \notin misled'
    BY <1>1, <1>3, <1>4 DEF Sure
  <2>2. Coming(m) => Coming(m)'
    BY <1>2, <1>3, <2>1
  <2> QED
    BY <1>1, <2>1, <2>2
<1> QED
  BY <1>1, <1>4, ReachCalm

LEMMA ReachAdded ==
    ASSUME TimelineTypeInv, ReachInv, NEW m0 \in Id, Decrypted(m0) \/ Answered(m0)
    PROVE  ReachInv'
<1> USE DEF TimelineTypeInv
<1>1. PICK v \in {0, Unreadable}, b \in BOOLEAN : AddMessage(EntryOf(m0, v, b))
  BY ShowsIs
<1>2. /\ UNCHANGED <<post, changing, events, load, crossed, misled, lost>>
      /\ decrypting \subseteq decrypting' \cup {m0}
  BY DEF Decrypted, Answered, server, socket
<1>3. /\ UNCHANGED hasMore
      /\ \/ m0 \in Listed /\ UNCHANGED <<exists, list, late>>
         \/ /\ m0 \notin Listed /\ exists' = TRUE
            /\ Ids(list') = Listed \cup {m0}
            /\ \/ Behind(m0) /\ late' = late \cup {m0}
               \/ ~ Behind(m0) /\ late' = late
  BY <1>1, AddIs
<1>4. Listed' = Listed \cup {m0} /\ late \subseteq late'
  BY <1>3 DEF Listed
<1> SUFFICES ASSUME ~ crossed, NEW m \in Id, Sure(m)'
             PROVE  ReachOf(m)'
  BY <1>2 DEF ReachInv
<1>5. Sure(m) /\ ReachOf(m)
  <2>1. Sure(m)
    BY <1>2, <1>4 DEF Sure
  <2> QED
    BY <2>1 DEF ReachInv
<1>6. Seen(m) => Seen(m)'
  BY <1>2, <1>4 DEF Seen, Coming, Queue
<1>7. Below(m) => Below(m)' \/ Seen(m)'
  <2> SUFFICES ASSUME Below(m), m \notin Listed'
               PROVE  Below(m)'
    BY DEF Seen
  <2>1. exists /\ hasMore /\ (\A n \in Listed : m < n) /\ m # m0
    BY <1>4 DEF Below
  <2>2. CASE m0 \in Listed
    BY <1>3, <2>1, <2>2 DEF Below, Listed
  <2>3. CASE m0 \notin Listed
    <3>1. m < m0
      <4>1. Behind(m0) => ~ m0 < m
        BY <1>3, <2>3, <1>4 DEF Sure
      <4>2. m0 < m => Behind(m0)
        <5> SUFFICES ASSUME m0 < m
                     PROVE  Behind(m0)
          OBVIOUS
        <5>1. CASE Listed = {}
          <6>1. list = <<>>
            BY <5>1, ListIs
          <6> QED
            BY <2>1, <6>1 DEF Behind
        <5>2. CASE Listed # {}
          <6>1. PICK n \in Listed : m < n
            BY <2>1, <5>2
          <6>2. n \in Id
            BY ListIs
          <6>3. n > m0
            BY <6>1, <6>2, IdIs
          <6> QED
            BY <6>3 DEF Behind
        <5> QED
          BY <5>1, <5>2
      <4>3. m \in Nat /\ m0 \in Nat
        BY IdIs
      <4> QED
        BY <2>1, <4>1, <4>2, <4>3
    <3> QED
      BY <1>3, <1>4, <2>1, <2>3, <3>1 DEF Below
  <2> QED
    BY <2>2, <2>3
<1>8. \A s \in Slot : /\ Brought(s, m) => Brought(s, m)'
                      /\ load'[s].stage = load[s].stage /\ (Active(s)' => Active(s))
  BY <1>2 DEF Brought, Active
<1>9. CASE Seen(m)'
  BY <1>9, SeenReachedNext
<1>10. CASE ~ Seen(m)'
  <2>1. ~ Seen(m) /\ (Below(m) => Below(m)')
    BY <1>6, <1>7, <1>10
  <2> QED
    BY <1>2, <1>5, <1>8, <2>1 DEF ReachOf
<1> QED
  BY <1>9, <1>10

LEMMA ReachChange ==
    ASSUME TimelineTypeInv, CurrentInv, ReachInv, ChangeReceived
    PROVE  ReachInv'
<1> USE DEF TimelineTypeInv
<1>1. PICK kind \in {"edit", "delete"}, m0 \in Id : ChangeMet(kind, m0)
  BY ChangeMetIs
<1>2. UNCHANGED <<post, changing, decrypting, exists, hasMore, load, crossed, misled, late, lost>>
  BY DEF ChangeReceived, server
<1>3. /\ events # <<>> /\ events' = Tail(events) /\ Head(events) = NoticeOf(kind, m0)
  BY <1>1 DEF ChangeMet
<1>4. Queue \subseteq Queue' \cup {NoticeOf(kind, m0)} /\ NoticeOf(kind, m0) \in Queue
  BY <1>3, HeadOf DEF Queue
<1>5. /\ Listed' \subseteq Listed
      /\ \A m \in Listed : m \in Listed' \/ (kind = "delete" /\ m = m0)
  <2>1. Listed = {e.id : e \in Entries(list)} /\ Listed' = {e.id : e \in Entries(list')}
    BY IdsAre DEF Listed
  <2>2. CASE kind = "delete" /\ Entries(list') = {e \in Entries(list) : e.id # m0}
    BY <2>1, <2>2
  <2>3. CASE kind = "edit" /\ Entries(list') = {EditedEntry(e, m0) : e \in Entries(list)}
    <3>1. \A e \in Entries(list) : EditedEntry(e, m0).id = e.id
      <4>1. \A e \in Entry : EditedEntry(e, m0).id = e.id
        BY DEF EditedEntry, Entry
      <4> QED
        BY <4>1, ListIs
    <3>2. \A e \in Entries(list') : \E d \in Entries(list) : e.id = d.id
      BY <2>3, <3>1
    <3>3. \A d \in Entries(list) : \E e \in Entries(list') : e.id = d.id
      BY <2>3, <3>1
    <3> QED
      BY <2>1, <3>2, <3>3
  <2> QED
    BY <1>1, <2>2, <2>3 DEF ChangeMet
<1> SUFFICES ASSUME ~ crossed, NEW m \in Id, Sure(m)'
             PROVE  ReachOf(m)'
  BY <1>2 DEF ReachInv
<1>6. Sure(m) /\ ReachOf(m)
  <2>1. Sure(m)
    BY <1>2 DEF Sure
  <2> QED
    BY <2>1 DEF ReachInv
<1>7. CASE kind = "delete" /\ m = m0
  <2>1. NoticeOf("delete", m) \in changing \/ post[m] = "deleted" \/ m \in misled
    BY <1>4, <1>7 DEF CurrentInv, NoticesTrue
  <2>2. post'[m] = "deleted"
    BY <1>2, <1>6, <2>1 DEF Sure
  <2> QED
    BY <2>2 DEF ReachOf
<1>8. CASE ~ (kind = "delete" /\ m = m0)
  <2>1. Coming(m) => Coming(m)'
    <3>1. NoticeOf(kind, m0) # NoticeOf("new", m)
      BY NoticesDiffer
    <3> QED
      BY <1>2, <1>4, <3>1 DEF Coming
  <2>2. Seen(m) => Seen(m)'
    BY <1>5, <1>8, <2>1 DEF Seen
  <2>3. Below(m) => Below(m)'
    BY <1>2, <1>5 DEF Below
  <2>4. \A s \in Slot : /\ Brought(s, m) => Brought(s, m)'
                        /\ load'[s].stage = load[s].stage /\ (Active(s)' => Active(s))
    BY <1>2 DEF Brought, Active
  <2> QED
    BY <1>2, <1>6, <2>2, <2>3, <2>4 DEF ReachOf
<1> QED
  BY <1>7, <1>8

\* One load changes, and nothing else that ReachOf is about.
LEMMA ReachLoad ==
    ASSUME NEW m, ReachOf(m), NEW s \in Slot, NEW l, LoadTo(s, l),
           UNCHANGED <<post, events, decrypting, exists, list, hasMore>>,
           load[s].stage = "requested" \/ load[s].stage = "idle",
           post[m] = "committed" /\ l.stage # "idle" => Seen(m) \/ Brought(s, m)'
    PROVE  ReachOf(m)'
<1>1. Seen(m)' <=> Seen(m)
  BY DEF Seen, Coming, Queue, Listed
<1>2. Below(m)' <=> Below(m)
  BY DEF Below, Listed
<1>3. load'[s] = l /\ \A r \in Slot \ {s} : load'[r] = load[r]
  BY DEF LoadTo
<1>4. \A r \in Slot \ {s} : /\ Brought(r, m)' <=> Brought(r, m)
                            /\ load'[r].stage = load[r].stage /\ (Active(r)' <=> Active(r))
  BY <1>3 DEF Brought, Active
<1>5. CASE post[m] = "published"
  BY <1>1, <1>5 DEF ReachOf
<1>6. CASE post[m] = "committed" /\ ~ Seen(m)
  <2>1. Below(m) \/ \E r \in Slot : load[r].stage = "decrypting" /\ Brought(r, m)
    BY <1>6 DEF ReachOf
  <2>2. Below(m)' \/ \E r \in Slot : load'[r].stage = "decrypting" /\ Brought(r, m)'
    BY <1>2, <1>4, <2>1
  <2>3. ASSUME NEW r \in Slot, Active(r)'
        PROVE  Brought(r, m)'
    <3>1. CASE r = s
      BY <1>3, <1>6, <2>3, <3>1 DEF Active
    <3>2. CASE r # s
      BY <1>4, <1>6, <2>3, <3>2 DEF ReachOf
    <3> QED
      BY <3>1, <3>2
  <2> QED
    BY <1>6, <2>2, <2>3 DEF ReachOf
<1>7. CASE Seen(m)
  BY <1>1, <1>7, SeenReachedNext
<1>8. CASE post[m] \notin {"published", "committed"}
  BY <1>8 DEF ReachOf
<1> QED
  BY <1>5, <1>6, <1>7, <1>8

LEMMA ReachBegun ==
    ASSUME TimelineTypeInv, ReachInv, NEW s \in Slot, LoadBegins(s) \/ MoreBegins(s)
    PROVE  ReachInv'
<1> USE DEF TimelineTypeInv
<1>1. PICK l : /\ LoadTo(s, l) /\ load[s].stage = "idle"
               /\ l.stage = "requested"
               /\ \/ l.before = MaxMessages + 1
                  \/ /\ l.before = Head(list).id
                     /\ list # <<>> /\ Head(list) \in Entries(list)
  BY BeginsIs
<1>2. /\ UNCHANGED <<post, changing, events, decrypting, exists, list, hasMore, misled, late,
                     lost>>
      /\ crossed' = (crossed \/ \E r \in Slot \ {s} : load[r].stage # "idle")
  BY DEF LoadBegins, MoreBegins, Request, store, server, socket
<1> SUFFICES ASSUME ~ crossed', NEW m \in Id, Sure(m)'
             PROVE  ReachOf(m)'
  BY DEF ReachInv
<1>3. ~ crossed /\ \A r \in Slot : load[r].stage = "idle"
  BY <1>1, <1>2
<1>4. Sure(m) /\ ReachOf(m)
  <2>1. Sure(m)
    BY <1>2 DEF Sure
  <2> QED
    BY <1>3, <2>1 DEF ReachInv
<1>5. ASSUME post[m] = "committed"
      PROVE  Seen(m) \/ Brought(s, m)'
  <2>1. Seen(m) \/ Below(m)
    BY <1>3, <1>4, <1>5 DEF ReachOf
  <2>2. Below(m) => m < l.before
    <3>1. CASE l.before = MaxMessages + 1
      BY <3>1, IdIs
    <3>2. CASE l.before = Head(list).id /\ Head(list) \in Entries(list)
      BY <3>2, ListIs DEF Below
    <3> QED
      BY <1>1, <3>1, <3>2
  <2>3. m < l.before => Brought(s, m)'
    BY <1>1 DEF Brought, LoadTo
  <2> QED
    BY <2>1, <2>2, <2>3
<1> QED
  BY <1>1, <1>2, <1>4, <1>5, ReachLoad

LEMMA ReachPageRead ==
    ASSUME TimelineTypeInv, ReachInv, NEW s \in Slot, PageRead(s)
    PROVE  ReachInv'
<1> USE DEF TimelineTypeInv
<1>1. PICK l : /\ LoadTo(s, l)
               /\ load[s].stage = "requested"
               /\ l.stage = "decrypting"
               /\ l.before = load[s].before
               /\ Ids(l.page) = Newest(Older(s))
               /\ l.more = (Newest(Older(s)) # Older(s))
  BY PageReadIs
<1>2. /\ UNCHANGED <<post, changing, events, decrypting, exists, list, hasMore, crossed, late,
                     lost>>
      /\ misled' = misled \ Caught(s)
  BY DEF PageRead, server, socket, store
<1>3. load'[s] = l /\ \A r \in Slot \ {s} : load'[r] = load[r]
  BY <1>1 DEF LoadTo
<1> SUFFICES ASSUME ~ crossed, NEW m \in Id, Sure(m)'
             PROVE  ReachOf(m)'
  BY <1>2 DEF ReachInv
<1>4. ASSUME post[m] = "committed", m < load[s].before
      PROVE  Brought(s, m)'
  <2>1. m \in Older(s) /\ Older(s) \subseteq Id
    BY <1>4, OlderIs DEF Older
  <2>2. m \in Newest(Older(s)) \/ (l.more /\ \A n \in Newest(Older(s)) : m < n)
    BY <1>1, <2>1, NewestAbove
  <2> QED
    BY <1>1, <1>3, <1>4, <2>2 DEF Brought
<1>5. CASE m \in Caught(s)
  <2>1. /\ post[m] \in {"committed", "deleted"}
        /\ m < load[s].before
        /\ \A r \in Slot \ {s} : load[r].stage = "idle"
    BY <1>5 DEF Caught
  <2>2. CASE post[m] = "deleted"
    BY <1>2, <2>2 DEF ReachOf
  <2>3. CASE post[m] = "committed"
    <3>1. Brought(s, m)'
      BY <1>4, <2>1, <2>3
    <3>2. \A r \in Slot : Active(r)' => r = s
      BY <1>3, <2>1 DEF Active
    <3>3. load'[s].stage = "decrypting" /\ post'[m] = "committed"
      BY <1>1, <1>2, <1>3, <2>3
    <3> QED
      BY <3>1, <3>2, <3>3 DEF ReachOf
  <2> QED
    BY <2>1, <2>2, <2>3
<1>6. CASE m \notin Caught(s)
  <2>1. Sure(m)
    BY <1>2, <1>6 DEF Sure
  <2>2. ReachOf(m)
    BY <2>1 DEF ReachInv
  <2>3. post[m] = "committed" => Seen(m) \/ Brought(s, m)
    BY <1>1, <2>2 DEF ReachOf, Active
  <2>4. post[m] = "committed" => Seen(m) \/ Brought(s, m)'
    BY <1>4, <2>3 DEF Brought
  <2> QED
    BY <1>1, <1>2, <2>2, <2>4, ReachLoad
<1> QED
  BY <1>5, <1>6

\* The messages a page brings are the same when they are decrypted.
LEMMA ReachDecrypted ==
    ASSUME TimelineTypeInv, ReachInv, NEW s \in Slot, EntryDecrypted(s)
    PROVE  ReachInv'
<1> USE DEF TimelineTypeInv
<1>1. PICK l : /\ LoadTo(s, l)
               /\ load[s].stage = "decrypting" /\ l.stage = "decrypting"
               /\ l.before = load[s].before /\ l.more = load[s].more
               /\ DOMAIN l.page = DOMAIN load[s].page
               /\ \A i \in DOMAIN l.page : Reread(l.page[i], load[s].page[i])
  BY EntryDecryptedIs
<1>2. Ids(l.page) = Ids(load[s].page)
  BY <1>1, RereadIds
<1>3. UNCHANGED <<post, changing, events, decrypting, exists, list, hasMore, crossed, misled,
                  late, lost>>
  BY DEF EntryDecrypted, server, socket, store
<1> SUFFICES ASSUME ~ crossed, NEW m \in Id, Sure(m)'
             PROVE  ReachOf(m)'
  BY <1>3 DEF ReachInv
<1>4. ReachOf(m)
  <2>1. Sure(m)
    BY <1>3 DEF Sure
  <2> QED
    BY <2>1 DEF ReachInv
<1>5. /\ Seen(m)' <=> Seen(m)
      /\ Below(m)' <=> Below(m)
  BY <1>3 DEF Seen, Coming, Queue, Listed, Below
<1>6. \A r \in Slot : /\ load'[r].stage = load[r].stage
                      /\ Brought(r, m)' <=> Brought(r, m)
  <2> SUFFICES ASSUME NEW r \in Slot
               PROVE  /\ load'[r].stage = load[r].stage
                      /\ Brought(r, m)' <=> Brought(r, m)
    OBVIOUS
  <2>1. CASE r = s
    <3>1. load'[r] = l
      BY <1>1, <2>1 DEF LoadTo
    <3> QED
      BY <1>1, <1>2, <2>1, <3>1 DEF Brought
  <2>2. CASE r # s
    BY <1>1, <2>2 DEF LoadTo, Brought
  <2> QED
    BY <2>1, <2>2
<1> QED
  BY <1>3, <1>4, <1>5, <1>6 DEF ReachOf, Active

LEMMA ReachFails ==
    ASSUME TimelineTypeInv, ReachInv, NEW s \in Slot, LoadFails(s)
    PROVE  ReachInv'
<1> USE DEF TimelineTypeInv
<1>1. /\ LoadTo(s, NoLoad) /\ NoLoad.stage = "idle"
      /\ load[s].stage = "requested"
  BY LoadEndsIs, LoadIs DEF LoadFails
<1>2. UNCHANGED <<post, changing, events, decrypting, exists, list, hasMore, crossed, misled,
                  late, lost>>
  BY DEF LoadFails, server, socket, store, causes
<1> SUFFICES ASSUME ~ crossed, NEW m \in Id, Sure(m)'
             PROVE  ReachOf(m)'
  BY <1>2 DEF ReachInv
<1>3. ReachOf(m)
  <2>1. Sure(m)
    BY <1>2 DEF Sure
  <2> QED
    BY <2>1 DEF ReachInv
<1> QED
  BY <1>1, <1>2, <1>3, ReachLoad

LEMMA ReachShown ==
    ASSUME TimelineTypeInv, OnceInv, ReachInv, NEW s \in Slot, PageShown(s) \/ MoreShown(s)
    PROVE  ReachInv'
<1> USE DEF TimelineTypeInv
<1>1. /\ load[s].stage = "decrypting" /\ NoLoad.stage = "idle"
      /\ LoadTo(s, NoLoad)
  BY LoadEndsIs, LoadIs DEF PageShown, MoreShown, IsRead
<1>2. /\ UNCHANGED <<post, changing, events, decrypting, crossed, misled, late>>
      /\ exists' = TRUE /\ hasMore' = load[s].more
  BY DEF PageShown, MoreShown, server, socket, causes
<1> SUFFICES ASSUME ~ crossed, NEW m \in Id, Sure(m)'
             PROVE  ReachOf(m)'
  BY <1>2 DEF ReachInv
<1>3. \A r \in Slot : ~ Active(r)'
  <2> SUFFICES ASSUME NEW r \in Slot
               PROVE  load'[r].stage = "idle"
    BY DEF Active
  <2>1. CASE r = s
    BY <1>1, <2>1 DEF LoadTo
  <2>2. CASE r # s
    BY <1>1, <2>2 DEF OnceInv, OneLoad, Active, LoadTo
  <2> QED
    BY <2>1, <2>2
<1>4. /\ lost \subseteq lost'
      /\ Ids(load[s].page) \subseteq Listed'
      /\ m \in Listed => m \in Listed'
      /\ \A n \in Listed' : n \in Ids(load[s].page) \/ (load[s].kind = "more" /\ n \in Listed)
  <2>1. CASE PageShown(s)
    <3>1. Listed' = Ids(load[s].page) /\ lost' = lost \cup (Listed \ Listed')
      BY <2>1 DEF PageShown, Listed
    <3>2. m \notin lost'
      BY DEF Sure
    <3> QED
      BY <3>1, <3>2
  <2>2. CASE MoreShown(s)
    <3>1. list' = load[s].page \o list /\ load[s].kind = "more" /\ lost' = lost
      BY <2>2 DEF MoreShown, causes
    <3>2. load[s].page \in Seq(Entry) /\ list \in Seq(Entry)
      BY LoadIs, ListIs DEF LoadState
    <3>3. Entries(list') = Entries(load[s].page) \cup Entries(list)
      BY <3>1, <3>2, ConcatEntries
    <3>4. /\ Listed = {e.id : e \in Entries(list)} /\ Listed' = {e.id : e \in Entries(list')}
          /\ Ids(load[s].page) = {e.id : e \in Entries(load[s].page)}
      BY IdsAre DEF Listed
    <3>5. Listed' = Ids(load[s].page) \cup Listed
      BY <3>3, <3>4
    <3> QED
      BY <3>1, <3>5
  <2> QED
    BY <2>1, <2>2
<1>5. Sure(m) /\ ReachOf(m)
  <2>1. Sure(m)
    BY <1>2, <1>4 DEF Sure
  <2> QED
    BY <2>1 DEF ReachInv
<1>6. Seen(m) => Seen(m)'
  BY <1>2, <1>4 DEF Seen, Coming, Queue
<1>7. ASSUME Brought(s, m)
      PROVE  Seen(m)' \/ Below(m)'
  <2>1. CASE m \in Ids(load[s].page)
    BY <1>4, <2>1 DEF Seen
  <2>2. CASE load[s].more /\ \A n \in Ids(load[s].page) : m < n
    <3>1. ASSUME NEW n \in Listed, load[s].kind = "more", m \notin Listed
          PROVE  m < n
      <4>1. PICK e \in Entries(list) : n = e.id
        BY ListIs
      <4>2. load[s].before <= n \/ n \in late
        BY <3>1, <4>1 DEF OnceInv, MoreBelow
      <4>3. m < load[s].before /\ n # m
        BY <1>7, <3>1 DEF Brought
      <4>4. n \in Nat /\ m \in Nat /\ load[s].before \in Nat
        <5>1. n \in Id /\ load[s].before \in 0 .. MaxMessages + 1
          BY ListIs, LoadIs DEF LoadState
        <5> QED
          BY <5>1, IdIs
      <4>5. ~ (n \in late /\ n < m)
        BY <1>5 DEF Sure
      <4> QED
        BY <4>2, <4>3, <4>4, <4>5
    <3>2. CASE m \in Listed
      BY <1>4, <3>2 DEF Seen
    <3>3. CASE m \notin Listed
      BY <1>2, <1>4, <2>2, <3>1, <3>3 DEF Below
    <3> QED
      BY <3>2, <3>3
  <2> QED
    BY <1>1, <1>7, <2>1, <2>2 DEF Brought
<1>8. post[m] = "committed" => Seen(m)' \/ Below(m)'
  <2>1. post[m] = "committed" => Seen(m) \/ Brought(s, m)
    BY <1>1, <1>5 DEF ReachOf, Active
  <2> QED
    BY <1>6, <1>7, <2>1
<1>9. post[m] = "published" => Seen(m)'
  BY <1>5, <1>6 DEF ReachOf
<1> QED
  BY <1>2, <1>3, <1>8, <1>9 DEF ReachOf

LEMMA ReachStep ==
    /\ TimelineTypeInv /\ CurrentInv /\ OnceInv /\ ReachInv
    /\ [TimelineNext]_timelineVars
    => ReachInv'
<1> SUFFICES ASSUME TimelineTypeInv, CurrentInv, OnceInv, ReachInv, [TimelineNext]_timelineVars
             PROVE  ReachInv'
  OBVIOUS
<1>1. CASE Serve
  BY <1>1, ReachServe
<1>2. CASE Receive
  BY <1>2, ReachSocket, ReachChange, ReachAdded DEF Receive
<1>3. ASSUME NEW s \in Slot, Load(s)
      PROVE  ReachInv'
  BY <1>3, ReachBegun, ReachPageRead, ReachDecrypted, ReachShown, ReachFails DEF Load
<1>4. CASE UNCHANGED timelineVars
  BY <1>4, ReachSocket
<1> QED
  BY <1>1, <1>2, <1>3, <1>4 DEF TimelineNext

LEMMA ReachInit == TimelineInit => ReachInv
BY DEF TimelineInit, ReachInv, ReachOf

LEMMA ReachInvHolds == TimelineSpec => [](TimelineTypeInv /\ CurrentInv /\ OnceInv /\ ReachInv)
<1> QED
  BY TimelineTypesInit, TimelineTypesStep, CurrentInit, CurrentStep, OnceInit, OnceStep,
     ReachInit, ReachStep, PTL DEF TimelineSpec

LEMMA ReachableShown == TimelineTypeInv /\ ReachInv => ShownOrReachable
<1> SUFFICES ASSUME TimelineTypeInv, ReachInv, NEW m \in Id, exists, AtRest(m),
                    post[m] = "committed", ~ crossed, m \notin misled \cup lost,
                    ~ \E n \in late : n < m, m \notin Listed
             PROVE  hasMore /\ (list = <<>> \/ m < Head(list).id)
  BY DEF ShownOrReachable
<1> USE DEF TimelineTypeInv
<1>1. /\ m \notin Ids(events) \cup decrypting
      /\ ~ \E c \in changing : c.id = m
      /\ \A s \in Slot : load[s].stage = "idle"
  BY DEF AtRest
<1>2. Sure(m)
  <2>1. NoticeOf("delete", m).id = m
    BY DEF NoticeOf
  <2> QED
    BY <1>1, <2>1 DEF Sure
<1>3. ReachOf(m)
  BY <1>2 DEF ReachInv
<1>4. ~ Seen(m)
  BY <1>1, QueuedIs DEF Seen, Coming, Kind
<1>5. Below(m)
  BY <1>1, <1>3, <1>4 DEF ReachOf
<1>6. list # <<>> => Head(list).id \in Listed
  <2>1. list \in Seq(Entry)
    BY ListIs
  <2>2. list # <<>> => Head(list) \in Entries(list)
    BY <2>1, TailEntries
  <2> QED
    BY <2>2, ListIs
<1> QED
  BY <1>5, <1>6 DEF Below

\* ShownOrReachable: what the server has is listed or the button leads to it, with the
\* exceptions that it names.
THEOREM ShownAlwaysReachable == TimelineSpec => []ShownOrReachable
<1> QED
  BY ReachInvHolds, ReachableShown, PTL
=============================================================================
