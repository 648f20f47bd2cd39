--------------------------- MODULE FederationProofs ---------------------------
(***************************************************************************)
(* Proofs about one channel shared by federated servers, for any servers,  *)
(* users, numbers of events and faults.                                    *)
(*                                                                         *)
(*   TypeInv    every event on its way, served or undone was issued once   *)
(*   PostsInv   the POSTs of a request are not made yet, or are on the     *)
(*              wire, at one handler or on record as failed                *)
(*   StoredInv  a message that is still to be stored somewhere is not      *)
(*              stored there; the step each step of the relay is of        *)
(*              FederatedRelay follows                                     *)
(*   KeysInv    while Redis is asked, one key of a device is at a server's *)
(*              handlers at a time, and an older one still on the wire is  *)
(*              going to be refused as a duplicate                         *)
(*   GuestsInv  an invite goes to the home of the user it is about, and is *)
(*              made before its request can be committed                   *)
(*   ToldInv    a remote user a server was told of is listed there, or his *)
(*              invite is under way or undone; a message goes to servers   *)
(*              that know the channel or were sent an invite               *)
(***************************************************************************)
EXTENDS Federation, TLAPS

-----------------------------------------------------------------------------
(***************************************************************************)
(* The types.  An event is issued once, by a user of the server it is from.*)
(***************************************************************************)

EventOK(e) ==
    /\ e \in Event
    /\ e.number \in 1 .. issued[e.kind][e.user]
    /\ e.from = Home[e.by]
    /\ e.kind = "invite" => Home[e.user] # e.from
    /\ e.kind # "invite" => e.by = e.user

Ids == Kind \X Server \X User \X Nat

StoresTyped ==
    /\ known \in SUBSET Server
    /\ federated \in SUBSET Server
    /\ rows \in [Server -> SUBSET User]
    /\ members \in [Server -> SUBSET User]
    /\ stored \in [Server -> [Message -> Nat]]
    /\ keys \in [Server -> [User -> Nat]]

RedisTyped == redis \in SUBSET Server /\ seen \in [Server -> SUBSET Ids]

IssuedTyped ==
    /\ issued \in [Kind -> [User -> Nat]]
    /\ \A k \in Kind, u \in User : issued[k][u] <= Limit[k][u]
    /\ faults \in 0 .. MaxFaults

CallsTyped == \A c \in calls : c \in Call /\ EventOK(c.event)

PostsTyped == \A p \in wire \cup failed : p \in Post /\ EventOK(p.event)

InboxTyped == \A h \in inbox : h \in Handler /\ EventOK(h.post.event)

UndoneTyped == \A e \in undone : EventOK(e)

TypeInv ==
    /\ StoresTyped
    /\ RedisTyped
    /\ IssuedTyped
    /\ CallsTyped
    /\ PostsTyped
    /\ InboxTyped
    /\ UndoneTyped

ToldTyped == told \in [Server -> SUBSET User]

LEMMA TypeInvTypes == TypeInv /\ ToldTyped => TypeOK
<1> SUFFICES ASSUME TypeInv, ToldTyped
             PROVE  TypeOK
  OBVIOUS
<1>1. ASSUME NEW s \in Server, NEW i \in seen[s]
      PROVE  i[1] \in Kind /\ i[3] \in User
  <2>1. i \in Ids
    BY DEF TypeInv, RedisTyped
  <2> QED
    BY <2>1 DEF Ids
<1> QED
  BY <1>1 DEF TypeInv, StoresTyped, RedisTyped, IssuedTyped, CallsTyped, PostsTyped,
     InboxTyped, UndoneTyped, ToldTyped, EventOK, TypeOK

LEMMA TypesInit == Init => TypeInv
<1> SUFFICES ASSUME Init
             PROVE  TypeInv
  OBVIOUS
<1> USE FederationAssumption
<1>1. StoresTyped
  BY DEF Init, StoresTyped
<1>2. RedisTyped
  BY DEF Init, RedisTyped
<1>3. IssuedTyped
  <2>1. \A k \in Kind, u \in User : Limit[k][u] \in Nat /\ issued[k][u] = 0
    BY DEF Init
  <2> QED
    BY <2>1 DEF Init, IssuedTyped
<1> QED
  BY <1>1, <1>2, <1>3 DEF Init, TypeInv, CallsTyped, PostsTyped, InboxTyped, UndoneTyped

IssuedGrows == \A k \in Kind, u \in User : issued[k][u] <= issued'[k][u]

LEMMA EventIs ==
    ASSUME IssuedTyped, NEW e, EventOK(e)
    PROVE  /\ e.kind \in Kind /\ e.user \in User /\ e.by \in User
           /\ e.from \in Server /\ e.number \in Nat \ {0}
           /\ issued[e.kind][e.user] \in Nat
           /\ e.number <= issued[e.kind][e.user]
           /\ e.number \in 1 .. Limit[e.kind][e.user]
<1>1. /\ e.kind \in Kind /\ e.user \in User /\ e.by \in User
      /\ e.from \in Server /\ e.number \in Nat
  BY DEF EventOK, Event
<1>2. /\ issued[e.kind][e.user] \in Nat /\ Limit[e.kind][e.user] \in Nat
      /\ issued[e.kind][e.user] <= Limit[e.kind][e.user]
  BY <1>1, FederationAssumption DEF IssuedTyped
<1>3. e.number \in 1 .. issued[e.kind][e.user]
  BY DEF EventOK
<1> QED
  BY <1>1, <1>2, <1>3

LEMMA EventStays ==
    ASSUME IssuedTyped, IssuedTyped', IssuedGrows, NEW e, EventOK(e)
    PROVE  EventOK(e)'
<1>1. /\ e.kind \in Kind /\ e.user \in User /\ e.number \in Nat \ {0}
      /\ issued[e.kind][e.user] \in Nat
      /\ e.number <= issued[e.kind][e.user]
  BY EventIs
<1>2. issued'[e.kind][e.user] \in Nat /\ issued[e.kind][e.user] <= issued'[e.kind][e.user]
  BY <1>1 DEF IssuedTyped, IssuedGrows
<1>3. e.number \in 1 .. issued'[e.kind][e.user]
  BY <1>1, <1>2
<1> QED
  BY <1>3 DEF EventOK

LEMMA EventsStay ==
    ASSUME TypeInv, IssuedTyped', IssuedGrows
    PROVE  /\ \A c \in calls : c \in Call /\ EventOK(c.event)'
           /\ \A p \in wire \cup failed : p \in Post /\ EventOK(p.event)'
           /\ \A h \in inbox : h \in Handler /\ EventOK(h.post.event)'
           /\ \A e \in undone : EventOK(e)'
BY EventStays DEF TypeInv, CallsTyped, PostsTyped, InboxTyped, UndoneTyped

LEMMA IssuedSame ==
    ASSUME TypeInv, UNCHANGED issued, UNCHANGED faults \/ Fault
    PROVE  IssuedTyped' /\ IssuedGrows
<1>1. faults \in 0 .. MaxFaults /\ MaxFaults \in Nat
  BY FederationAssumption DEF TypeInv, IssuedTyped
<1>2. faults' \in 0 .. MaxFaults
  BY <1>1 DEF Fault
<1>3. \A k \in Kind, u \in User : issued[k][u] \in Nat
  BY DEF TypeInv, IssuedTyped
<1> QED
  BY <1>2, <1>3 DEF TypeInv, IssuedTyped, IssuedGrows

\* The number-th message of a user is the message of one event only.
LEMMA MessageIs ==
    ASSUME IssuedTyped, NEW e, EventOK(e), e.kind = "message"
    PROVE  /\ MessageOf(e) \in Message
           /\ MessageOf(e)[1] = e.user /\ MessageOf(e)[2] = e.number
<1>1. e.user \in User /\ e.number \in 1 .. Limit["message"][e.user]
  BY EventIs
<1> QED
  BY <1>1 DEF MessageOf, Message

LEMMA PlanIs ==
    ASSUME TypeInv, NEW p \in wire
    PROVE  /\ Plan(p) \in Handler
           /\ Plan(p).post = p
           /\ EventOK(p.event) /\ p \in Post /\ Id(p.event) \in Ids
<1>1. p \in Post /\ EventOK(p.event)
  BY DEF TypeInv, PostsTyped
<1>2. /\ p.event.kind \in Kind /\ p.event.user \in User /\ p.event.by \in User
      /\ p.event.from \in Server /\ p.event.number \in Nat /\ p.to \in Server
  BY <1>1, EventIs DEF TypeInv, Post
<1>3. Id(p.event) \in Ids
  BY <1>2 DEF Id, Ids
<1> DEFINE e == p.event
           about == IF e.kind = "invite" THEN e.by ELSE e.user
           joining == IF p.to \in known THEN {e.user} ELSE {e.user, e.by}
           applies == CASE e.kind = "invite" -> TRUE
                        [] e.kind = "message" -> p.to \in known /\ e.user \in members[p.to]
                        [] e.kind = "key" -> p.to \in known
           users == IF e.kind = "key" THEN {} ELSE {about} \ rows[p.to]
           joins == IF e.kind = "invite" THEN joining \ members[p.to] ELSE {}
           channel == e.kind = "invite" /\ p.to \notin known
<1>4. Plan(p) = [post |-> p, applies |-> applies, users |-> users, joins |-> joins,
                 channel |-> channel]
  BY DEF Plan
<1>5. /\ applies \in BOOLEAN /\ users \in SUBSET User
      /\ joins \in SUBSET User /\ channel \in BOOLEAN
  <2>1. applies \in BOOLEAN
    <3>1. CASE e.kind = "invite"
      BY <3>1
    <3>2. CASE e.kind = "message"
      BY <3>2
    <3>3. CASE e.kind = "key"
      BY <3>3
    <3> QED
      BY <1>2, <3>1, <3>2, <3>3 DEF Kind
  <2>2. users \in SUBSET User
    BY <1>2
  <2>3. joins \in SUBSET User
    BY <1>2
  <2>4. channel \in BOOLEAN
    OBVIOUS
  <2> QED
    BY <2>1, <2>2, <2>3, <2>4
<1> HIDE DEF e, about, joining, applies, users, joins, channel
<1> QED
  BY <1>1, <1>3, <1>4, <1>5 DEF Handler

LEMMA TypesCompose ==
    ASSUME TypeInv, IssuedTyped', IssuedGrows, StoresTyped', RedisTyped',
           \A c \in calls' : c \in calls \/ (c \in Call /\ EventOK(c.event)'),
           \A p \in wire' \cup failed' :
              p \in wire \cup failed \/ (p \in Post /\ EventOK(p.event)'),
           \A h \in inbox' : h \in inbox \/ (h \in Handler /\ EventOK(h.post.event)'),
           \A e \in undone' : e \in undone \/ EventOK(e)'
    PROVE  TypeInv'
<1>1. /\ \A c \in calls : c \in Call /\ EventOK(c.event)'
      /\ \A p \in wire \cup failed : p \in Post /\ EventOK(p.event)'
      /\ \A h \in inbox : h \in Handler /\ EventOK(h.post.event)'
      /\ \A e \in undone : EventOK(e)'
  BY EventsStay
<1>2. CallsTyped'
  BY <1>1 DEF CallsTyped
<1>3. PostsTyped'
  BY <1>1 DEF PostsTyped
<1>4. InboxTyped'
  BY <1>1 DEF InboxTyped
<1>5. UndoneTyped'
  BY <1>1 DEF UndoneTyped
<1> QED
  BY <1>2, <1>3, <1>4, <1>5 DEF TypeInv

\* A request that begins has the next number of its kind and user.
Begun(c, kind, by, u, servers) ==
    /\ c \in Call
    /\ c.event.kind = kind /\ c.event.user = u /\ c.event.by = by
    /\ c.event.from = Home[by] /\ c.event.number = issued[kind][u] + 1
    /\ c.todo = servers /\ c.waiting = None

LEMMA BeginIs ==
    ASSUME TypeInv, NEW kind \in Kind, NEW by \in User, NEW u \in User,
           NEW servers \in SUBSET Server, Begin(kind, by, u, servers),
           kind = "invite" => Home[u] # Home[by],
           kind # "invite" => by = u
    PROVE  /\ IssuedTyped' /\ IssuedGrows
           /\ issued'[kind][u] = issued[kind][u] + 1
           /\ \A k \in Kind, v \in User : k # kind \/ v # u => issued'[k][v] = issued[k][v]
           /\ \E c : /\ Begun(c, kind, by, u, servers)
                     /\ EventOK(c.event)'
                     /\ calls' = calls \cup {c}
<1> USE FederationAssumption
<1>1. /\ issued[kind][u] \in Nat /\ issued[kind][u] + 1 <= Limit[kind][u]
      /\ issued' = [issued EXCEPT ![kind][u] = issued[kind][u] + 1]
      /\ UNCHANGED faults
  BY DEF Begin, TypeInv, IssuedTyped
<1>2. issued \in [Kind -> [User -> Nat]]
  BY DEF TypeInv, IssuedTyped
<1>3. /\ issued' \in [Kind -> [User -> Nat]]
      /\ issued'[kind][u] = issued[kind][u] + 1
      /\ \A k \in Kind, v \in User : k # kind \/ v # u => issued'[k][v] = issued[k][v]
  BY <1>1, <1>2
<1>4. IssuedTyped'
  <2>1. \A k \in Kind, v \in User : issued'[k][v] <= Limit[k][v]
    BY <1>1, <1>3 DEF TypeInv, IssuedTyped
  <2> QED
    BY <1>1, <1>3, <2>1 DEF TypeInv, IssuedTyped
<1>5. IssuedGrows
  <2> SUFFICES ASSUME NEW k \in Kind, NEW v \in User
               PROVE  issued[k][v] <= issued'[k][v]
    BY DEF IssuedGrows
  <2>1. issued[k][v] \in Nat
    BY <1>2
  <2>2. CASE k = kind /\ v = u
    BY <1>3, <2>1, <2>2
  <2>3. CASE k # kind \/ v # u
    BY <1>3, <2>1, <2>3
  <2> QED
    BY <2>2, <2>3
<1>6. PICK n \in Nat \ {0} : n = issued[kind][u] + 1
  BY <1>1
<1>7. PICK e : e = [kind |-> kind, from |-> Home[by], user |-> u, by |-> by, number |-> n]
  OBVIOUS
<1>8. /\ e \in Event /\ e.kind = kind /\ e.user = u /\ e.by = by /\ e.from = Home[by]
      /\ e.number = n
  BY <1>7 DEF Event
<1>9. PICK c : c = [event |-> e, todo |-> servers, waiting |-> None]
  OBVIOUS
<1>10. c \in Call /\ c.event = e /\ c.todo = servers /\ c.waiting = None
  BY <1>8, <1>9 DEF Call
<1>11. calls' = calls \cup {c}
  BY <1>6, <1>7, <1>9 DEF Begin
<1>12. EventOK(e)'
  <2>1. e.number \in 1 .. issued'[e.kind][e.user]
    BY <1>3, <1>6, <1>8
  <2> QED
    BY <1>8, <2>1 DEF EventOK
<1>13. Begun(c, kind, by, u, servers)
  BY <1>6, <1>8, <1>10 DEF Begun
<1> QED
  BY <1>3, <1>4, <1>5, <1>10, <1>11, <1>12, <1>13

LEMMA StoresSame ==
    ASSUME TypeInv, UNCHANGED database
    PROVE  StoresTyped'
BY DEF TypeInv, StoresTyped, database

LEMMA RedisSame ==
    ASSUME TypeInv, UNCHANGED cache
    PROVE  RedisTyped'
BY DEF TypeInv, RedisTyped, cache

\* Invite, SendMessage and DistributeKey, as requests that begin.
LEMMA BeginsAre ==
    ASSUME TypeInv, NEW u \in User,
           (\E v \in User : Invite(u, v)) \/ SendMessage(u) \/ DistributeKey(u)
    PROVE  \E kind \in Kind, v \in User, servers \in SUBSET Server :
              /\ Begin(kind, u, v, servers)
              /\ kind = "invite" => /\ Home[v] # Home[u] /\ u \in members[Home[u]]
                                    /\ servers = {Home[v]}
              /\ kind # "invite" => u = v
              /\ kind = "key" => ~ Pending(kind, Home[u], u)
              /\ Home[u] \notin servers
<1> USE FederationAssumption
<1>1. ASSUME NEW v \in User, Invite(u, v)
      PROVE  /\ Begin("invite", u, v, {Home[v]}) /\ Home[v] # Home[u]
             /\ u \in members[Home[u]]
  BY <1>1 DEF Invite
<1>2. RemoteServers(Home[u]) \in SUBSET Server /\ Home[u] \notin RemoteServers(Home[u])
  BY DEF RemoteServers, TypeInv, StoresTyped
<1>3. CASE \E v \in User : Invite(u, v)
  <2>1. PICK v \in User : Invite(u, v)
    BY <1>3
  <2>2. PICK servers \in SUBSET Server : servers = {Home[v]}
    OBVIOUS
  <2>3. "invite" \in Kind
    BY DEF Kind
  <2> QED
    BY <1>1, <2>1, <2>2, <2>3
<1>4. CASE SendMessage(u)
  BY <1>2, <1>4 DEF SendMessage, Kind
<1>5. CASE DistributeKey(u)
  BY <1>2, <1>5 DEF DistributeKey, Kind
<1> QED
  BY <1>3, <1>4, <1>5

LEMMA TypesUser ==
    ASSUME TypeInv, NEW u \in User, LocalUser(u) \/ \E s \in Server : Lookup(s, u)
    PROVE  TypeInv'
<1> USE FederationAssumption
<1>1. CASE Join(u) \/ Leave(u) \/ \E s \in Server : Lookup(s, u)
  <2>1. /\ UNCHANGED <<cache, calls, wire, inbox, issued, failed, undone, faults>>
    BY <1>1 DEF Join, Leave, Lookup, history
  <2>2. StoresTyped'
    <3>1. CASE Join(u)
      BY <3>1 DEF Join, TypeInv, StoresTyped
    <3>2. CASE Leave(u)
      BY <3>2 DEF Leave, TypeInv, StoresTyped
    <3>3. ASSUME NEW s \in Server, Lookup(s, u)
          PROVE  StoresTyped'
      BY <3>3 DEF Lookup, TypeInv, StoresTyped
    <3> QED
      BY <1>1, <3>1, <3>2, <3>3
  <2>3. RedisTyped' /\ IssuedTyped' /\ IssuedGrows
    BY <2>1, RedisSame, IssuedSame
  <2> QED
    BY <2>1, <2>2, <2>3, TypesCompose
<1>2. CASE (\E v \in User : Invite(u, v)) \/ SendMessage(u) \/ DistributeKey(u)
  <2>1. PICK kind \in Kind, v \in User, servers \in SUBSET Server :
            /\ Begin(kind, u, v, servers)
            /\ kind = "invite" => Home[v] # Home[u]
            /\ kind # "invite" => u = v
    BY <1>2, BeginsAre
  <2>2. UNCHANGED <<database, cache, wire, inbox, failed, undone>>
    BY <2>1 DEF Begin
  <2>3. /\ IssuedTyped' /\ IssuedGrows
        /\ \E c : /\ Begun(c, kind, u, v, servers)
                  /\ EventOK(c.event)'
                  /\ calls' = calls \cup {c}
    BY <2>1, BeginIs
  <2>4. PICK c : c \in Call /\ EventOK(c.event)' /\ calls' = calls \cup {c}
    BY <2>3 DEF Begun
  <2>5. \A d \in calls' : d \in calls \/ (d \in Call /\ EventOK(d.event)')
    BY <2>4
  <2>6. StoresTyped' /\ RedisTyped'
    BY <2>2, StoresSame, RedisSame
  <2> QED
    BY <2>2, <2>3, <2>5, <2>6, TypesCompose
<1> QED
  BY <1>1, <1>2 DEF LocalUser

\* The request of c after a POST or a wait: its event is the same.
Moved(c, d, todo, waiting) ==
    /\ d \in Call /\ d.event = c.event /\ d.todo = todo /\ d.waiting = waiting
    /\ calls' = (calls \ {c}) \cup {d}

LEMMA PostEventIs ==
    ASSUME TypeInv, NEW c \in calls, NEW s \in Server, PostEvent(c, s)
    PROVE  /\ s \in c.todo
           /\ UNCHANGED <<database, cache, inbox, history>>
           /\ \E d : Moved(c, d, c.todo \ {s}, s)
           /\ \E q \in Post : /\ q = [event |-> c.event, to |-> s]
                              /\ q.event = c.event /\ q.to = s
                              /\ wire' = wire \cup {q}
<1>1. c \in Call
  BY DEF TypeInv, CallsTyped
<1>2. PICK d : d = [c EXCEPT !.todo = @ \ {s}, !.waiting = s]
  OBVIOUS
<1>3. d \in Call /\ d.event = c.event /\ d.todo = c.todo \ {s} /\ d.waiting = s
  BY <1>1, <1>2 DEF Call
<1>4. calls' = (calls \ {c}) \cup {d}
  BY <1>2 DEF PostEvent, Becomes
<1>5. PICK q : q = [event |-> c.event, to |-> s]
  OBVIOUS
<1>6. q \in Post /\ q.event = c.event /\ q.to = s
  BY <1>1, <1>5 DEF Call, Post
<1>7. wire' = wire \cup {q}
  BY <1>5 DEF PostEvent
<1> QED
  BY <1>3, <1>4, <1>5, <1>6, <1>7 DEF PostEvent, Moved

LEMMA WaitEnds ==
    ASSUME TypeInv, NEW c \in calls, Answered(c) \/ TimesOut(c)
    PROVE  /\ UNCHANGED <<database, cache, wire, inbox, history>>
           /\ \E d : Moved(c, d, c.todo, None)
<1>1. c \in Call
  BY DEF TypeInv, CallsTyped
<1>2. PICK d : d = [c EXCEPT !.waiting = None]
  OBVIOUS
<1>3. d \in Call /\ d.event = c.event /\ d.todo = c.todo /\ d.waiting = None
  BY <1>1, <1>2 DEF Call
<1>4. calls' = (calls \ {c}) \cup {d}
  BY <1>2 DEF Answered, TimesOut, Becomes
<1> QED
  BY <1>3, <1>4 DEF Answered, TimesOut, Moved

LEMMA RolledBack ==
    ASSUME NEW c \in calls, InviteUnpublished(c) \/ CallFails(c)
    PROVE  /\ UNCHANGED <<database, cache, wire, inbox, issued, failed, unchecked>>
           /\ calls' = calls \ {c} /\ undone' = undone \cup {c.event}
           /\ UNCHANGED faults \/ Fault
BY DEF InviteUnpublished, CallFails, RollBack

LEMMA CommitStores ==
    ASSUME TypeInv, NEW c \in calls, Commit(c)
    PROVE  StoresTyped'
<1>1. EventOK(c.event)
  BY DEF TypeInv, CallsTyped
<1>2. /\ c.event.user \in User /\ c.event.from \in Server /\ c.event.number \in Nat
  BY <1>1, EventIs DEF TypeInv
<1>3. CASE c.event.kind = "invite"
  BY <1>2, <1>3 DEF Commit, TypeInv, StoresTyped
<1>4. CASE c.event.kind = "message"
  <2>1. MessageOf(c.event) \in Message
    BY <1>1, <1>4, MessageIs DEF TypeInv
  <2>2. stored' = [stored EXCEPT ![c.event.from][MessageOf(c.event)] = @ + 1]
    BY <1>4 DEF Commit
  <2>3. stored' \in [Server -> [Message -> Nat]]
    BY <1>2, <2>1, <2>2 DEF TypeInv, StoresTyped
  <2> QED
    BY <1>4, <2>3 DEF Commit, TypeInv, StoresTyped
<1>5. CASE c.event.kind = "key"
  <2>1. keys' = [keys EXCEPT ![c.event.from][c.event.user] = c.event.number]
    BY <1>5 DEF Commit
  <2>2. keys' \in [Server -> [User -> Nat]]
    BY <1>2, <2>1 DEF TypeInv, StoresTyped
  <2> QED
    BY <1>5, <2>2 DEF Commit, TypeInv, StoresTyped
<1> QED
  BY <1>3, <1>4, <1>5 DEF Commit

LEMMA TypesRequest ==
    ASSUME TypeInv, NEW c \in calls, Request(c)
    PROVE  TypeInv'
<1>1. ASSUME NEW s \in Server, PostEvent(c, s)
      PROVE  TypeInv'
  <2>1. /\ UNCHANGED <<database, cache, inbox, history>>
        /\ \E d : Moved(c, d, c.todo \ {s}, s)
        /\ \E q \in Post : q.event = c.event /\ wire' = wire \cup {q}
    BY <1>1, PostEventIs
  <2>2. UNCHANGED <<issued, failed, undone, faults>>
    BY <2>1 DEF history
  <2>3. StoresTyped' /\ RedisTyped' /\ IssuedTyped' /\ IssuedGrows
    BY <2>1, <2>2, StoresSame, RedisSame, IssuedSame
  <2>4. EventOK(c.event)'
    BY <2>3, EventsStay
  <2>5. \A d \in calls' : d \in calls \/ (d \in Call /\ EventOK(d.event)')
    <3>1. PICK d : Moved(c, d, c.todo \ {s}, s)
      BY <2>1
    <3>2. d \in Call /\ d.event = c.event /\ calls' = (calls \ {c}) \cup {d}
      BY <3>1 DEF Moved
    <3>3. EventOK(d.event)'
      BY <2>4, <3>2 DEF EventOK
    <3> QED
      BY <3>2, <3>3
  <2>6. \A p \in wire' \cup failed' :
           p \in wire \cup failed \/ (p \in Post /\ EventOK(p.event)')
    <3>1. PICK q \in Post : q.event = c.event /\ wire' = wire \cup {q}
      BY <2>1
    <3>2. EventOK(q.event)'
      BY <2>4, <3>1 DEF EventOK
    <3> QED
      BY <2>2, <3>1, <3>2
  <2> QED
    BY <2>1, <2>2, <2>3, <2>5, <2>6, TypesCompose
<1>2. CASE Answered(c) \/ TimesOut(c)
  <2>1. /\ UNCHANGED <<database, cache, wire, inbox, history>>
        /\ \E d : Moved(c, d, c.todo, None)
    BY <1>2, WaitEnds
  <2>2. UNCHANGED <<issued, failed, undone, faults>>
    BY <2>1 DEF history
  <2>3. StoresTyped' /\ RedisTyped' /\ IssuedTyped' /\ IssuedGrows
    BY <2>1, <2>2, StoresSame, RedisSame, IssuedSame
  <2>4. EventOK(c.event)'
    BY <2>3, EventsStay
  <2>5. \A d \in calls' : d \in calls \/ (d \in Call /\ EventOK(d.event)')
    <3>1. PICK d : Moved(c, d, c.todo, None)
      BY <2>1
    <3>2. d \in Call /\ d.event = c.event /\ calls' = (calls \ {c}) \cup {d}
      BY <3>1 DEF Moved
    <3>3. EventOK(d.event)'
      BY <2>4, <3>2 DEF EventOK
    <3> QED
      BY <3>2, <3>3
  <2> QED
    BY <2>1, <2>2, <2>3, <2>5, TypesCompose
<1>3. CASE Commit(c)
  <2>1. /\ UNCHANGED <<cache, wire, inbox, issued, failed, undone, faults>>
        /\ calls' = calls \ {c}
    BY <1>3 DEF Commit, history
  <2>2. StoresTyped' /\ RedisTyped' /\ IssuedTyped' /\ IssuedGrows
    BY <1>3, <2>1, CommitStores, RedisSame, IssuedSame
  <2> QED
    BY <2>1, <2>2, TypesCompose
<1>4. CASE InviteUnpublished(c) \/ CallFails(c)
  <2>1. /\ UNCHANGED <<database, cache, wire, inbox, issued, failed>>
        /\ calls' = calls \ {c} /\ undone' = undone \cup {c.event}
        /\ UNCHANGED faults \/ Fault
    BY <1>4, RolledBack
  <2>2. StoresTyped' /\ RedisTyped' /\ IssuedTyped' /\ IssuedGrows
    BY <2>1, StoresSame, RedisSame, IssuedSame
  <2>3. EventOK(c.event)'
    BY <2>2, EventsStay
  <2>4. \A e \in undone' : e \in undone \/ EventOK(e)'
    BY <2>1, <2>3 DEF EventOK
  <2> QED
    BY <2>1, <2>2, <2>4, TypesCompose
<1> QED
  BY <1>1, <1>2, <1>3, <1>4 DEF Request

\* How a POST leaves the wire: unserved, or to a handler that has read the database.
LEMMA ArrivalIs ==
    ASSUME NEW p \in wire, Arrival(p)
    PROVE  /\ UNCHANGED <<database, redis, calls, issued, undone>>
           /\ wire' = wire \ {p}
           /\ UNCHANGED faults \/ Fault
           /\ \/ /\ PostLost(p) \/ Duplicate(p)
                 /\ failed' = failed \cup {p} /\ UNCHANGED <<inbox, cache, unchecked>>
              \/ /\ Admit(p) \/ AdmitUnchecked(p)
                 /\ inbox' = inbox \cup {Plan(p)} /\ UNCHANGED failed
BY DEF Arrival, PostLost, Duplicate, Admit, AdmitUnchecked, Enters, cache, history

LEMMA TypesArrival ==
    ASSUME TypeInv, NEW p \in wire, Arrival(p)
    PROVE  TypeInv'
<1>1. /\ UNCHANGED <<database, redis, calls, issued, undone>>
      /\ wire' = wire \ {p}
      /\ UNCHANGED faults \/ Fault
  BY ArrivalIs
<1>2. /\ failed' \in {failed, failed \cup {p}}
      /\ inbox' \in {inbox, inbox \cup {Plan(p)}}
  BY ArrivalIs
<1>3. StoresTyped' /\ IssuedTyped' /\ IssuedGrows
  BY <1>1, StoresSame, IssuedSame
<1>4. p \in Post /\ EventOK(p.event)'
  BY <1>3, EventsStay
<1>5. Plan(p) \in Handler /\ Plan(p).post = p /\ Id(p.event) \in Ids
  BY PlanIs
<1>6. RedisTyped'
  <2>1. seen' = seen \/ seen' = [seen EXCEPT ![p.to] = @ \cup {Id(p.event)}]
    BY DEF Arrival, PostLost, Duplicate, Admit, AdmitUnchecked, cache
  <2> QED
    BY <1>1, <1>5, <2>1 DEF TypeInv, RedisTyped
<1>7. \A q \in wire' \cup failed' :
         q \in wire \cup failed \/ (q \in Post /\ EventOK(q.event)')
  BY <1>1, <1>2, <1>4
<1>8. \A h \in inbox' : h \in inbox \/ (h \in Handler /\ EventOK(h.post.event)')
  <2>1. PICK h : h = Plan(p)
    OBVIOUS
  <2>2. h \in Handler /\ h.post.event = p.event /\ inbox' \in {inbox, inbox \cup {h}}
    BY <1>2, <1>5, <2>1
  <2>3. EventOK(h.post.event)'
    BY <1>4, <2>2 DEF EventOK
  <2> QED
    BY <2>2, <2>3
<1> QED
  BY <1>1, <1>3, <1>6, <1>7, <1>8, TypesCompose

LEMMA HandlerIs ==
    ASSUME TypeInv, NEW h \in inbox
    PROVE  /\ h \in Handler /\ h.post \in Post /\ EventOK(h.post.event)
           /\ h.post.to \in Server /\ h.post.event.user \in User
           /\ h.users \in SUBSET User /\ h.joins \in SUBSET User
           /\ h.post.event.number \in Nat
BY EventIs DEF TypeInv, InboxTyped, Handler, Post

LEMMA HandlerStores ==
    ASSUME TypeInv, NEW h \in inbox, Handled(h)
    PROVE  StoresTyped'
<1> DEFINE e == h.post.event
           s == h.post.to
<1>1. /\ EventOK(e) /\ e.user \in User /\ s \in Server /\ e.number \in Nat
      /\ h.users \in SUBSET User /\ h.joins \in SUBSET User
  BY HandlerIs
<1>2. stored' \in [Server -> [Message -> Nat]]
  <2>1. CASE h.applies /\ e.kind = "message"
    <3>1. MessageOf(e) \in Message
      BY <1>1, <2>1, MessageIs DEF TypeInv
    <3>2. stored' = [stored EXCEPT ![s][MessageOf(e)] = @ + 1]
      BY <2>1 DEF Handled
    <3> HIDE DEF e, s
    <3> QED
      BY <1>1, <3>1, <3>2 DEF TypeInv, StoresTyped
  <2>2. CASE ~ (h.applies /\ e.kind = "message")
    BY <2>2 DEF Handled, TypeInv, StoresTyped
  <2> QED
    BY <2>1, <2>2
<1>3. keys' \in [Server -> [User -> Nat]]
  <2>1. CASE h.applies /\ e.kind = "key"
    <3>1. keys' = [keys EXCEPT ![s][e.user] = e.number]
      BY <2>1 DEF Handled
    <3> HIDE DEF e, s
    <3> QED
      BY <1>1, <3>1 DEF TypeInv, StoresTyped
  <2>2. CASE ~ (h.applies /\ e.kind = "key")
    BY <2>2 DEF Handled, TypeInv, StoresTyped
  <2> QED
    BY <2>1, <2>2
<1>4. known' \in SUBSET Server
  BY <1>1 DEF Handled, TypeInv, StoresTyped
<1>5. federated' \in SUBSET Server
  BY <1>1 DEF Handled, TypeInv, StoresTyped
<1>6. rows' \in [Server -> SUBSET User] /\ members' \in [Server -> SUBSET User]
  BY <1>1 DEF Handled, TypeInv, StoresTyped
<1> QED
  BY <1>2, <1>3, <1>4, <1>5, <1>6 DEF StoresTyped

LEMMA TypesHandler ==
    ASSUME TypeInv, NEW h \in inbox, Handled(h) \/ Refused(h)
    PROVE  TypeInv'
<1>1. /\ UNCHANGED <<cache, calls, wire, issued, undone>>
      /\ inbox' = inbox \ {h}
      /\ UNCHANGED faults \/ Fault
      /\ failed' \in {failed, failed \cup {h.post}}
  BY DEF Handled, Refused
<1>2. StoresTyped'
  BY HandlerStores, StoresSame DEF Refused
<1>3. RedisTyped' /\ IssuedTyped' /\ IssuedGrows
  BY <1>1, RedisSame, IssuedSame
<1>4. h.post \in Post /\ EventOK(h.post.event)'
  BY <1>3, EventsStay, HandlerIs
<1>5. \A q \in wire' \cup failed' :
         q \in wire \cup failed \/ (q \in Post /\ EventOK(q.event)')
  BY <1>1, <1>4
<1> QED
  BY <1>1, <1>2, <1>3, <1>5, TypesCompose

RedisStep ==
    \/ \E s \in Server : RedisFails(s) \/ RedisReturns(s)
    \/ \E s \in Server : \E i \in seen[s] : SeenExpires(s, i)

LEMMA RedisStepIs ==
    ASSUME RedisStep
    PROVE  /\ UNCHANGED <<database, calls, wire, inbox, issued, failed, undone, unchecked>>
           /\ UNCHANGED faults \/ Fault
BY DEF RedisStep, RedisFails, RedisReturns, SeenExpires, history

LEMMA TypesRedis ==
    ASSUME TypeInv, RedisStep
    PROVE  TypeInv'
<1>1. /\ UNCHANGED <<database, calls, wire, inbox, issued, failed, undone>>
      /\ UNCHANGED faults \/ Fault
  BY RedisStepIs
<1>2. RedisTyped'
  BY DEF RedisStep, RedisFails, RedisReturns, SeenExpires, TypeInv, RedisTyped
<1> QED
  BY <1>1, <1>2, StoresSame, IssuedSame, TypesCompose

LEMMA TypesSame ==
    ASSUME TypeInv, UNCHANGED vars
    PROVE  TypeInv'
<1>1. UNCHANGED <<database, cache, calls, wire, inbox, issued, failed, undone, faults>>
  BY DEF vars, history
<1>2. StoresTyped' /\ RedisTyped' /\ IssuedTyped' /\ IssuedGrows
  BY <1>1, StoresSame, RedisSame, IssuedSame
<1> QED
  BY <1>1, <1>2, TypesCompose

LEMMA TypesStep == TypeInv /\ [Next]_vars => TypeInv'
<1> SUFFICES ASSUME TypeInv, [Next]_vars
             PROVE  TypeInv'
  OBVIOUS
<1>1. ASSUME NEW u \in User, LocalUser(u) \/ \E s \in Server : Lookup(s, u)
      PROVE  TypeInv'
  BY <1>1, TypesUser
<1>2. ASSUME NEW c \in calls, Request(c)
      PROVE  TypeInv'
  BY <1>2, TypesRequest
<1>3. ASSUME NEW p \in wire, Arrival(p)
      PROVE  TypeInv'
  BY <1>3, TypesArrival
<1>4. ASSUME NEW h \in inbox, Handled(h) \/ Refused(h)
      PROVE  TypeInv'
  BY <1>4, TypesHandler
<1> QED
  BY <1>1, <1>2, <1>3, <1>4, TypesRedis, TypesSame DEF Next, RedisStep

LEMMA TypeInvHolds == Spec => []TypeInv
<1> QED
  BY TypesInit, TypesStep, PTL DEF Spec

\* Whom a server is told of by a step: the user of an invite that begins there, or the
\* user whose invite brings the channel.
ToldOf(s, u) ==
    \/ \E by \in User : Home[by] = s /\ Invite(by, u)
    \/ \E h \in inbox : Handled(h) /\ h.channel /\ h.post.to = s /\ h.post.event.by = u

LEMMA ToldStep ==
    ASSUME TypeInv, ToldTyped, [Next]_vars
    PROVE  /\ ToldTyped'
           /\ \A s \in Server : told[s] \subseteq told'[s]
           /\ \A s \in Server : \A u \in told'[s] \ told[s] : ToldOf(s, u)
<1> DEFINE Goal == /\ ToldTyped'
                   /\ \A s \in Server : told[s] \subseteq told'[s]
                   /\ \A s \in Server : \A u \in told'[s] \ told[s] : ToldOf(s, u)
<1>1. CASE UNCHANGED told
  BY <1>1 DEF ToldTyped
<1>2. ASSUME NEW s \in Server, NEW u \in User, ToldOf(s, u),
             told' = [told EXCEPT ![s] = @ \cup {u}]
      PROVE  Goal
  <2>1. \A r \in Server : told'[r] = IF r = s THEN told[r] \cup {u} ELSE told[r]
    BY <1>2 DEF ToldTyped
  <2> QED
    BY <1>2, <2>1 DEF ToldTyped
<1>3. ASSUME NEW u \in User, LocalUser(u) \/ \E s \in Server : Lookup(s, u)
      PROVE  Goal
  <2>1. ASSUME NEW v \in User, Invite(u, v)
        PROVE  Goal
    <3>1. told' = [told EXCEPT ![Home[u]] = @ \cup {v}]
      BY <2>1 DEF Invite, Begin
    <3>2. Home[u] \in Server
      BY FederationAssumption
    <3>3. ToldOf(Home[u], v)
      BY <2>1 DEF ToldOf
    <3> QED
      BY <1>2, <3>1, <3>2, <3>3
  <2>2. CASE SendMessage(u) \/ DistributeKey(u)
    BY <1>1, <2>2 DEF SendMessage, DistributeKey, Begin
  <2>3. CASE Join(u) \/ Leave(u) \/ \E s \in Server : Lookup(s, u)
    BY <1>1, <2>3 DEF Join, Leave, Lookup, history
  <2> QED
    BY <1>3, <2>1, <2>2, <2>3 DEF LocalUser
<1>4. ASSUME NEW c \in calls, Request(c)
      PROVE  Goal
  <2>1. UNCHANGED told
    BY <1>4 DEF Request, PostEvent, Answered, TimesOut, Commit, InviteUnpublished, CallFails,
       RollBack, history
  <2> QED
    BY <1>1, <2>1
<1>5. ASSUME NEW p \in wire, Arrival(p)
      PROVE  Goal
  <2>1. UNCHANGED told
    BY <1>5 DEF Arrival, PostLost, Duplicate, Admit, AdmitUnchecked, history
  <2> QED
    BY <1>1, <2>1
<1>6. ASSUME NEW h \in inbox, Handled(h) \/ Refused(h)
      PROVE  Goal
  <2>1. CASE Handled(h) /\ h.channel
    <3>1. told' = [told EXCEPT ![h.post.to] = @ \cup {h.post.event.by}]
      BY <2>1 DEF Handled
    <3>2. h.post.to \in Server /\ h.post.event.by \in User
      BY HandlerIs, EventIs DEF TypeInv
    <3>3. ToldOf(h.post.to, h.post.event.by)
      BY <2>1 DEF ToldOf
    <3> QED
      BY <1>2, <3>1, <3>2, <3>3
  <2>2. CASE ~ (Handled(h) /\ h.channel)
    <3>1. UNCHANGED told
      BY <1>6, <2>2 DEF Handled, Refused
    <3> QED
      BY <1>1, <3>1
  <2> QED
    BY <2>1, <2>2
<1>7. CASE RedisStep \/ UNCHANGED vars
  <2>1. UNCHANGED told
    BY <1>7 DEF RedisStep, RedisFails, RedisReturns, SeenExpires, vars, history
  <2> QED
    BY <1>1, <2>1
<1> QED
  BY <1>3, <1>4, <1>5, <1>6, <1>7 DEF Next, RedisStep

LEMMA ToldTypedHolds == Spec => []ToldTyped
<1>1. Init => ToldTyped
  BY DEF Init, ToldTyped
<1>2. TypeInv /\ ToldTyped /\ [Next]_vars => ToldTyped'
  BY ToldStep
<1> QED
  BY <1>1, <1>2, TypeInvHolds, PTL DEF Spec

\* Every variable of the servers keeps its type: a message, a key or a record is
\* stored for a user and a server that exist, and every POST and handler is of an
\* event that was issued.
THEOREM FederationTypeInvariant == Spec => []TypeOK
<1> QED
  BY TypeInvHolds, ToldTypedHolds, TypeInvTypes, PTL

-----------------------------------------------------------------------------
(***************************************************************************)
(* Every POST is made once.                                                *)
(***************************************************************************)

Sent == InFlight \cup failed

Same(e, f) == e.kind = f.kind /\ e.user = f.user /\ e.number = f.number

OneCall == \A c, d \in calls : Same(c.event, d.event) => c = d

TodoFresh ==
    \A c \in calls : \A s \in c.todo :
        s # c.event.from /\ [event |-> c.event, to |-> s] \notin Sent

NotUndone == \A c \in calls : c.event \notin undone

OneHandler ==
    /\ \A h, g \in inbox : h.post = g.post => h = g
    /\ \A h \in inbox : h.post \notin wire

Ended == failed \cap InFlight = {}

Abroad == \A p \in Sent : p.to # p.event.from

PostsInv ==
    /\ OneCall
    /\ TodoFresh
    /\ NotUndone
    /\ OneHandler
    /\ Ended
    /\ Abroad

\* A request that begins has an event that no request, POST or rollback has had.
LEMMA NewEvent ==
    ASSUME TypeInv, NEW kind \in Kind, NEW by \in User, NEW u \in User, NEW servers,
           NEW c, Begun(c, kind, by, u, servers)
    PROVE  /\ \A d \in calls : ~ Same(d.event, c.event)
           /\ \A p \in Sent : ~ Same(p.event, c.event)
           /\ \A e \in undone : ~ Same(e, c.event)
<1>1. issued[kind][u] \in Nat
  BY DEF TypeInv, IssuedTyped
<1>2. ASSUME NEW e, EventOK(e)
      PROVE  ~ Same(e, c.event)
  <2>1. /\ e.number \in Nat /\ issued[e.kind][e.user] \in Nat
        /\ e.number <= issued[e.kind][e.user]
    BY <1>2, EventIs DEF TypeInv
  <2>2. e.kind = kind /\ e.user = u => e.number # issued[kind][u] + 1
    BY <1>1, <2>1
  <2> QED
    BY <2>2 DEF Same, Begun
<1>3. \A d \in calls : EventOK(d.event)
  BY DEF TypeInv, CallsTyped
<1>4. \A p \in Sent : EventOK(p.event)
  BY DEF TypeInv, PostsTyped, InboxTyped, Sent, InFlight
<1>5. \A e \in undone : EventOK(e)
  BY DEF TypeInv, UndoneTyped
<1> QED
  BY <1>2, <1>3, <1>4, <1>5

LEMMA SameSent ==
    ASSUME UNCHANGED <<wire, inbox, failed>>
    PROVE  InFlight' = InFlight /\ Sent' = Sent
BY DEF InFlight, Sent

LEMMA PostsKept ==
    ASSUME PostsInv, UNCHANGED <<wire, inbox, failed>>, calls' \subseteq calls,
           \A c \in calls' : c.event \notin undone'
    PROVE  PostsInv'
<1>1. InFlight' = InFlight /\ Sent' = Sent
  BY SameSent
<1> QED
  BY <1>1 DEF PostsInv, OneCall, TodoFresh, NotUndone, OneHandler, Ended, Abroad

LEMMA PostsBegin ==
    ASSUME TypeInv, PostsInv, NEW u \in User,
           (\E v \in User : Invite(u, v)) \/ SendMessage(u) \/ DistributeKey(u)
    PROVE  PostsInv'
<1>1. PICK kind \in Kind, v \in User, servers \in SUBSET Server :
          /\ Begin(kind, u, v, servers)
          /\ kind = "invite" => Home[v] # Home[u]
          /\ kind # "invite" => u = v
          /\ Home[u] \notin servers
  BY BeginsAre
<1>2. UNCHANGED <<wire, inbox, failed, undone>>
  BY <1>1 DEF Begin
<1>3. PICK c : Begun(c, kind, u, v, servers) /\ calls' = calls \cup {c}
  <2>1. \E c : /\ Begun(c, kind, u, v, servers)
               /\ EventOK(c.event)'
               /\ calls' = calls \cup {c}
    BY <1>1, BeginIs
  <2> QED
    BY <2>1
<1>4. /\ \A d \in calls : ~ Same(d.event, c.event)
      /\ \A p \in Sent : ~ Same(p.event, c.event)
      /\ \A e \in undone : ~ Same(e, c.event)
  BY <1>3, NewEvent
<1>5. InFlight' = InFlight /\ Sent' = Sent
  BY <1>2, SameSent
<1>6. OneCall'
  <2>1. \A d \in calls : ~ Same(c.event, d.event)
    BY <1>4 DEF Same
  <2> QED
    BY <1>3, <1>4, <2>1 DEF PostsInv, OneCall
<1>7. TodoFresh'
  <2>1. ASSUME NEW s \in c.todo
        PROVE  s # c.event.from /\ [event |-> c.event, to |-> s] \notin Sent
    <3>1. s # c.event.from
      BY <1>1, <1>3 DEF Begun
    <3>2. Same([event |-> c.event, to |-> s].event, c.event)
      BY DEF Same
    <3> QED
      BY <1>4, <3>1, <3>2
  <2> QED
    BY <1>3, <1>5, <2>1 DEF PostsInv, TodoFresh
<1>8. NotUndone'
  BY <1>2, <1>3, <1>4 DEF PostsInv, NotUndone, Same
<1> QED
  BY <1>2, <1>5, <1>6, <1>7, <1>8 DEF PostsInv, OneHandler, Ended, Abroad

\* A POST goes to a server that no POST of the event has gone to.
LEMMA NewPost ==
    ASSUME TypeInv, PostsInv, NEW c \in calls, NEW s \in Server, PostEvent(c, s),
           NEW q, q = [event |-> c.event, to |-> s], wire' = wire \cup {q}
    PROVE  /\ q \notin Sent
           /\ s # c.event.from
           /\ InFlight' = InFlight \cup {q}
           /\ Sent' = Sent \cup {q}
<1>1. s \in c.todo /\ UNCHANGED <<inbox, failed>>
  BY DEF PostEvent, history
<1> QED
  BY <1>1 DEF PostsInv, TodoFresh, InFlight, Sent

LEMMA PostsPost ==
    ASSUME TypeInv, PostsInv, NEW c \in calls, NEW s \in Server, PostEvent(c, s)
    PROVE  PostsInv'
<1>1. /\ s \in c.todo
      /\ UNCHANGED <<inbox, history>>
      /\ \E d : Moved(c, d, c.todo \ {s}, s)
      /\ \E q \in Post : /\ q = [event |-> c.event, to |-> s]
                         /\ q.event = c.event /\ q.to = s
                         /\ wire' = wire \cup {q}
  BY PostEventIs
<1>2. PICK q \in Post : /\ q = [event |-> c.event, to |-> s]
                        /\ q.event = c.event /\ q.to = s
                        /\ wire' = wire \cup {q}
  BY <1>1
<1>3. /\ q \notin Sent
      /\ s # c.event.from
      /\ InFlight' = InFlight \cup {q}
      /\ Sent' = Sent \cup {q}
  BY <1>2, NewPost
<1>4. PICK d : /\ d.event = c.event /\ d.todo = c.todo \ {s}
               /\ calls' = (calls \ {c}) \cup {d}
  BY <1>1 DEF Moved
<1>5. UNCHANGED <<failed, undone>>
  BY <1>1 DEF history
<1>6. OneCall'
  BY <1>4 DEF PostsInv, OneCall
<1>7. TodoFresh'
  <2>1. ASSUME NEW x \in calls \ {c}, NEW r \in x.todo
        PROVE  r # x.event.from /\ [event |-> x.event, to |-> r] \notin Sent'
    <3>1. [event |-> x.event, to |-> r] # q
      <4>1. x.event # c.event
        BY <2>1 DEF PostsInv, OneCall, Same
      <4> QED
        BY <1>2, <4>1
    <3> QED
      BY <1>3, <3>1 DEF PostsInv, TodoFresh
  <2>2. ASSUME NEW r \in d.todo
        PROVE  r # d.event.from /\ [event |-> d.event, to |-> r] \notin Sent'
    <3>1. r \in c.todo /\ r # s
      BY <1>4
    <3>2. [event |-> d.event, to |-> r] # q
      BY <1>2, <3>1
    <3> QED
      BY <1>3, <1>4, <3>1, <3>2 DEF PostsInv, TodoFresh
  <2> QED
    BY <1>4, <2>1, <2>2 DEF TodoFresh
<1>8. NotUndone'
  BY <1>4, <1>5 DEF PostsInv, NotUndone
<1>9. OneHandler'
  BY <1>1, <1>2, <1>3 DEF PostsInv, OneHandler, Sent, InFlight
<1>10. Ended'
  BY <1>3, <1>5 DEF PostsInv, Ended, Sent
<1>11. Abroad'
  BY <1>2, <1>3 DEF PostsInv, Abroad
<1> QED
  BY <1>6, <1>7, <1>8, <1>9, <1>10, <1>11 DEF PostsInv

LEMMA PostsWait ==
    ASSUME TypeInv, PostsInv, NEW c \in calls, Answered(c) \/ TimesOut(c)
    PROVE  PostsInv'
<1>1. /\ UNCHANGED <<wire, inbox, history>>
      /\ \E d : Moved(c, d, c.todo, None)
  BY WaitEnds
<1>2. PICK d : /\ d.event = c.event /\ d.todo = c.todo
               /\ calls' = (calls \ {c}) \cup {d}
  BY <1>1 DEF Moved
<1>3. UNCHANGED <<failed, undone>>
  BY <1>1 DEF history
<1>4. InFlight' = InFlight /\ Sent' = Sent
  BY <1>1, <1>3, SameSent
<1> QED
  BY <1>1, <1>2, <1>3, <1>4
  DEF PostsInv, OneCall, TodoFresh, NotUndone, OneHandler, Ended, Abroad

LEMMA PostsRequest ==
    ASSUME TypeInv, PostsInv, NEW c \in calls, Request(c)
    PROVE  PostsInv'
<1>1. CASE Commit(c)
  <2>1. UNCHANGED <<wire, inbox, failed, undone>> /\ calls' = calls \ {c}
    BY <1>1 DEF Commit, history
  <2> QED
    BY <2>1, PostsKept DEF PostsInv, NotUndone
<1>2. CASE InviteUnpublished(c) \/ CallFails(c)
  <2>1. /\ UNCHANGED <<wire, inbox, failed>>
        /\ calls' = calls \ {c} /\ undone' = undone \cup {c.event}
    BY <1>2, RolledBack
  <2>2. \A d \in calls' : d.event # c.event
    BY <2>1 DEF PostsInv, OneCall, Same
  <2> QED
    BY <2>1, <2>2, PostsKept DEF PostsInv, NotUndone
<1> QED
  BY <1>1, <1>2, PostsPost, PostsWait DEF Request

\* A POST that leaves the wire is either at a handler or on record as failed.
LEMMA SentArrival ==
    ASSUME TypeInv, PostsInv, NEW p \in wire, Arrival(p)
    PROVE  /\ Sent' = Sent
           /\ \/ /\ PostLost(p) \/ Duplicate(p)
                 /\ InFlight' = InFlight \ {p}
                 /\ failed' = failed \cup {p} /\ UNCHANGED <<inbox, cache, unchecked>>
              \/ /\ Admit(p) \/ AdmitUnchecked(p)
                 /\ InFlight' = InFlight
                 /\ inbox' = inbox \cup {Plan(p)} /\ UNCHANGED failed
<1>1. wire' = wire \ {p}
  BY ArrivalIs
<1>2. Plan(p).post = p
  BY PlanIs
<1>3. \A h \in inbox : h.post # p
  BY DEF PostsInv, OneHandler
<1>4. CASE /\ PostLost(p) \/ Duplicate(p)
           /\ failed' = failed \cup {p} /\ UNCHANGED <<inbox, cache, unchecked>>
  <2>1. InFlight' = InFlight \ {p} /\ Sent' = Sent
    BY <1>1, <1>3, <1>4 DEF InFlight, Sent
  <2> QED
    BY <1>4, <2>1
<1>5. CASE /\ Admit(p) \/ AdmitUnchecked(p)
           /\ inbox' = inbox \cup {Plan(p)} /\ UNCHANGED failed
  <2>1. {h.post : h \in inbox'} = {h.post : h \in inbox} \cup {p}
    BY <1>2, <1>5
  <2>2. InFlight' = InFlight
    BY <1>1, <2>1 DEF InFlight
  <2> QED
    BY <1>5, <2>2 DEF Sent
<1> QED
  BY <1>4, <1>5, ArrivalIs

LEMMA PostsArrival ==
    ASSUME TypeInv, PostsInv, NEW p \in wire, Arrival(p)
    PROVE  PostsInv'
<1>1. UNCHANGED <<calls, undone>> /\ wire' = wire \ {p}
  BY ArrivalIs
<1>2. /\ Sent' = Sent
      /\ \/ /\ InFlight' = InFlight \ {p}
            /\ failed' = failed \cup {p} /\ UNCHANGED inbox
         \/ /\ InFlight' = InFlight
            /\ inbox' = inbox \cup {Plan(p)} /\ UNCHANGED failed
  BY SentArrival
<1>3. Plan(p).post = p
  BY PlanIs
<1>4. OneHandler'
  BY <1>1, <1>2, <1>3 DEF PostsInv, OneHandler
<1>5. Ended'
  BY <1>1, <1>2 DEF PostsInv, Ended
<1> QED
  BY <1>1, <1>2, <1>4, <1>5 DEF PostsInv, OneCall, TodoFresh, NotUndone, Abroad

LEMMA SentHandler ==
    ASSUME PostsInv, NEW h \in inbox, Handled(h) \/ Refused(h)
    PROVE  /\ UNCHANGED <<cache, calls, wire, issued, undone, unchecked>>
           /\ inbox' = inbox \ {h}
           /\ InFlight' = InFlight \ {h.post}
           /\ \/ /\ Handled(h) /\ h.applies
                 /\ failed' = failed /\ Sent' = Sent \ {h.post}
              \/ /\ ~ (Handled(h) /\ h.applies)
                 /\ failed' = failed \cup {h.post} /\ Sent' = Sent
<1>1. /\ UNCHANGED <<cache, calls, wire, issued, undone, unchecked>>
      /\ inbox' = inbox \ {h}
  BY DEF Handled, Refused
<1>2. h.post \notin wire /\ \A g \in inbox' : g.post # h.post
  BY <1>1 DEF PostsInv, OneHandler
<1>3. InFlight' = InFlight \ {h.post}
  BY <1>1, <1>2 DEF InFlight
<1>4. h.post \in InFlight /\ h.post \notin failed
  BY DEF PostsInv, Ended, InFlight
<1>5. CASE Handled(h) /\ h.applies
  <2>1. failed' = failed
    BY <1>5 DEF Handled
  <2> QED
    BY <1>1, <1>3, <1>4, <1>5, <2>1 DEF Sent
<1>6. CASE ~ (Handled(h) /\ h.applies)
  <2>1. failed' = failed \cup {h.post}
    BY <1>6 DEF Handled, Refused
  <2> QED
    BY <1>1, <1>3, <1>4, <1>6, <2>1 DEF Sent
<1> QED
  BY <1>5, <1>6

LEMMA PostsHandler ==
    ASSUME PostsInv, NEW h \in inbox, Handled(h) \/ Refused(h)
    PROVE  PostsInv'
<1>1. /\ UNCHANGED <<calls, wire, undone>>
      /\ inbox' = inbox \ {h}
      /\ InFlight' = InFlight \ {h.post}
      /\ failed' \subseteq failed \cup {h.post}
      /\ Sent' \subseteq Sent
  BY SentHandler
<1> QED
  BY <1>1 DEF PostsInv, OneCall, TodoFresh, NotUndone, OneHandler, Ended, Abroad

LEMMA PostsStep == TypeInv /\ PostsInv /\ [Next]_vars => PostsInv'
<1> SUFFICES ASSUME TypeInv, PostsInv, [Next]_vars
             PROVE  PostsInv'
  OBVIOUS
<1>1. ASSUME NEW u \in User, LocalUser(u) \/ \E s \in Server : Lookup(s, u)
      PROVE  PostsInv'
  <2>1. CASE Join(u) \/ Leave(u) \/ \E s \in Server : Lookup(s, u)
    <3>1. UNCHANGED <<calls, wire, inbox, failed, undone>>
      BY <2>1 DEF Join, Leave, Lookup, history
    <3> QED
      BY <3>1, PostsKept DEF PostsInv, NotUndone
  <2>2. CASE (\E v \in User : Invite(u, v)) \/ SendMessage(u) \/ DistributeKey(u)
    BY <2>2, PostsBegin
  <2> QED
    BY <1>1, <2>1, <2>2 DEF LocalUser
<1>2. CASE RedisStep \/ UNCHANGED vars
  <2>1. UNCHANGED <<calls, wire, inbox, failed, undone>>
    BY <1>2, RedisStepIs DEF vars, history
  <2> QED
    BY <2>1, PostsKept DEF PostsInv, NotUndone
<1> QED
  BY <1>1, <1>2, PostsRequest, PostsArrival, PostsHandler DEF Next, RedisStep

LEMMA PostsInit == Init => PostsInv
BY DEF Init, PostsInv, OneCall, TodoFresh, NotUndone, OneHandler, Ended, Abroad, Sent,
   InFlight

-----------------------------------------------------------------------------
(***************************************************************************)
(* A message is stored where its POST was handled, and at home once the    *)
(* request has committed.                                                  *)
(***************************************************************************)

Tells(e) == e.kind = "message"

CallStores ==
    \A c \in calls :
        Tells(c.event) => \A s \in c.todo \cup {c.event.from} :
                              stored[s][MessageOf(c.event)] = 0

PostStores ==
    \A p \in Sent : Tells(p.event) => stored[p.to][MessageOf(p.event)] = 0

UndoneStores ==
    \A e \in undone : Tells(e) => stored[e.from][MessageOf(e)] = 0

StoredIssued ==
    \A s \in Server, m \in Message : stored[s][m] > 0 => m[2] <= issued["message"][m[1]]

StoredInv ==
    /\ CallStores
    /\ PostStores
    /\ UndoneStores
    /\ StoredIssued

\* A message tells its event, and with the server it goes to its POST.
LEMMA SameMessage ==
    ASSUME NEW e, NEW f, EventOK(e), EventOK(f), Tells(e), Tells(f),
           MessageOf(e) = MessageOf(f)
    PROVE  e = f
<1>1. /\ e \in Event /\ f \in Event /\ e.by = e.user /\ f.by = f.user
      /\ e.from = Home[e.by] /\ f.from = Home[f.by]
  BY DEF EventOK, Tells
<1>2. e.user = f.user /\ e.number = f.number
  BY DEF MessageOf
<1> QED
  BY <1>1, <1>2 DEF Event, Tells

LEMMA SamePost ==
    ASSUME NEW p \in Post, NEW q \in Post, p.to = q.to, p.event = q.event
    PROVE  p = q
BY DEF Post

LEMMA EventsOf ==
    ASSUME TypeInv
    PROVE  /\ \A c \in calls : c \in Call /\ EventOK(c.event)
           /\ \A p \in Sent : p \in Post /\ EventOK(p.event)
           /\ \A e \in undone : EventOK(e)
BY DEF TypeInv, CallsTyped, PostsTyped, InboxTyped, UndoneTyped, Handler, Sent, InFlight

\* No row is inserted, and what a new request or POST has to store is not stored.
LEMMA StoredKept ==
    ASSUME TypeInv, StoredInv, UNCHANGED stored, IssuedTyped', IssuedGrows,
           \A c \in calls' :
              \/ \E d \in calls : c.event = d.event /\ c.todo \subseteq d.todo
              \/ /\ c.todo \cup {c.event.from} \subseteq Server
                 /\ Tells(c.event) => \A s \in Server : stored[s][MessageOf(c.event)] = 0,
           \A p \in Sent' :
              p \in Sent \/ (Tells(p.event) => stored[p.to][MessageOf(p.event)] = 0),
           \A e \in undone' : e \in undone \/ \E d \in calls : e = d.event
    PROVE  StoredInv'
<1>1. CallStores'
  BY DEF StoredInv, CallStores
<1>2. PostStores'
  BY DEF StoredInv, PostStores
<1>3. UndoneStores'
  BY DEF StoredInv, UndoneStores, CallStores
<1>4. StoredIssued'
  <2> SUFFICES ASSUME NEW s \in Server, NEW m \in Message, stored[s][m] > 0
               PROVE  m[2] <= issued'["message"][m[1]]
    BY DEF StoredIssued
  <2>1. m[1] \in User /\ m[2] \in Nat
    <3>1. PICK u \in User : m \in {u} \X (1 .. Limit["message"][u])
      BY DEF Message
    <3> QED
      BY <3>1
  <2>2. "message" \in Kind
    BY DEF Kind
  <2>3. /\ issued["message"][m[1]] \in Nat /\ issued'["message"][m[1]] \in Nat
        /\ issued["message"][m[1]] <= issued'["message"][m[1]]
    BY <2>1, <2>2 DEF TypeInv, IssuedTyped, IssuedGrows
  <2>4. m[2] <= issued["message"][m[1]]
    BY DEF StoredInv, StoredIssued
  <2> QED
    BY <2>1, <2>3, <2>4
<1> QED
  BY <1>1, <1>2, <1>3, <1>4 DEF StoredInv

\* A server inserts the row of e, and nothing else is left to store it there.
LEMMA StoredOne ==
    ASSUME TypeInv, StoredInv, UNCHANGED <<issued, undone>>,
           NEW e, EventOK(e), Tells(e), NEW r \in Server,
           stored' = [stored EXCEPT ![r][MessageOf(e)] = @ + 1],
           calls' \subseteq calls, Sent' \subseteq Sent,
           \A c \in calls' : c.event = e => r \notin c.todo \cup {e.from},
           \A p \in Sent' : p.event = e => p.to # r,
           e \in undone => r # e.from
    PROVE  StoredInv'
<1>1. MessageOf(e) \in Message /\ MessageOf(e)[1] = e.user /\ MessageOf(e)[2] = e.number
  BY MessageIs DEF TypeInv, Tells
<1>2. \A s \in Server, m \in Message :
          s # r \/ m # MessageOf(e) => stored'[s][m] = stored[s][m]
  BY <1>1 DEF TypeInv, StoresTyped
<1>3. ASSUME NEW f, EventOK(f), Tells(f), NEW s \in Server, f = e => s # r,
             stored[s][MessageOf(f)] = 0
      PROVE  stored'[s][MessageOf(f)] = 0
  <2>1. MessageOf(f) \in Message
    BY <1>3, MessageIs DEF TypeInv, Tells
  <2>2. f # e => MessageOf(f) # MessageOf(e)
    BY <1>3, SameMessage
  <2> QED
    BY <1>2, <1>3, <2>1, <2>2
<1>4. CallStores'
  <2> SUFFICES ASSUME NEW c \in calls', Tells(c.event), NEW s \in c.todo \cup {c.event.from}
               PROVE  stored'[s][MessageOf(c.event)] = 0
    BY DEF CallStores
  <2>1. c \in Call /\ EventOK(c.event)
    BY EventsOf
  <2>2. s \in Server
    BY <2>1 DEF Call, Event
  <2> QED
    BY <1>3, <2>1, <2>2 DEF StoredInv, CallStores
<1>5. PostStores'
  <2> SUFFICES ASSUME NEW p \in Sent', Tells(p.event)
               PROVE  stored'[p.to][MessageOf(p.event)] = 0
    BY DEF PostStores
  <2>1. p \in Post /\ EventOK(p.event) /\ p.to \in Server
    BY EventsOf DEF Post
  <2> QED
    BY <1>3, <2>1 DEF StoredInv, PostStores
<1>6. UndoneStores'
  <2> SUFFICES ASSUME NEW f \in undone, Tells(f)
               PROVE  stored'[f.from][MessageOf(f)] = 0
    BY DEF UndoneStores
  <2>1. EventOK(f) /\ f.from \in Server
    BY EventsOf, EventIs DEF TypeInv
  <2> QED
    BY <1>3, <2>1 DEF StoredInv, UndoneStores
<1>7. StoredIssued'
  <2>1. e.number <= issued["message"][e.user]
    BY EventIs DEF TypeInv, Tells
  <2> QED
    BY <1>1, <1>2, <2>1 DEF StoredInv, StoredIssued
<1> QED
  BY <1>4, <1>5, <1>6, <1>7 DEF StoredInv

\* A message that begins is not stored anywhere.
LEMMA NewMessage ==
    ASSUME TypeInv, StoredInv, NEW kind \in Kind, NEW by \in User, NEW u \in User,
           NEW servers, NEW c, Begun(c, kind, by, u, servers), IssuedTyped',
           EventOK(c.event)', Tells(c.event)
    PROVE  /\ MessageOf(c.event) \in Message
           /\ \A s \in Server : stored[s][MessageOf(c.event)] = 0
<1>1. MessageOf(c.event)[1] = c.event.user /\ MessageOf(c.event)[2] = c.event.number
  BY DEF MessageOf
<1>2. MessageOf(c.event) \in Message
  <2>1. /\ c.event.user \in User
        /\ c.event.number \in 1 .. issued'["message"][c.event.user]
        /\ issued'["message"][c.event.user] <= Limit["message"][c.event.user]
        /\ issued'["message"][c.event.user] \in Nat
        /\ Limit["message"][c.event.user] \in Nat
    BY FederationAssumption DEF EventOK, IssuedTyped, Tells, Event, Kind
  <2>2. c.event.number \in 1 .. Limit["message"][c.event.user]
    BY <2>1
  <2> QED
    BY <2>1, <2>2 DEF MessageOf, Message
<1>3. issued[kind][u] \in Nat
  BY DEF TypeInv, IssuedTyped
<1>4. kind = "message" /\ c.event.user = u /\ c.event.number = issued[kind][u] + 1
  BY DEF Begun, Tells
<1>5. ASSUME NEW s \in Server
      PROVE  stored[s][MessageOf(c.event)] = 0
  <2>1. ~ (stored[s][MessageOf(c.event)] > 0)
    BY <1>1, <1>2, <1>3, <1>4 DEF StoredInv, StoredIssued
  <2>2. stored[s][MessageOf(c.event)] \in Nat
    BY <1>2 DEF TypeInv, StoresTyped
  <2> QED
    BY <2>1, <2>2
<1> QED
  BY <1>2, <1>5

LEMMA StoredUser ==
    ASSUME TypeInv, StoredInv, NEW u \in User,
           LocalUser(u) \/ \E s \in Server : Lookup(s, u)
    PROVE  StoredInv'
<1>1. CASE Join(u) \/ Leave(u) \/ \E s \in Server : Lookup(s, u)
  <2>1. UNCHANGED <<stored, calls, wire, inbox, issued, failed, undone, faults>>
    BY <1>1 DEF Join, Leave, Lookup, history
  <2>2. IssuedTyped' /\ IssuedGrows /\ Sent' = Sent
    BY <2>1, IssuedSame, SameSent
  <2> QED
    BY <2>1, <2>2, StoredKept
<1>2. CASE (\E v \in User : Invite(u, v)) \/ SendMessage(u) \/ DistributeKey(u)
  <2>1. PICK kind \in Kind, v \in User, servers \in SUBSET Server :
            /\ Begin(kind, u, v, servers)
            /\ kind = "invite" => Home[v] # Home[u]
            /\ kind # "invite" => u = v
    BY <1>2, BeginsAre
  <2>2. UNCHANGED <<database, wire, inbox, failed, undone>>
    BY <2>1 DEF Begin
  <2>3. /\ IssuedTyped' /\ IssuedGrows
        /\ \E c : /\ Begun(c, kind, u, v, servers)
                  /\ EventOK(c.event)'
                  /\ calls' = calls \cup {c}
    BY <2>1, BeginIs
  <2>4. PICK c : /\ Begun(c, kind, u, v, servers)
                 /\ EventOK(c.event)'
                 /\ calls' = calls \cup {c}
    BY <2>3
  <2>5. Tells(c.event) => \A s \in Server : stored[s][MessageOf(c.event)] = 0
    BY <2>3, <2>4, NewMessage
  <2>6. c.todo \cup {c.event.from} \subseteq Server
    BY <2>4, FederationAssumption DEF Begun
  <2>7. Sent' = Sent /\ UNCHANGED stored
    BY <2>2, SameSent DEF database
  <2> QED
    BY <2>2, <2>3, <2>4, <2>5, <2>6, <2>7, StoredKept
<1> QED
  BY <1>1, <1>2 DEF LocalUser

LEMMA StoredRequest ==
    ASSUME TypeInv, PostsInv, StoredInv, NEW c \in calls, Request(c)
    PROVE  StoredInv'
<1>1. ASSUME NEW s \in Server, PostEvent(c, s)
      PROVE  StoredInv'
  <2>1. /\ s \in c.todo /\ UNCHANGED <<database, history>>
        /\ \E d : Moved(c, d, c.todo \ {s}, s)
        /\ \E q \in Post : /\ q = [event |-> c.event, to |-> s]
                           /\ q.event = c.event /\ q.to = s
                           /\ wire' = wire \cup {q}
    BY <1>1, PostEventIs
  <2>2. PICK d : /\ d.event = c.event /\ d.todo = c.todo \ {s}
                 /\ calls' = (calls \ {c}) \cup {d}
    BY <2>1 DEF Moved
  <2>3. PICK q \in Post : /\ q = [event |-> c.event, to |-> s]
                          /\ q.event = c.event /\ q.to = s
                          /\ wire' = wire \cup {q}
    BY <2>1
  <2>4. Sent' = Sent \cup {q}
    BY <1>1, <2>3, NewPost
  <2>5. Tells(q.event) => stored[q.to][MessageOf(q.event)] = 0
    BY <2>1, <2>3 DEF StoredInv, CallStores
  <2>6. IssuedTyped' /\ IssuedGrows /\ UNCHANGED <<stored, undone>>
    BY <2>1, IssuedSame DEF history, database
  <2> QED
    BY <2>2, <2>4, <2>5, <2>6, StoredKept
<1>2. CASE Answered(c) \/ TimesOut(c)
  <2>1. /\ UNCHANGED <<database, wire, inbox, history>>
        /\ \E d : Moved(c, d, c.todo, None)
    BY <1>2, WaitEnds
  <2>2. PICK d : /\ d.event = c.event /\ d.todo = c.todo
                 /\ calls' = (calls \ {c}) \cup {d}
    BY <2>1 DEF Moved
  <2>3. IssuedTyped' /\ IssuedGrows /\ UNCHANGED <<stored, undone>> /\ Sent' = Sent
    BY <2>1, IssuedSame, SameSent DEF history, database
  <2> QED
    BY <2>2, <2>3, StoredKept
<1>3. CASE Commit(c)
  <2>1. /\ UNCHANGED <<wire, inbox, issued, failed, undone, faults>>
        /\ calls' = calls \ {c}
    BY <1>3 DEF Commit, history
  <2>2. IssuedTyped' /\ IssuedGrows /\ Sent' = Sent
    BY <2>1, IssuedSame, SameSent
  <2>3. CASE Tells(c.event)
    <3>1. stored' = [stored EXCEPT ![c.event.from][MessageOf(c.event)] = @ + 1]
      BY <1>3, <2>3 DEF Commit, Tells
    <3>2. EventOK(c.event) /\ c.event.from \in Server
      BY EventsOf, EventIs DEF TypeInv
    <3>3. \A d \in calls' : d.event # c.event
      BY <2>1 DEF PostsInv, OneCall, Same
    <3>4. \A p \in Sent' : p.event = c.event => p.to # c.event.from
      BY <2>2 DEF PostsInv, Abroad
    <3>5. c.event \notin undone
      BY DEF PostsInv, NotUndone
    <3> QED
      BY <2>1, <2>2, <2>3, <3>1, <3>2, <3>3, <3>4, <3>5, StoredOne
  <2>4. CASE ~ Tells(c.event)
    <3>1. UNCHANGED stored
      BY <1>3, <2>4 DEF Commit, Tells
    <3> QED
      BY <2>1, <2>2, <3>1, StoredKept
  <2> QED
    BY <2>3, <2>4
<1>4. CASE InviteUnpublished(c) \/ CallFails(c)
  <2>1. /\ UNCHANGED <<database, wire, inbox, issued, failed>>
        /\ calls' = calls \ {c} /\ undone' = undone \cup {c.event}
        /\ UNCHANGED faults \/ Fault
    BY <1>4, RolledBack
  <2>2. IssuedTyped' /\ IssuedGrows /\ Sent' = Sent /\ UNCHANGED stored
    BY <2>1, IssuedSame, SameSent DEF database
  <2> QED
    BY <2>1, <2>2, StoredKept
<1> QED
  BY <1>1, <1>2, <1>3, <1>4 DEF Request

LEMMA StoredArrival ==
    ASSUME TypeInv, PostsInv, StoredInv, NEW p \in wire, Arrival(p)
    PROVE  StoredInv'
<1>1. UNCHANGED <<database, calls, issued, undone>> /\ (UNCHANGED faults \/ Fault)
  BY ArrivalIs
<1>2. Sent' = Sent /\ IssuedTyped' /\ IssuedGrows /\ UNCHANGED stored
  BY <1>1, SentArrival, IssuedSame DEF database
<1> QED
  BY <1>1, <1>2, StoredKept

LEMMA StoredHandler ==
    ASSUME TypeInv, PostsInv, StoredInv, NEW h \in inbox, Handled(h) \/ Refused(h)
    PROVE  StoredInv'
<1>1. /\ UNCHANGED <<calls, wire, issued, undone>>
      /\ \/ /\ Handled(h) /\ h.applies
            /\ Sent' = Sent \ {h.post}
         \/ /\ ~ (Handled(h) /\ h.applies)
            /\ Sent' = Sent
  BY SentHandler
<1>2. IssuedTyped' /\ IssuedGrows
  BY IssuedSame DEF Handled, Refused
<1>3. CASE Handled(h) /\ h.applies /\ Tells(h.post.event)
  <2>1. PICK e : e = h.post.event
    OBVIOUS
  <2>2. PICK r : r = h.post.to
    OBVIOUS
  <2>3. EventOK(e) /\ r \in Server /\ h.post \in Post
    BY <2>1, <2>2, HandlerIs
  <2>4. stored' = [stored EXCEPT ![r][MessageOf(e)] = @ + 1]
    BY <1>3, <2>1, <2>2 DEF Handled, Tells
  <2>5. h.post \in Sent /\ r # e.from
    BY <2>1, <2>2 DEF PostsInv, Abroad, Sent, InFlight
  <2>6. \A d \in calls' : d.event = e => r \notin d.todo \cup {e.from}
    <3>1. h.post = [event |-> e, to |-> r]
      BY <2>1, <2>2, <2>3 DEF Post
    <3> QED
      BY <1>1, <2>5, <3>1 DEF PostsInv, TodoFresh
  <2>7. \A p \in Sent' : p.event = e => p.to # r
    BY <1>1, <1>3, <2>1, <2>2, <2>3, EventsOf, SamePost
  <2>8. Tells(e) /\ Sent' \subseteq Sent /\ calls' \subseteq calls
    BY <1>1, <1>3, <2>1
  <2>9. UNCHANGED <<issued, undone>> /\ EventOK(e) /\ r \in Server /\ r # e.from
    BY <1>1, <2>3, <2>5
  <2> QED
    BY <2>4, <2>6, <2>7, <2>8, <2>9, StoredOne
<1>4. CASE ~ (Handled(h) /\ h.applies /\ Tells(h.post.event))
  <2>1. UNCHANGED stored
    BY <1>4 DEF Handled, Refused, Tells, database
  <2> QED
    BY <1>1, <1>2, <2>1, StoredKept
<1> QED
  BY <1>3, <1>4

LEMMA StoredStep == TypeInv /\ PostsInv /\ StoredInv /\ [Next]_vars => StoredInv'
<1> SUFFICES ASSUME TypeInv, PostsInv, StoredInv, [Next]_vars
             PROVE  StoredInv'
  OBVIOUS
<1>1. CASE RedisStep \/ UNCHANGED vars
  <2>1. /\ UNCHANGED <<database, calls, wire, inbox, issued, failed, undone>>
        /\ UNCHANGED faults \/ Fault
    BY <1>1, RedisStepIs DEF vars, history
  <2>2. Sent' = Sent /\ IssuedTyped' /\ IssuedGrows /\ UNCHANGED stored
    BY <2>1, SameSent, IssuedSame DEF database
  <2> QED
    BY <2>1, <2>2, StoredKept
<1>2. ASSUME NEW u \in User, LocalUser(u) \/ \E s \in Server : Lookup(s, u)
      PROVE  StoredInv'
  BY <1>2, StoredUser
<1> QED
  BY <1>1, <1>2, StoredRequest, StoredArrival, StoredHandler DEF Next, RedisStep

LEMMA StoredInit == Init => StoredInv
<1> SUFFICES ASSUME Init
             PROVE  StoredInv
  OBVIOUS
<1>1. \A s \in Server, m \in Message : stored[s][m] = 0
  BY DEF Init
<1> QED
  BY <1>1 DEF Init, StoredInv, CallStores, PostStores, UndoneStores, StoredIssued, Sent,
     InFlight

-----------------------------------------------------------------------------
(***************************************************************************)
(* The relay of messages: every step is one of FederatedRelay, or none.    *)
(***************************************************************************)

RelayInv == TypeInv /\ PostsInv /\ StoredInv

LEMMA RelayInvHolds == Spec => []RelayInv
<1>1. Init => RelayInv
  BY TypesInit, PostsInit, StoredInit DEF RelayInv
<1>2. RelayInv /\ [Next]_vars => RelayInv'
  BY TypesStep, PostsStep, StoredStep DEF RelayInv
<1> QED
  BY <1>1, <1>2, PTL DEF Spec

Opened(m) == \E c \in calls : Tells(c.event) /\ MessageOf(c.event) = m

RolledBackAt(m) == \E e \in undone : Tells(e) /\ MessageOf(e) = m

SentTo(s, m) == \E p \in InFlight : Concerns(p, s, m)

LostAt(s, m) == \E p \in failed : Concerns(p, s, m)

LEMMA HomeOf ==
    ASSUME NEW e, EventOK(e), Tells(e)
    PROVE  e.from = Home[MessageOf(e)[1]]
BY DEF EventOK, Tells, MessageOf

\* What the request and the offers of a message are, arm by arm.
RequestReads ==
    \A m \in Message :
        /\ Home[m[1]] \in Server /\ stored[Home[m[1]]][m] \in Nat
        /\ Opened(m) => /\ RequestOf(m) = "open" /\ ~ RolledBackAt(m)
                        /\ stored[Home[m[1]]][m] = 0
        /\ RolledBackAt(m) => /\ RequestOf(m) = "undone" /\ ~ Opened(m)
                              /\ stored[Home[m[1]]][m] = 0
        /\ ~ Opened(m) /\ ~ RolledBackAt(m) =>
             /\ stored[Home[m[1]]][m] > 0 => RequestOf(m) = "kept"
             /\ stored[Home[m[1]]][m] = 0 => RequestOf(m) = "new"

OfferReads ==
    \A m \in Message, s \in Server :
        /\ stored[s][m] \in Nat
        /\ Home[m[1]] = s => OfferOf(s, m) = "none" /\ ~ SentTo(s, m) /\ ~ LostAt(s, m)
        /\ SentTo(s, m) => OfferOf(s, m) = "sent" /\ ~ LostAt(s, m) /\ stored[s][m] = 0
        /\ LostAt(s, m) => OfferOf(s, m) = "lost" /\ ~ SentTo(s, m) /\ stored[s][m] = 0
        /\ Home[m[1]] # s /\ ~ SentTo(s, m) /\ ~ LostAt(s, m) =>
             /\ stored[s][m] > 0 => OfferOf(s, m) = "stored"
             /\ stored[s][m] = 0 => OfferOf(s, m) = "none"

LEMMA RequestIs == RelayInv => RequestReads
<1> SUFFICES ASSUME RelayInv, NEW m \in Message
             PROVE  /\ Home[m[1]] \in Server /\ stored[Home[m[1]]][m] \in Nat
                    /\ Opened(m) => /\ RequestOf(m) = "open" /\ ~ RolledBackAt(m)
                                    /\ stored[Home[m[1]]][m] = 0
                    /\ RolledBackAt(m) => /\ RequestOf(m) = "undone" /\ ~ Opened(m)
                                          /\ stored[Home[m[1]]][m] = 0
                    /\ ~ Opened(m) /\ ~ RolledBackAt(m) =>
                         /\ stored[Home[m[1]]][m] > 0 => RequestOf(m) = "kept"
                         /\ stored[Home[m[1]]][m] = 0 => RequestOf(m) = "new"
  BY DEF RequestReads
<1>1. Home[m[1]] \in Server /\ stored[Home[m[1]]][m] \in Nat
  <2>1. PICK u \in User : m \in {u} \X (1 .. Limit["message"][u])
    BY DEF Message
  <2>2. m[1] \in User
    BY <2>1
  <2> QED
    BY <2>2, FederationAssumption DEF RelayInv, TypeInv, StoresTyped
<1>2. Opened(m) => stored[Home[m[1]]][m] = 0
  <2> SUFFICES ASSUME NEW c \in calls, Tells(c.event), MessageOf(c.event) = m
               PROVE  stored[Home[m[1]]][m] = 0
    BY DEF Opened
  <2>1. EventOK(c.event)
    BY EventsOf DEF RelayInv
  <2>2. c.event.from = Home[m[1]]
    BY <2>1, HomeOf
  <2> QED
    BY <2>2 DEF RelayInv, StoredInv, CallStores
<1>3. RolledBackAt(m) => stored[Home[m[1]]][m] = 0
  <2> SUFFICES ASSUME NEW e \in undone, Tells(e), MessageOf(e) = m
               PROVE  stored[Home[m[1]]][m] = 0
    BY DEF RolledBackAt
  <2>1. EventOK(e)
    BY EventsOf DEF RelayInv
  <2>2. e.from = Home[m[1]]
    BY <2>1, HomeOf
  <2> QED
    BY <2>2 DEF RelayInv, StoredInv, UndoneStores
<1>4. ~ (Opened(m) /\ RolledBackAt(m))
  <2> SUFFICES ASSUME NEW c \in calls, Tells(c.event), MessageOf(c.event) = m,
                      NEW e \in undone, Tells(e), MessageOf(e) = m
               PROVE  FALSE
    BY DEF Opened, RolledBackAt
  <2>1. c.event = e
    BY EventsOf, SameMessage DEF RelayInv
  <2> QED
    BY <2>1 DEF RelayInv, PostsInv, NotUndone
<1>5. RequestOf(m) = CASE Opened(m) -> "open"
                       [] RolledBackAt(m) -> "undone"
                       [] stored[Home[m[1]]][m] > 0 -> "kept"
                       [] OTHER -> "new"
  BY DEF RequestOf, Opened, RolledBackAt, Tells
<1> QED
  BY <1>1, <1>2, <1>3, <1>4, <1>5

LEMMA OfferIs == RelayInv => OfferReads
<1> SUFFICES ASSUME RelayInv, NEW m \in Message, NEW s \in Server
             PROVE  /\ stored[s][m] \in Nat
                    /\ Home[m[1]] = s =>
                         OfferOf(s, m) = "none" /\ ~ SentTo(s, m) /\ ~ LostAt(s, m)
                    /\ SentTo(s, m) =>
                         OfferOf(s, m) = "sent" /\ ~ LostAt(s, m) /\ stored[s][m] = 0
                    /\ LostAt(s, m) =>
                         OfferOf(s, m) = "lost" /\ ~ SentTo(s, m) /\ stored[s][m] = 0
                    /\ Home[m[1]] # s /\ ~ SentTo(s, m) /\ ~ LostAt(s, m) =>
                         /\ stored[s][m] > 0 => OfferOf(s, m) = "stored"
                         /\ stored[s][m] = 0 => OfferOf(s, m) = "none"
  BY DEF OfferReads
<1>1. stored[s][m] \in Nat
  BY DEF RelayInv, TypeInv, StoresTyped
<1>2. ASSUME NEW p \in Sent, Concerns(p, s, m)
      PROVE  stored[s][m] = 0 /\ Home[m[1]] # s
  <2>1. p.to = s /\ MessageOf(p.event) = m /\ Tells(p.event) /\ EventOK(p.event)
    BY <1>2, EventsOf DEF RelayInv, Concerns, Tells
  <2>2. p.event.from = Home[m[1]] /\ p.to # p.event.from
    BY <2>1, HomeOf DEF RelayInv, PostsInv, Abroad
  <2> QED
    BY <2>1, <2>2 DEF RelayInv, StoredInv, PostStores
<1>3. SentTo(s, m) \/ LostAt(s, m) => stored[s][m] = 0 /\ Home[m[1]] # s
  BY <1>2 DEF SentTo, LostAt, Sent
<1>4. ~ (SentTo(s, m) /\ LostAt(s, m))
  <2> SUFFICES ASSUME NEW p \in InFlight, Concerns(p, s, m),
                      NEW q \in failed, Concerns(q, s, m)
               PROVE  FALSE
    BY DEF SentTo, LostAt
  <2>1. /\ p \in Post /\ EventOK(p.event) /\ q \in Post /\ EventOK(q.event)
    BY EventsOf DEF RelayInv, Sent
  <2>2. p.to = q.to /\ p.event = q.event
    BY <2>1, SameMessage DEF Concerns, Tells
  <2> QED
    BY <2>1, <2>2, SamePost DEF RelayInv, PostsInv, Ended
<1>5. OfferOf(s, m) = IF Home[m[1]] = s THEN "none"
                      ELSE CASE stored[s][m] > 0 -> "stored"
                             [] SentTo(s, m) -> "sent"
                             [] LostAt(s, m) -> "lost"
                             [] OTHER -> "none"
  BY DEF OfferOf, SentTo, LostAt
<1> QED
  BY <1>1, <1>3, <1>4, <1>5

LEMMA BothRead ==
    ASSUME RelayInv, RelayInv'
    PROVE  RequestReads /\ RequestReads' /\ OfferReads /\ OfferReads'
<1>1. RelayInv => RequestReads /\ OfferReads
  BY RequestIs, OfferIs
<1>2. RelayInv' => RequestReads' /\ OfferReads'
  BY RequestIs, OfferIs, PTL
<1> QED
  BY <1>1, <1>2

Requests == [m \in Message |-> RequestOf(m)]
Offers   == [s \in Server |-> [m \in Message |-> OfferOf(s, m)]]

LEMMA RequestSame ==
    ASSUME RelayInv, RelayInv', NEW m \in Message, Opened(m)' <=> Opened(m),
           RolledBackAt(m)' <=> RolledBackAt(m),
           stored'[Home[m[1]]][m] = stored[Home[m[1]]][m]
    PROVE  RequestOf(m)' = RequestOf(m)
<1>1. /\ stored[Home[m[1]]][m] \in Nat
      /\ Opened(m) => RequestOf(m) = "open"
      /\ RolledBackAt(m) => RequestOf(m) = "undone"
      /\ ~ Opened(m) /\ ~ RolledBackAt(m) =>
                /\ stored[Home[m[1]]][m] > 0 => RequestOf(m) = "kept"
                /\ stored[Home[m[1]]][m] = 0 => RequestOf(m) = "new"
  BY BothRead DEF RequestReads
<1>2. /\ Opened(m)' => RequestOf(m)' = "open"
      /\ RolledBackAt(m)' => RequestOf(m)' = "undone"
      /\ ~ Opened(m)' /\ ~ RolledBackAt(m)' =>
                /\ stored'[Home[m[1]]][m] > 0 => RequestOf(m)' = "kept"
                /\ stored'[Home[m[1]]][m] = 0 => RequestOf(m)' = "new"
  BY BothRead DEF RequestReads
<1> QED
  BY <1>1, <1>2

LEMMA OfferSame ==
    ASSUME RelayInv, RelayInv', NEW m \in Message, NEW s \in Server,
           SentTo(s, m)' <=> SentTo(s, m), LostAt(s, m)' <=> LostAt(s, m),
           stored'[s][m] = stored[s][m] \/ s = Home[m[1]]
    PROVE  OfferOf(s, m)' = OfferOf(s, m)
<1>1. /\ stored[s][m] \in Nat
      /\ Home[m[1]] = s => OfferOf(s, m) = "none"
      /\ SentTo(s, m) => OfferOf(s, m) = "sent"
      /\ LostAt(s, m) => OfferOf(s, m) = "lost"
      /\ Home[m[1]] # s /\ ~ SentTo(s, m) /\ ~ LostAt(s, m) =>
                /\ stored[s][m] > 0 => OfferOf(s, m) = "stored"
                /\ stored[s][m] = 0 => OfferOf(s, m) = "none"
  BY BothRead DEF OfferReads
<1>2. /\ Home[m[1]] = s => OfferOf(s, m)' = "none"
      /\ SentTo(s, m)' => OfferOf(s, m)' = "sent"
      /\ LostAt(s, m)' => OfferOf(s, m)' = "lost"
      /\ Home[m[1]] # s /\ ~ SentTo(s, m)' /\ ~ LostAt(s, m)' =>
                /\ stored'[s][m] > 0 => OfferOf(s, m)' = "stored"
                /\ stored'[s][m] = 0 => OfferOf(s, m)' = "none"
  BY BothRead DEF OfferReads
<1> QED
  BY <1>1, <1>2

\* The requests and the offers, but for those of X.
RequestsKept(X) ==
    \A m \in Message \ X :
        /\ Opened(m)' <=> Opened(m)
        /\ RolledBackAt(m)' <=> RolledBackAt(m)
        /\ stored'[Home[m[1]]][m] = stored[Home[m[1]]][m]

OffersKept(X) ==
    \A s \in Server, m \in Message : <<s, m>> \notin X =>
        /\ SentTo(s, m)' <=> SentTo(s, m)
        /\ LostAt(s, m)' <=> LostAt(s, m)
        /\ stored'[s][m] = stored[s][m] \/ s = Home[m[1]]

LEMMA RequestsSame ==
    ASSUME RelayInv, RelayInv', RequestsKept({})
    PROVE  Requests' = Requests
BY RequestSame DEF Requests, RequestsKept

LEMMA RequestsBut ==
    ASSUME RelayInv, RelayInv', NEW m \in Message, RequestsKept({m})
    PROVE  Requests' = [Requests EXCEPT ![m] = RequestOf(m)']
<1>1. \A n \in Message \ {m} : RequestOf(n)' = RequestOf(n)
  BY RequestSame DEF RequestsKept
<1> QED
  BY <1>1 DEF Requests

LEMMA OffersSame ==
    ASSUME RelayInv, RelayInv', OffersKept({})
    PROVE  Offers' = Offers
<1>1. \A s \in Server, m \in Message : OfferOf(s, m)' = OfferOf(s, m)
  BY OfferSame DEF OffersKept
<1> QED
  BY <1>1 DEF Offers

LEMMA OffersBut ==
    ASSUME RelayInv, RelayInv', NEW r \in Server, NEW m \in Message, OffersKept({<<r, m>>})
    PROVE  Offers' = [Offers EXCEPT ![r][m] = OfferOf(r, m)']
<1>1. \A s \in Server, n \in Message : s # r \/ n # m => OfferOf(s, n)' = OfferOf(s, n)
  BY OfferSame DEF OffersKept
<1> QED
  BY <1>1 DEF Offers

LEMMA RequestsStay ==
    ASSUME UNCHANGED stored,
           \A c \in calls' : Tells(c.event) => \E d \in calls : d.event = c.event,
           \A c \in calls : Tells(c.event) => \E d \in calls' : d.event = c.event,
           \A e \in undone' \ undone : ~ Tells(e), undone \subseteq undone'
    PROVE  RequestsKept({})
<1> SUFFICES ASSUME NEW m \in Message
             PROVE  /\ Opened(m)' <=> Opened(m)
                    /\ RolledBackAt(m)' <=> RolledBackAt(m)
  BY DEF RequestsKept
<1>1. Opened(m)' <=> Opened(m)
  BY DEF Opened
<1>2. RolledBackAt(m)' <=> RolledBackAt(m)
  BY DEF RolledBackAt
<1> QED
  BY <1>1, <1>2

LEMMA OffersStay ==
    ASSUME UNCHANGED stored,
           \A p \in InFlight' : Tells(p.event) => p \in InFlight,
           \A p \in InFlight : Tells(p.event) => p \in InFlight',
           \A p \in failed' \ failed : ~ Tells(p.event), failed \subseteq failed'
    PROVE  OffersKept({})
<1> SUFFICES ASSUME NEW s \in Server, NEW m \in Message
             PROVE  /\ SentTo(s, m)' <=> SentTo(s, m)
                    /\ LostAt(s, m)' <=> LostAt(s, m)
  BY DEF OffersKept
<1>1. SentTo(s, m)' <=> SentTo(s, m)
  BY DEF SentTo, Concerns, Tells
<1>2. LostAt(s, m)' <=> LostAt(s, m)
  BY DEF LostAt, Concerns, Tells
<1> QED
  BY <1>1, <1>2

LEMMA RelayStutters ==
    ASSUME RelayInv, RelayInv', UNCHANGED stored, RequestsKept({}), OffersKept({})
    PROVE  UNCHANGED Relay!vars
<1>1. Requests' = Requests /\ Offers' = Offers
  BY RequestsSame, OffersSame
<1> QED
  BY <1>1 DEF Relay!vars, Requests, Offers

\* A request of a message begins, is rolled back, or is committed.
LEMMA RelayOpens ==
    ASSUME RelayInv, RelayInv', NEW m \in Message, UNCHANGED stored,
           RequestsKept({m}), OffersKept({}), RequestOf(m) = "new", RequestOf(m)' = "open"
    PROVE  Relay!Open(m)
<1>1. Requests' = [Requests EXCEPT ![m] = "open"] /\ Offers' = Offers
  BY RequestsBut, OffersSame
<1> QED
  BY <1>1 DEF Relay!Open, Requests, Offers

LEMMA RelayUndoes ==
    ASSUME RelayInv, RelayInv', NEW m \in Message, UNCHANGED stored,
           RequestsKept({m}), OffersKept({}), RequestOf(m) = "open", RequestOf(m)' = "undone"
    PROVE  Relay!Undo(m)
<1>1. Requests' = [Requests EXCEPT ![m] = "undone"] /\ Offers' = Offers
  BY RequestsBut, OffersSame
<1> QED
  BY <1>1 DEF Relay!Undo, Requests, Offers

LEMMA RelayKeeps ==
    ASSUME RelayInv, RelayInv', NEW m \in Message, NEW r \in Server,
           stored' = [stored EXCEPT ![r][m] = 1],
           RequestsKept({m}), OffersKept({}), RequestOf(m) = "open", RequestOf(m)' = "kept",
           OfferOf(r, m) = "none"
    PROVE  Relay!Keep(r, m)
<1>1. Requests' = [Requests EXCEPT ![m] = "kept"] /\ Offers' = Offers
  BY RequestsBut, OffersSame
<1> QED
  BY <1>1 DEF Relay!Keep, Requests, Offers

\* An offer of a message begins, and ends.
LEMMA RelayOffers ==
    ASSUME RelayInv, RelayInv', NEW m \in Message, NEW r \in Server, UNCHANGED stored,
           RequestsKept({}), OffersKept({<<r, m>>}), RequestOf(m) = "open",
           OfferOf(r, m) = "none", OfferOf(r, m)' = "sent"
    PROVE  Relay!Offer(r, m)
<1>1. Requests' = Requests /\ Offers' = [Offers EXCEPT ![r][m] = "sent"]
  BY RequestsSame, OffersBut
<1> QED
  BY <1>1 DEF Relay!Offer, Requests, Offers

LEMMA RelayLoses ==
    ASSUME RelayInv, RelayInv', NEW m \in Message, NEW r \in Server, UNCHANGED stored,
           RequestsKept({}), OffersKept({<<r, m>>}),
           OfferOf(r, m) = "sent", OfferOf(r, m)' = "lost"
    PROVE  Relay!Lose(r, m)
<1>1. Requests' = Requests /\ Offers' = [Offers EXCEPT ![r][m] = "lost"]
  BY RequestsSame, OffersBut
<1> QED
  BY <1>1 DEF Relay!Lose, Requests, Offers

LEMMA RelayStores ==
    ASSUME RelayInv, RelayInv', NEW m \in Message, NEW r \in Server,
           stored' = [stored EXCEPT ![r][m] = 1],
           RequestsKept({}), OffersKept({<<r, m>>}),
           OfferOf(r, m) = "sent", OfferOf(r, m)' = "stored"
    PROVE  Relay!Store(r, m)
<1>1. Requests' = Requests /\ Offers' = [Offers EXCEPT ![r][m] = "stored"]
  BY RequestsSame, OffersBut
<1> QED
  BY <1>1 DEF Relay!Store, Requests, Offers

LEMMA RelayUser ==
    ASSUME RelayInv, RelayInv', NEW u \in User,
           LocalUser(u) \/ \E s \in Server : Lookup(s, u)
    PROVE  [Relay!Next]_(Relay!vars)
<1>1. CASE Join(u) \/ Leave(u) \/ \E s \in Server : Lookup(s, u)
  <2>1. UNCHANGED <<stored, calls, wire, inbox, failed, undone>>
    BY <1>1 DEF Join, Leave, Lookup, history
  <2>2. RequestsKept({}) /\ OffersKept({})
    BY <2>1, RequestsStay, OffersStay, SameSent
  <2> QED
    BY <2>1, <2>2, RelayStutters
<1>2. CASE (\E v \in User : Invite(u, v)) \/ SendMessage(u) \/ DistributeKey(u)
  <2>1. PICK kind \in Kind, v \in User, servers \in SUBSET Server :
            /\ Begin(kind, u, v, servers)
            /\ kind = "invite" => Home[v] # Home[u]
            /\ kind # "invite" => u = v
    BY <1>2, BeginsAre DEF RelayInv
  <2>2. UNCHANGED <<stored, wire, inbox, failed, undone>>
    BY <2>1 DEF Begin, database
  <2>3. /\ IssuedTyped'
        /\ \E c : /\ Begun(c, kind, u, v, servers)
                  /\ EventOK(c.event)'
                  /\ calls' = calls \cup {c}
    BY <2>1, BeginIs DEF RelayInv
  <2>4. PICK c : /\ Begun(c, kind, u, v, servers)
                 /\ EventOK(c.event)'
                 /\ calls' = calls \cup {c}
    BY <2>3
  <2>5. OffersKept({})
    BY <2>2, OffersStay, SameSent
  <2>6. CASE ~ Tells(c.event)
    BY <2>2, <2>4, <2>5, <2>6, RequestsStay, RelayStutters
  <2>7. CASE Tells(c.event)
    <3>1. PICK m : m = MessageOf(c.event)
      OBVIOUS
    <3>2. m \in Message /\ \A s \in Server : stored[s][m] = 0
      BY <2>3, <2>4, <2>7, <3>1, NewMessage DEF RelayInv
    <3>3. ~ Opened(m)
      <4>1. \A d \in calls : ~ Same(d.event, c.event)
        BY <2>4, NewEvent DEF RelayInv
      <4> QED
        BY <2>7, <3>1, <4>1 DEF Opened, MessageOf, Tells, Same
    <3>4. ~ RolledBackAt(m)
      <4>1. \A e \in undone : ~ Same(e, c.event)
        BY <2>4, NewEvent DEF RelayInv
      <4> QED
        BY <2>7, <3>1, <4>1 DEF RolledBackAt, MessageOf, Tells, Same
    <3>5. RequestOf(m) = "new"
      BY <3>2, <3>3, <3>4, BothRead DEF RequestReads
    <3>6. Opened(m)'
      BY <2>4, <2>7, <3>1 DEF Opened
    <3>7. RequestOf(m)' = "open"
      BY <3>2, <3>6, BothRead DEF RequestReads
    <3>8. RequestsKept({m})
      <4> SUFFICES ASSUME NEW n \in Message, n # m
                   PROVE  /\ Opened(n)' <=> Opened(n)
                          /\ RolledBackAt(n)' <=> RolledBackAt(n)
        BY <2>2 DEF RequestsKept
      <4>1. Opened(n)' <=> Opened(n)
        BY <2>4, <3>1 DEF Opened
      <4>2. RolledBackAt(n)' <=> RolledBackAt(n)
        BY <2>2 DEF RolledBackAt
      <4> QED
        BY <4>1, <4>2
    <3>9. Relay!Open(m)
      BY <2>2, <2>5, <3>2, <3>5, <3>7, <3>8, RelayOpens
    <3> QED
      BY <3>2, <3>9 DEF Relay!Next
  <2> QED
    BY <2>6, <2>7
<1> QED
  BY <1>1, <1>2 DEF LocalUser

LEMMA MessageOpen ==
    ASSUME RelayInv, RelayInv', NEW c \in calls, Tells(c.event), NEW m, m = MessageOf(c.event)
    PROVE  /\ m \in Message /\ EventOK(c.event) /\ c.event.from \in Server
           /\ c.event.from = Home[m[1]]
           /\ RequestOf(m) = "open" /\ Opened(m) /\ ~ RolledBackAt(m)
           /\ \A d \in calls : Tells(d.event) /\ MessageOf(d.event) = m => d = c
<1>1. EventOK(c.event)
  BY EventsOf DEF RelayInv
<1>2. c.event.from \in Server /\ c.event.from = Home[m[1]] /\ m \in Message
  BY <1>1, EventIs, HomeOf, MessageIs DEF RelayInv, TypeInv, Tells
<1>3. Opened(m)
  BY DEF Opened
<1>4. RequestOf(m) = "open" /\ ~ RolledBackAt(m)
  BY <1>2, <1>3, BothRead DEF RequestReads
<1>5. ASSUME NEW d \in calls, Tells(d.event), MessageOf(d.event) = m
      PROVE  d = c
  <2>1. d.event = c.event
    BY <1>1, <1>5, EventsOf, SameMessage DEF RelayInv
  <2> QED
    BY <2>1 DEF RelayInv, PostsInv, OneCall, Same
<1> QED
  BY <1>1, <1>2, <1>3, <1>4, <1>5

\* The request of a message is over: no request of the message is open.
LEMMA MessageCloses ==
    ASSUME RelayInv, RelayInv', NEW c \in calls, Tells(c.event), NEW m,
           m = MessageOf(c.event), calls' = calls \ {c}
    PROVE  /\ ~ Opened(m)'
           /\ \A n \in Message \ {m} : Opened(n)' <=> Opened(n)
<1>1. \A d \in calls : Tells(d.event) /\ MessageOf(d.event) = m => d = c
  BY MessageOpen
<1> QED
  BY <1>1 DEF Opened

LEMMA RelayPost ==
    ASSUME RelayInv, RelayInv', NEW c \in calls, NEW s \in Server, PostEvent(c, s)
    PROVE  [Relay!Next]_(Relay!vars)
<1>1. /\ s \in c.todo /\ UNCHANGED <<database, history>>
      /\ \E d : Moved(c, d, c.todo \ {s}, s)
      /\ \E q \in Post : /\ q = [event |-> c.event, to |-> s]
                         /\ q.event = c.event /\ q.to = s
                         /\ wire' = wire \cup {q}
  BY PostEventIs DEF RelayInv
<1>2. PICK d : d.event = c.event /\ calls' = (calls \ {c}) \cup {d}
  BY <1>1 DEF Moved
<1>3. PICK q \in Post : /\ q = [event |-> c.event, to |-> s]
                        /\ q.event = c.event /\ q.to = s
                        /\ wire' = wire \cup {q}
  BY <1>1
<1>4. /\ q \notin Sent
      /\ s # c.event.from
      /\ InFlight' = InFlight \cup {q}
      /\ Sent' = Sent \cup {q}
  BY <1>3, NewPost DEF RelayInv
<1>5. UNCHANGED <<stored, undone, failed>>
  BY <1>1 DEF database, history
<1>6. RequestsKept({})
  BY <1>2, <1>5, RequestsStay
<1>7. CASE ~ Tells(c.event)
  <2>1. OffersKept({})
    BY <1>3, <1>4, <1>5, <1>7, OffersStay
  <2> QED
    BY <1>5, <1>6, <2>1, RelayStutters
<1>8. CASE Tells(c.event)
  <2>1. PICK m : m = MessageOf(c.event)
    OBVIOUS
  <2>2. m \in Message /\ EventOK(c.event) /\ c.event.from = Home[m[1]] /\ RequestOf(m) = "open"
    BY <1>8, <2>1, MessageOpen
  <2>3. \A p \in Sent : ~ Concerns(p, s, m)
    <3> SUFFICES ASSUME NEW p \in Sent, Concerns(p, s, m)
                 PROVE  FALSE
      OBVIOUS
    <3>1. p \in Post /\ EventOK(p.event) /\ p.to = s /\ Tells(p.event)
          /\ MessageOf(p.event) = MessageOf(c.event)
      BY <2>1, EventsOf DEF RelayInv, Concerns, Tells
    <3>2. p.event = c.event
      BY <1>8, <2>2, <3>1, SameMessage
    <3> QED
      BY <1>3, <1>4, <3>1, <3>2, SamePost
  <2>4. OfferOf(s, m) = "none"
    <3>1. ~ SentTo(s, m) /\ ~ LostAt(s, m)
      BY <2>3 DEF SentTo, LostAt, Sent
    <3>2. stored[s][m] = 0
      BY <1>1, <1>8, <2>1 DEF RelayInv, StoredInv, CallStores
    <3> QED
      BY <1>4, <2>2, <3>1, <3>2, BothRead DEF OfferReads
  <2>5. OfferOf(s, m)' = "sent"
    <3>1. SentTo(s, m)'
      BY <1>3, <1>4, <1>8, <2>1 DEF SentTo, Concerns, Tells
    <3> QED
      BY <2>2, <3>1, BothRead DEF OfferReads
  <2>6. OffersKept({<<s, m>>})
    <3> SUFFICES ASSUME NEW r \in Server, NEW n \in Message, r # s \/ n # m
                 PROVE  /\ SentTo(r, n)' <=> SentTo(r, n)
                        /\ LostAt(r, n)' <=> LostAt(r, n)
      BY <1>5 DEF OffersKept
    <3>1. ~ Concerns(q, r, n)
      BY <1>3, <2>1 DEF Concerns
    <3>2. SentTo(r, n)' <=> SentTo(r, n)
      BY <1>4, <3>1 DEF SentTo
    <3>3. LostAt(r, n)' <=> LostAt(r, n)
      BY <1>5 DEF LostAt
    <3> QED
      BY <3>2, <3>3
  <2>7. Relay!Offer(s, m)
    BY <1>5, <1>6, <2>2, <2>4, <2>5, <2>6, RelayOffers
  <2> QED
    BY <2>2, <2>7 DEF Relay!Next
<1> QED
  BY <1>7, <1>8

LEMMA RelayCommit ==
    ASSUME RelayInv, RelayInv', NEW c \in calls, Commit(c)
    PROVE  [Relay!Next]_(Relay!vars)
<1>1. /\ UNCHANGED <<wire, inbox, failed, undone>>
      /\ calls' = calls \ {c}
  BY DEF Commit, history
<1>2. CASE ~ Tells(c.event)
  <2>1. UNCHANGED stored
    BY <1>2 DEF Commit, Tells
  <2>2. RequestsKept({}) /\ OffersKept({})
    BY <1>1, <1>2, <2>1, RequestsStay, OffersStay, SameSent
  <2> QED
    BY <2>1, <2>2, RelayStutters
<1>3. CASE Tells(c.event)
  <2>1. PICK m : m = MessageOf(c.event)
    OBVIOUS
  <2>2. PICK r : r = c.event.from
    OBVIOUS
  <2>3. /\ m \in Message /\ r \in Server /\ r = Home[m[1]]
        /\ RequestOf(m) = "open" /\ Opened(m) /\ ~ RolledBackAt(m)
    BY <1>3, <2>1, <2>2, MessageOpen
  <2>4. /\ ~ Opened(m)'
        /\ \A n \in Message \ {m} : Opened(n)' <=> Opened(n)
    BY <1>1, <1>3, <2>1, MessageCloses
  <2>5. stored[r][m] = 0 /\ OfferOf(r, m) = "none"
    BY <2>3, BothRead DEF RequestReads, OfferReads
  <2>6. stored' = [stored EXCEPT ![r][m] = 1]
    <3>1. stored' = [stored EXCEPT ![r][m] = @ + 1]
      BY <1>3, <2>1, <2>2 DEF Commit, Tells
    <3> QED
      BY <2>5, <3>1
  <2>7. stored'[r][m] = 1 /\ \A s \in Server, n \in Message :
            s # r \/ n # m => stored'[s][n] = stored[s][n]
    BY <2>3, <2>6 DEF RelayInv, TypeInv, StoresTyped
  <2>8. \A n \in Message : RolledBackAt(n)' <=> RolledBackAt(n)
    BY <1>1 DEF RolledBackAt
  <2>9. RequestOf(m)' = "kept"
    BY <2>3, <2>4, <2>7, <2>8, BothRead DEF RequestReads
  <2>10. RequestsKept({m})
    <3>1. \A n \in Message : Home[n[1]] \in Server
      BY BothRead DEF RequestReads
    <3> QED
      BY <2>4, <2>7, <2>8, <3>1 DEF RequestsKept
  <2>11. OffersKept({})
    <3>1. InFlight' = InFlight /\ UNCHANGED failed
      BY <1>1, SameSent
    <3>2. \A s \in Server, n \in Message :
              (SentTo(s, n)' <=> SentTo(s, n)) /\ (LostAt(s, n)' <=> LostAt(s, n))
      BY <3>1 DEF SentTo, LostAt
    <3> QED
      BY <2>3, <2>7, <3>2 DEF OffersKept
  <2>12. Relay!Keep(r, m)
    BY <2>3, <2>5, <2>6, <2>9, <2>10, <2>11, RelayKeeps
  <2> QED
    BY <2>3, <2>12 DEF Relay!Next
<1> QED
  BY <1>2, <1>3

LEMMA RelayRollBack ==
    ASSUME RelayInv, RelayInv', NEW c \in calls, InviteUnpublished(c) \/ CallFails(c)
    PROVE  [Relay!Next]_(Relay!vars)
<1>1. /\ UNCHANGED <<database, wire, inbox, failed>>
      /\ calls' = calls \ {c} /\ undone' = undone \cup {c.event}
  BY RolledBack
<1>2. OffersKept({}) /\ UNCHANGED stored
  BY <1>1, OffersStay, SameSent DEF database
<1>3. CASE ~ Tells(c.event)
  <2>1. RequestsKept({})
    BY <1>1, <1>2, <1>3, RequestsStay
  <2> QED
    BY <1>2, <2>1, RelayStutters
<1>4. CASE Tells(c.event)
  <2>1. PICK m : m = MessageOf(c.event)
    OBVIOUS
  <2>2. m \in Message /\ RequestOf(m) = "open"
    BY <1>4, <2>1, MessageOpen
  <2>3. \A n \in Message \ {m} : Opened(n)' <=> Opened(n)
    BY <1>1, <1>4, <2>1, MessageCloses
  <2>4. RolledBackAt(m)' /\ \A n \in Message \ {m} : RolledBackAt(n)' <=> RolledBackAt(n)
    BY <1>1, <1>4, <2>1 DEF RolledBackAt
  <2>5. RequestOf(m)' = "undone"
    BY <2>2, <2>4, BothRead DEF RequestReads
  <2>6. RequestsKept({m})
    BY <1>2, <2>3, <2>4 DEF RequestsKept
  <2>7. Relay!Undo(m)
    BY <1>2, <2>2, <2>5, <2>6, RelayUndoes
  <2> QED
    BY <2>2, <2>7 DEF Relay!Next
<1> QED
  BY <1>3, <1>4

LEMMA RelayRequest ==
    ASSUME RelayInv, RelayInv', NEW c \in calls, Request(c)
    PROVE  [Relay!Next]_(Relay!vars)
<1>1. CASE Answered(c) \/ TimesOut(c)
  <2>1. /\ UNCHANGED <<database, wire, inbox, history>>
        /\ \E d : Moved(c, d, c.todo, None)
    BY <1>1, WaitEnds DEF RelayInv
  <2>2. PICK d : d.event = c.event /\ calls' = (calls \ {c}) \cup {d}
    BY <2>1 DEF Moved
  <2>3. UNCHANGED <<stored, undone, failed>>
    BY <2>1 DEF database, history
  <2>4. RequestsKept({})
    BY <2>2, <2>3, RequestsStay
  <2>5. OffersKept({})
    BY <2>1, <2>3, OffersStay, SameSent
  <2> QED
    BY <2>3, <2>4, <2>5, RelayStutters
<1> QED
  BY <1>1, RelayPost, RelayCommit, RelayRollBack DEF Request

\* The POST p of a message is over, and its message is not stored.
LEMMA RelayFails ==
    ASSUME RelayInv, RelayInv', NEW p \in InFlight, UNCHANGED <<stored, calls, undone>>,
           InFlight' = InFlight \ {p}, failed' = failed \cup {p}
    PROVE  [Relay!Next]_(Relay!vars)
<1>1. RequestsKept({})
  BY RequestsStay
<1>2. CASE ~ Tells(p.event)
  <2>1. OffersKept({})
    BY <1>2, OffersStay
  <2> QED
    BY <1>1, <2>1, RelayStutters
<1>3. CASE Tells(p.event)
  <2>1. PICK m : m = MessageOf(p.event)
    OBVIOUS
  <2>2. PICK r : r = p.to
    OBVIOUS
  <2>3. m \in Message /\ r \in Server
    <3>1. p \in Post /\ EventOK(p.event)
      BY EventsOf DEF RelayInv, Sent
    <3> QED
      BY <1>3, <2>1, <2>2, <3>1, MessageIs DEF Post, RelayInv, TypeInv, Tells
  <2>4. Concerns(p, r, m) /\ \A s, n : s # r \/ n # m => ~ Concerns(p, s, n)
    BY <1>3, <2>1, <2>2 DEF Concerns, Tells
  <2>5. OfferOf(r, m) = "sent" /\ OfferOf(r, m)' = "lost"
    <3>1. SentTo(r, m) /\ LostAt(r, m)'
      BY <2>4 DEF SentTo, LostAt
    <3> QED
      BY <2>3, <3>1, BothRead DEF OfferReads
  <2>6. OffersKept({<<r, m>>})
    <3> SUFFICES ASSUME NEW s \in Server, NEW n \in Message, s # r \/ n # m
                 PROVE  /\ SentTo(s, n)' <=> SentTo(s, n)
                        /\ LostAt(s, n)' <=> LostAt(s, n)
      BY DEF OffersKept
    <3>1. SentTo(s, n)' <=> SentTo(s, n)
      BY <2>4 DEF SentTo
    <3>2. LostAt(s, n)' <=> LostAt(s, n)
      BY <2>4 DEF LostAt
    <3> QED
      BY <3>1, <3>2
  <2>7. Relay!Lose(r, m)
    BY <1>1, <2>3, <2>5, <2>6, RelayLoses
  <2> QED
    BY <2>3, <2>7 DEF Relay!Next
<1> QED
  BY <1>2, <1>3

LEMMA RelayArrival ==
    ASSUME RelayInv, RelayInv', NEW p \in wire, Arrival(p)
    PROVE  [Relay!Next]_(Relay!vars)
<1>1. UNCHANGED <<stored, calls, undone>>
  BY ArrivalIs DEF database
<1>2. \/ InFlight' = InFlight \ {p} /\ failed' = failed \cup {p}
      \/ InFlight' = InFlight /\ UNCHANGED failed
  BY SentArrival DEF RelayInv
<1>3. CASE InFlight' = InFlight \ {p} /\ failed' = failed \cup {p}
  <2>1. p \in InFlight
    BY DEF InFlight
  <2> QED
    BY <1>1, <1>3, <2>1, RelayFails
<1>4. CASE InFlight' = InFlight /\ UNCHANGED failed
  <2>1. RequestsKept({}) /\ OffersKept({})
    BY <1>1, <1>4, RequestsStay, OffersStay
  <2> QED
    BY <1>1, <2>1, RelayStutters
<1> QED
  BY <1>2, <1>3, <1>4

LEMMA RelayHandler ==
    ASSUME RelayInv, RelayInv', NEW h \in inbox, Handled(h) \/ Refused(h)
    PROVE  [Relay!Next]_(Relay!vars)
<1>1. /\ UNCHANGED <<calls, undone>>
      /\ InFlight' = InFlight \ {h.post}
      /\ \/ Handled(h) /\ h.applies /\ failed' = failed
         \/ ~ (Handled(h) /\ h.applies) /\ failed' = failed \cup {h.post}
  BY SentHandler DEF RelayInv
<1>2. h.post \in InFlight
  BY DEF InFlight
<1>3. CASE ~ (Handled(h) /\ h.applies)
  <2>1. UNCHANGED stored
    BY <1>3 DEF Handled, Refused, database
  <2> QED
    BY <1>1, <1>2, <1>3, <2>1, RelayFails
<1>4. CASE Handled(h) /\ h.applies /\ ~ Tells(h.post.event)
  <2>1. UNCHANGED <<stored, failed>>
    BY <1>1, <1>4 DEF Handled, Tells
  <2>2. RequestsKept({}) /\ OffersKept({})
    BY <1>1, <1>4, <2>1, RequestsStay, OffersStay
  <2> QED
    BY <2>1, <2>2, RelayStutters
<1>5. CASE Handled(h) /\ h.applies /\ Tells(h.post.event)
  <2>1. PICK m : m = MessageOf(h.post.event)
    OBVIOUS
  <2>2. PICK r : r = h.post.to
    OBVIOUS
  <2>3. m \in Message /\ r \in Server
    BY <1>5, <2>1, <2>2, HandlerIs, MessageIs DEF RelayInv, TypeInv, Tells
  <2>4. Concerns(h.post, r, m) /\ \A s, n : s # r \/ n # m => ~ Concerns(h.post, s, n)
    BY <1>5, <2>1, <2>2 DEF Concerns, Tells
  <2>5. OfferOf(r, m) = "sent" /\ stored[r][m] = 0 /\ Home[m[1]] # r
    <3>1. SentTo(r, m)
      BY <1>2, <2>4 DEF SentTo
    <3> QED
      BY <2>3, <3>1, BothRead DEF OfferReads
  <2>6. stored' = [stored EXCEPT ![r][m] = 1]
    <3>1. stored' = [stored EXCEPT ![r][m] = @ + 1]
      BY <1>5, <2>1, <2>2 DEF Handled, Tells
    <3> QED
      BY <2>5, <3>1
  <2>7. stored'[r][m] = 1 /\ \A s \in Server, n \in Message :
            s # r \/ n # m => stored'[s][n] = stored[s][n]
    BY <2>3, <2>6 DEF RelayInv, TypeInv, StoresTyped
  <2>8. OfferOf(r, m)' = "stored"
    BY <2>3, <2>5, <2>7, BothRead DEF OfferReads
  <2>9. UNCHANGED failed
    BY <1>1, <1>5
  <2>10. RequestsKept({})
    <3>1. \A n \in Message : /\ Opened(n)' <=> Opened(n)
                             /\ RolledBackAt(n)' <=> RolledBackAt(n)
      BY <1>1 DEF Opened, RolledBackAt
    <3>2. \A n \in Message : Home[n[1]] \in Server
      BY BothRead DEF RequestReads
    <3> QED
      BY <2>5, <2>7, <3>1, <3>2 DEF RequestsKept
  <2>11. OffersKept({<<r, m>>})
    <3> SUFFICES ASSUME NEW s \in Server, NEW n \in Message, s # r \/ n # m
                 PROVE  /\ SentTo(s, n)' <=> SentTo(s, n)
                        /\ LostAt(s, n)' <=> LostAt(s, n)
      BY <2>7 DEF OffersKept
    <3>1. SentTo(s, n)' <=> SentTo(s, n)
      BY <1>1, <2>4 DEF SentTo
    <3>2. LostAt(s, n)' <=> LostAt(s, n)
      BY <2>9 DEF LostAt
    <3> QED
      BY <3>1, <3>2
  <2>12. Relay!Store(r, m)
    BY <2>3, <2>5, <2>6, <2>8, <2>10, <2>11, RelayStores
  <2> QED
    BY <2>3, <2>12 DEF Relay!Next
<1> QED
  BY <1>3, <1>4, <1>5

LEMMA RelayStep == RelayInv /\ RelayInv' /\ [Next]_vars => [Relay!Next]_(Relay!vars)
<1> SUFFICES ASSUME RelayInv, RelayInv', [Next]_vars
             PROVE  [Relay!Next]_(Relay!vars)
  OBVIOUS
<1>1. CASE RedisStep \/ UNCHANGED vars
  <2>1. UNCHANGED <<stored, calls, wire, inbox, failed, undone>>
    BY <1>1, RedisStepIs DEF vars, history, database
  <2>2. RequestsKept({}) /\ OffersKept({})
    BY <2>1, RequestsStay, OffersStay, SameSent
  <2> QED
    BY <2>1, <2>2, RelayStutters
<1>2. ASSUME NEW u \in User, LocalUser(u) \/ \E s \in Server : Lookup(s, u)
      PROVE  [Relay!Next]_(Relay!vars)
  BY <1>2, RelayUser
<1>3. ASSUME NEW c \in calls, Request(c)
      PROVE  [Relay!Next]_(Relay!vars)
  BY <1>3, RelayRequest
<1>4. ASSUME NEW p \in wire, Arrival(p)
      PROVE  [Relay!Next]_(Relay!vars)
  BY <1>4, RelayArrival
<1>5. ASSUME NEW h \in inbox, Handled(h) \/ Refused(h)
      PROVE  [Relay!Next]_(Relay!vars)
  BY <1>5, RelayHandler
<1> QED
  BY <1>1, <1>2, <1>3, <1>4, <1>5 DEF Next, RedisStep

LEMMA RelayStarts == Init => Relay!Init
<1> SUFFICES ASSUME Init
             PROVE  Relay!Init
  OBVIOUS
<1>1. RelayInv
  BY TypesInit, PostsInit, StoredInit DEF RelayInv
<1>2. RequestReads /\ OfferReads
  BY <1>1, RequestIs, OfferIs
<1>3. \A m \in Message : ~ Opened(m) /\ ~ RolledBackAt(m)
  BY DEF Init, Opened, RolledBackAt
<1>4. \A s \in Server, m \in Message : ~ SentTo(s, m) /\ ~ LostAt(s, m)
  BY DEF Init, SentTo, LostAt, InFlight
<1>5. \A s \in Server, m \in Message : stored[s][m] = 0
  BY DEF Init
<1>6. \A m \in Message : RequestOf(m) = "new"
  BY <1>2, <1>3, <1>5 DEF RequestReads
<1>7. \A s \in Server, m \in Message : OfferOf(s, m) = "none"
  BY <1>2, <1>4, <1>5 DEF OfferReads
<1>8. stored = [s \in Server |-> [m \in Message |-> 0]]
  BY DEF Init
<1> QED
  BY <1>6, <1>7, <1>8 DEF Relay!Init

\* The requests and inboxes of federated servers implement FederatedRelay: with
\* timeouts, lost POSTs, outages of Redis and rollbacks on either side, a message is
\* offered to a server at most once, only while its sender's request is open, and no
\* server ever stores two copies of it.
THEOREM FederationImplementsRelay == Spec => RelayedAtMostOnce
<1>1. RelayInv /\ RelayInv' /\ [Next]_vars => [Relay!Next]_(Relay!vars)
  BY RelayStep
<1> QED
  BY <1>1, RelayInvHolds, RelayStarts, PTL DEF Spec, RelayedAtMostOnce, Relay!Spec

-----------------------------------------------------------------------------
(***************************************************************************)
(* Keys are handled in the order they were uploaded, as long as Redis is   *)
(* asked.                                                                  *)
(***************************************************************************)

Rekeys(e) == e.kind = "key"

Bypassed == \E i \in unchecked : i[1] = "key"

KeysIssued == \A s \in Server, u \in User : keys[s][u] <= issued["key"][u]

LastKey ==
    \A c \in calls : Rekeys(c.event) => c.event.number = issued["key"][c.event.user]

KeysSeen ==
    \A h \in inbox : Rekeys(h.post.event) =>
        /\ Id(h.post.event) \in seen[h.post.to]
        /\ \A g \in inbox :
              /\ Rekeys(g.post.event) /\ g.post.to = h.post.to
              /\ g.post.event.user = h.post.event.user
              => g = h

Late(p) == Rekeys(p.event) /\ p.event.number < keys[p.to][p.event.user]

LateKeySeen == \A p \in InFlight : Late(p) => p \in wire /\ Id(p.event) \in seen[p.to]

KeysInv ==
    /\ KeysIssued
    /\ LastKey
    /\ ~ Bypassed => KeysSeen /\ LateKeySeen

\* The ids of a device's keys are the same, and come from its home server.
LEMMA KeyIds ==
    ASSUME NEW e, EventOK(e), Rekeys(e)
    PROVE  /\ Id(e) = <<"key", Home[e.user], e.user, 0>>
           /\ e.from = Home[e.user]
BY DEF EventOK, Rekeys, Id

\* No key is stored, no POST is sent or admitted, and no id forgotten.
LEMMA KeysKept ==
    ASSUME TypeInv, KeysInv, UNCHANGED <<keys, issued>>,
           \A c \in calls' : \E d \in calls : c.event = d.event,
           unchecked \subseteq unchecked', inbox' \subseteq inbox,
           InFlight' \subseteq InFlight,
           \A p \in InFlight' : p \in wire => p \in wire',
           \A p \in InFlight' : Id(p.event) \in seen[p.to] => Id(p.event) \in seen'[p.to]
    PROVE  KeysInv'
<1>1. KeysIssued' /\ LastKey'
  BY DEF KeysInv, KeysIssued, LastKey
<1>2. Bypassed => Bypassed'
  BY DEF Bypassed
<1>3. \A h \in inbox' : h.post \in InFlight'
  BY DEF InFlight
<1>4. KeysSeen => KeysSeen'
  BY <1>3 DEF KeysSeen
<1>5. LateKeySeen => LateKeySeen'
  BY DEF LateKeySeen, Late
<1> QED
  BY <1>1, <1>2, <1>4, <1>5 DEF KeysInv

LEMMA KeysUser ==
    ASSUME TypeInv, KeysInv, NEW u \in User,
           LocalUser(u) \/ \E s \in Server : Lookup(s, u)
    PROVE  KeysInv'
<1>1. CASE Join(u) \/ Leave(u) \/ \E s \in Server : Lookup(s, u)
  <2>1. UNCHANGED <<keys, issued, calls, unchecked, wire, inbox, failed, seen>>
    BY <1>1 DEF Join, Leave, Lookup, history, cache
  <2>2. InFlight' = InFlight
    BY <2>1, SameSent
  <2> QED
    BY <2>1, <2>2, KeysKept
<1>2. CASE (\E v \in User : Invite(u, v)) \/ SendMessage(u) \/ DistributeKey(u)
  <2>1. PICK kind \in Kind, v \in User, servers \in SUBSET Server :
            /\ Begin(kind, u, v, servers)
            /\ kind = "invite" => Home[v] # Home[u]
            /\ kind # "invite" => u = v
            /\ kind = "key" => ~ Pending(kind, Home[u], u)
    BY <1>2, BeginsAre
  <2>2. UNCHANGED <<keys, wire, inbox, failed, seen, unchecked>>
    BY <2>1 DEF Begin, database, cache
  <2>3. /\ IssuedGrows
        /\ issued'[kind][v] = issued[kind][v] + 1
        /\ \A k \in Kind, w \in User : k # kind \/ w # v => issued'[k][w] = issued[k][w]
        /\ \E c : /\ Begun(c, kind, u, v, servers)
                  /\ EventOK(c.event)'
                  /\ calls' = calls \cup {c}
    BY <2>1, BeginIs
  <2>4. PICK c : Begun(c, kind, u, v, servers) /\ calls' = calls \cup {c}
    BY <2>3
  <2>5. KeysIssued'
    <3> SUFFICES ASSUME NEW s \in Server, NEW w \in User
                 PROVE  keys[s][w] <= issued'["key"][w]
      BY <2>2 DEF KeysIssued
    <3>1. keys[s][w] \in Nat /\ issued["key"][w] \in Nat /\ "key" \in Kind
      BY DEF TypeInv, StoresTyped, IssuedTyped, Kind
    <3>2. keys[s][w] <= issued["key"][w]
      BY DEF KeysInv, KeysIssued
    <3>3. issued'["key"][w] = issued["key"][w] \/ issued'["key"][w] = issued["key"][w] + 1
      BY <2>3, <3>1
    <3> QED
      BY <3>1, <3>2, <3>3
  <2>6. LastKey'
    <3> SUFFICES ASSUME NEW d \in calls', Rekeys(d.event)
                 PROVE  d.event.number = issued'["key"][d.event.user]
      BY DEF LastKey
    <3>1. CASE d = c
      BY <2>3, <2>4, <3>1 DEF Begun, Rekeys
    <3>2. CASE d \in calls
      <4>1. /\ d.event.user \in User /\ d.event.from = Home[d.event.user]
            /\ d.event.number = issued["key"][d.event.user] /\ "key" \in Kind
        <5>1. EventOK(d.event)
          BY <3>2, EventsOf
        <5> QED
          BY <3>2, <5>1, EventIs, KeyIds DEF KeysInv, LastKey, TypeInv, Kind
      <4>2. kind # "key" \/ d.event.user # v
        BY <2>1, <3>2, <4>1 DEF Pending, Rekeys
      <4> QED
        BY <2>3, <4>1, <4>2
    <3> QED
      BY <2>4, <3>1, <3>2
  <2>7. InFlight' = InFlight
    BY <2>2, SameSent
  <2>8. KeysSeen => KeysSeen'
    BY <2>2 DEF KeysSeen
  <2>9. LateKeySeen => LateKeySeen'
    BY <2>2, <2>7 DEF LateKeySeen, Late
  <2> QED
    BY <2>2, <2>5, <2>6, <2>8, <2>9 DEF KeysInv, Bypassed
<1> QED
  BY <1>1, <1>2 DEF LocalUser

LEMMA KeysPost ==
    ASSUME TypeInv, PostsInv, KeysInv, NEW c \in calls, NEW s \in Server, PostEvent(c, s)
    PROVE  KeysInv'
<1>1. /\ UNCHANGED <<database, cache, inbox, history>>
      /\ \E d : Moved(c, d, c.todo \ {s}, s)
      /\ \E q \in Post : /\ q = [event |-> c.event, to |-> s]
                         /\ q.event = c.event /\ q.to = s
                         /\ wire' = wire \cup {q}
  BY PostEventIs
<1>2. PICK d : d.event = c.event /\ calls' = (calls \ {c}) \cup {d}
  BY <1>1 DEF Moved
<1>3. PICK q \in Post : /\ q = [event |-> c.event, to |-> s]
                        /\ q.event = c.event /\ q.to = s
                        /\ wire' = wire \cup {q}
  BY <1>1
<1>4. UNCHANGED <<keys, issued, seen, unchecked>> /\ InFlight' = InFlight \cup {q}
  BY <1>1, <1>3, NewPost DEF database, cache, history
<1>5. KeysIssued' /\ LastKey'
  BY <1>2, <1>4 DEF KeysInv, KeysIssued, LastKey
<1>6. ~ Late(q)
  <2> SUFFICES ASSUME Rekeys(q.event)
               PROVE  ~ (q.event.number < keys[q.to][q.event.user])
    BY DEF Late
  <2>1. q.event.user \in User /\ q.event.number \in Nat
    BY <1>3, EventsOf, EventIs DEF TypeInv
  <2>2. q.event.number = issued["key"][q.event.user]
    BY <1>3 DEF KeysInv, LastKey
  <2>3. keys[s][q.event.user] \in Nat /\ keys[s][q.event.user] <= issued["key"][q.event.user]
    BY <2>1 DEF KeysInv, KeysIssued, TypeInv, StoresTyped
  <2> QED
    BY <1>3, <2>1, <2>2, <2>3
<1>7. KeysSeen => KeysSeen'
  BY <1>1, <1>4 DEF KeysSeen
<1>8. LateKeySeen => LateKeySeen'
  BY <1>3, <1>4, <1>6 DEF LateKeySeen, Late
<1> QED
  BY <1>4, <1>5, <1>7, <1>8 DEF KeysInv, Bypassed

\* What a key that is stored does to what is on its way: s has a new key of u.
LEMMA KeyStored ==
    ASSUME TypeInv, KeysInv, NEW s \in Server, NEW u \in User, NEW n \in Nat,
           keys' = [keys EXCEPT ![s][u] = n], n <= issued["key"][u],
           UNCHANGED <<issued, wire, seen, unchecked>>,
           calls' \subseteq calls, inbox' \subseteq inbox, InFlight' \subseteq InFlight,
           ~ Bypassed => \A p \in InFlight' :
               Rekeys(p.event) /\ p.to = s /\ p.event.user = u =>
                   p \in wire /\ Id(p.event) \in seen[s]
    PROVE  KeysInv'
<1>1. \A r \in Server, w \in User :
          keys'[r][w] = IF r = s /\ w = u THEN n ELSE keys[r][w]
  BY DEF TypeInv, StoresTyped
<1>2. KeysIssued'
  BY <1>1 DEF KeysInv, KeysIssued
<1>3. LastKey'
  BY DEF KeysInv, LastKey
<1>4. KeysSeen => KeysSeen'
  BY DEF KeysSeen
<1>5. ASSUME ~ Bypassed, LateKeySeen
      PROVE  LateKeySeen'
  <2> SUFFICES ASSUME NEW p \in InFlight', Late(p)'
               PROVE  p \in wire /\ Id(p.event) \in seen[p.to]
    BY DEF LateKeySeen
  <2>1. p \in InFlight /\ p.to \in Server /\ p.event.user \in User
    <3>1. p \in Post /\ EventOK(p.event) /\ p \in InFlight
      BY EventsOf DEF Sent
    <3> QED
      BY <3>1, EventIs DEF Post, TypeInv
  <2>2. CASE p.to = s /\ p.event.user = u
    BY <1>5, <2>2 DEF Late
  <2>3. CASE ~ (p.to = s /\ p.event.user = u)
    BY <1>1, <1>5, <2>1, <2>3 DEF LateKeySeen, Late
  <2> QED
    BY <2>2, <2>3
<1> QED
  BY <1>2, <1>3, <1>4, <1>5 DEF KeysInv, Bypassed

LEMMA KeysCommit ==
    ASSUME TypeInv, PostsInv, KeysInv, NEW c \in calls, Commit(c)
    PROVE  KeysInv'
<1>1. /\ UNCHANGED <<seen, unchecked, wire, inbox, issued, failed>>
      /\ calls' = calls \ {c}
  BY DEF Commit, history, cache
<1>2. InFlight' = InFlight
  BY <1>1, SameSent
<1>3. CASE ~ Rekeys(c.event)
  <2>1. UNCHANGED keys
    BY <1>3 DEF Commit, Rekeys
  <2> QED
    BY <1>1, <1>2, <2>1, KeysKept
<1>4. CASE Rekeys(c.event)
  <2>1. PICK s, u, n : s = c.event.from /\ u = c.event.user /\ n = c.event.number
    OBVIOUS
  <2>2. /\ EventOK(c.event) /\ s \in Server /\ u \in User /\ n \in Nat /\ s = Home[u]
        /\ n <= issued["key"][u]
    BY <1>4, <2>1, EventsOf, EventIs, KeyIds DEF TypeInv, Rekeys
  <2>3. keys' = [keys EXCEPT ![s][u] = n]
    BY <1>4, <2>1 DEF Commit, Rekeys
  <2>4. \A p \in InFlight' : ~ (Rekeys(p.event) /\ p.to = s /\ p.event.user = u)
    <3> SUFFICES ASSUME NEW p \in InFlight, Rekeys(p.event), p.to = s, p.event.user = u
                 PROVE  FALSE
      BY <1>2
    <3>1. EventOK(p.event) /\ p.to # p.event.from
      BY EventsOf DEF PostsInv, Abroad, Sent
    <3> QED
      BY <2>2, <3>1, KeyIds
  <2>5. ~ Bypassed => \A p \in InFlight' :
            Rekeys(p.event) /\ p.to = s /\ p.event.user = u =>
                p \in wire /\ Id(p.event) \in seen[s]
    BY <2>4
  <2>6. calls' \subseteq calls /\ inbox' \subseteq inbox /\ InFlight' \subseteq InFlight
    BY <1>1, <1>2
  <2> QED
    BY <1>1, <2>2, <2>3, <2>5, <2>6, KeyStored
<1> QED
  BY <1>3, <1>4

LEMMA KeysRequest ==
    ASSUME TypeInv, PostsInv, KeysInv, NEW c \in calls, Request(c)
    PROVE  KeysInv'
<1>1. CASE Answered(c) \/ TimesOut(c)
  <2>1. /\ UNCHANGED <<database, cache, wire, inbox, history>>
        /\ \E d : Moved(c, d, c.todo, None)
    BY <1>1, WaitEnds
  <2>2. PICK d : d.event = c.event /\ calls' = (calls \ {c}) \cup {d}
    BY <2>1 DEF Moved
  <2>3. UNCHANGED <<keys, issued, seen, unchecked, failed>>
    BY <2>1 DEF database, cache, history
  <2>4. InFlight' = InFlight
    BY <2>1, <2>3, SameSent
  <2> QED
    BY <2>1, <2>2, <2>3, <2>4, KeysKept
<1>2. CASE InviteUnpublished(c) \/ CallFails(c)
  <2>1. /\ UNCHANGED <<database, cache, wire, inbox, issued, failed, unchecked>>
        /\ calls' = calls \ {c}
    BY <1>2, RolledBack
  <2>2. InFlight' = InFlight /\ UNCHANGED <<keys, seen>>
    BY <2>1, SameSent DEF database, cache
  <2> QED
    BY <2>1, <2>2, KeysKept
<1> QED
  BY <1>1, <1>2, KeysPost, KeysCommit DEF Request

LEMMA KeysArrival ==
    ASSUME TypeInv, PostsInv, KeysInv, NEW p \in wire, Arrival(p)
    PROVE  KeysInv'
<1>1. UNCHANGED <<keys, calls, issued>> /\ wire' = wire \ {p}
  BY ArrivalIs DEF database
<1>2. \/ /\ PostLost(p) \/ Duplicate(p)
         /\ InFlight' = InFlight \ {p} /\ UNCHANGED <<inbox, cache, unchecked>>
      \/ /\ Admit(p) \/ AdmitUnchecked(p)
         /\ InFlight' = InFlight
         /\ inbox' = inbox \cup {Plan(p)}
  BY SentArrival
<1>3. Plan(p).post = p /\ p \in Post /\ EventOK(p.event) /\ p.to \in Server
  BY PlanIs DEF Post
<1>4. p \in InFlight
  BY DEF InFlight
<1>5. KeysIssued' /\ LastKey'
  BY <1>1 DEF KeysInv, KeysIssued, LastKey
<1>6. CASE /\ PostLost(p) \/ Duplicate(p)
           /\ InFlight' = InFlight \ {p} /\ UNCHANGED <<inbox, cache, unchecked>>
  BY <1>1, <1>6, KeysKept DEF cache
<1>7. CASE Admit(p) /\ InFlight' = InFlight /\ inbox' = inbox \cup {Plan(p)}
  <2>1. /\ Id(p.event) \notin seen[p.to] /\ UNCHANGED unchecked
        /\ seen' = [seen EXCEPT ![p.to] = @ \cup {Id(p.event)}]
    BY <1>7 DEF Admit, history
  <2>2. Id(p.event) \in seen'[p.to] /\ \A s \in Server : seen[s] \subseteq seen'[s]
    BY <1>3, <2>1 DEF TypeInv, RedisTyped
  <2>3. \A q \in InFlight : q.to \in Server /\ EventOK(q.event)
    BY EventsOf DEF Sent, Post
  <2>4. LateKeySeen => LateKeySeen'
    <3> SUFFICES ASSUME LateKeySeen, NEW q \in InFlight, Late(q)
                 PROVE  q \in wire' /\ Id(q.event) \in seen'[q.to]
      BY <1>1, <1>7 DEF LateKeySeen, Late
    <3>1. q \in wire /\ Id(q.event) \in seen[q.to]
      BY DEF LateKeySeen
    <3>2. q # p
      BY <2>1, <3>1
    <3> QED
      BY <1>1, <2>2, <2>3, <3>1, <3>2
  <2>5. KeysSeen => KeysSeen'
    <3> SUFFICES ASSUME KeysSeen
                 PROVE  KeysSeen'
      OBVIOUS
    <3>1. PICK x : x = Plan(p)
      OBVIOUS
    <3>2. x.post = p /\ inbox' = inbox \cup {x}
      BY <1>3, <1>7, <3>1
    <3>3. \A h \in inbox : h.post \in InFlight
      BY DEF InFlight
    <3>4. ASSUME NEW h \in inbox, Rekeys(h.post.event), Rekeys(p.event), h.post.to = p.to,
                 h.post.event.user = p.event.user
          PROVE  FALSE
      <4>1. Id(h.post.event) \in seen[p.to]
        BY <3>4 DEF KeysSeen
      <4>2. Id(h.post.event) = Id(p.event)
        BY <1>3, <2>3, <3>3, <3>4, KeyIds
      <4> QED
        BY <2>1, <4>1, <4>2
    <3>5. \A h \in inbox' : Rekeys(h.post.event) => Id(h.post.event) \in seen'[h.post.to]
      BY <2>2, <2>3, <3>2, <3>3 DEF KeysSeen
    <3>6. ASSUME NEW h \in inbox', NEW g \in inbox', Rekeys(h.post.event),
                 Rekeys(g.post.event), g.post.to = h.post.to,
                 g.post.event.user = h.post.event.user
          PROVE  g = h
      BY <3>2, <3>4, <3>6 DEF KeysSeen
    <3> QED
      BY <3>5, <3>6 DEF KeysSeen
  <2> QED
    BY <1>5, <2>1, <2>4, <2>5 DEF KeysInv, Bypassed
<1>8. CASE AdmitUnchecked(p) /\ InFlight' = InFlight /\ inbox' = inbox \cup {Plan(p)}
  <2>1. unchecked' = unchecked \cup {Id(p.event)} /\ UNCHANGED seen
    BY <1>8 DEF AdmitUnchecked, cache
  <2>2. Rekeys(p.event) => Bypassed'
    <3>1. Rekeys(p.event) => Id(p.event)[1] = "key"
      BY DEF Id, Rekeys
    <3> QED
      BY <2>1, <3>1 DEF Bypassed
  <2>3. Bypassed => Bypassed'
    BY <2>1 DEF Bypassed
  <2>4. ~ Rekeys(p.event) /\ KeysSeen => KeysSeen'
    BY <1>3, <1>8, <2>1 DEF KeysSeen
  <2>5. ~ Rekeys(p.event) /\ LateKeySeen => LateKeySeen'
    BY <1>1, <1>8, <2>1 DEF LateKeySeen, Late
  <2> QED
    BY <1>5, <2>2, <2>3, <2>4, <2>5 DEF KeysInv
<1> QED
  BY <1>2, <1>6, <1>7, <1>8

LEMMA KeysHandler ==
    ASSUME TypeInv, PostsInv, KeysInv, NEW h \in inbox, Handled(h) \/ Refused(h)
    PROVE  KeysInv'
<1>1. /\ UNCHANGED <<seen, unchecked, calls, wire, issued>>
      /\ inbox' = inbox \ {h}
      /\ InFlight' = InFlight \ {h.post}
  BY SentHandler DEF cache
<1>2. CASE ~ (Handled(h) /\ h.applies /\ Rekeys(h.post.event))
  <2>1. UNCHANGED keys
    BY <1>2 DEF Handled, Refused, database, Rekeys
  <2> QED
    BY <1>1, <2>1, KeysKept
<1>3. CASE Handled(h) /\ h.applies /\ Rekeys(h.post.event)
  <2>1. PICK s, u, n : s = h.post.to /\ u = h.post.event.user /\ n = h.post.event.number
    OBVIOUS
  <2>2. /\ EventOK(h.post.event) /\ s \in Server /\ u \in User /\ n \in Nat
        /\ n <= issued["key"][u]
    BY <1>3, <2>1, HandlerIs, EventIs DEF TypeInv, Rekeys
  <2>3. keys' = [keys EXCEPT ![s][u] = n]
    BY <1>3, <2>1 DEF Handled, Rekeys
  <2>4. ASSUME ~ Bypassed, NEW p \in InFlight', Rekeys(p.event), p.to = s, p.event.user = u
        PROVE  p \in wire /\ Id(p.event) \in seen[s]
    <3>1. KeysSeen /\ p \in InFlight /\ p # h.post
      BY <1>1, <2>4 DEF KeysInv
    <3>2. EventOK(p.event)
      BY <3>1, EventsOf DEF Sent
    <3>3. Id(p.event) = Id(h.post.event) /\ Id(h.post.event) \in seen[s]
      BY <1>3, <2>1, <2>2, <2>4, <3>1, <3>2, KeyIds DEF KeysSeen
    <3>4. p \in wire
      BY <1>3, <2>1, <2>4, <3>1 DEF KeysSeen, InFlight
    <3> QED
      BY <3>3, <3>4
  <2>5. ~ Bypassed => \A p \in InFlight' :
            Rekeys(p.event) /\ p.to = s /\ p.event.user = u =>
                p \in wire /\ Id(p.event) \in seen[s]
    BY <2>4
  <2>6. /\ UNCHANGED <<issued, wire, seen, unchecked>>
        /\ calls' \subseteq calls /\ inbox' \subseteq inbox /\ InFlight' \subseteq InFlight
    BY <1>1
  <2>7. s \in Server /\ u \in User /\ n \in Nat /\ n <= issued["key"][u]
    BY <2>2
  <2> QED
    BY <2>3, <2>5, <2>6, <2>7, KeyStored
<1> QED
  BY <1>2, <1>3

LEMMA KeysStep == TypeInv /\ PostsInv /\ KeysInv /\ [Next]_vars => KeysInv'
<1> SUFFICES ASSUME TypeInv, PostsInv, KeysInv, [Next]_vars
             PROVE  KeysInv'
  OBVIOUS
<1>1. CASE RedisStep \/ UNCHANGED vars
  <2>1. UNCHANGED <<keys, calls, wire, inbox, issued, failed, unchecked>>
    BY <1>1, RedisStepIs DEF vars, history, database
  <2>2. InFlight' = InFlight
    BY <2>1, SameSent
  <2>3. \A p \in InFlight : Id(p.event) \in seen[p.to] => Id(p.event) \in seen'[p.to]
    <3>1. CASE UNCHANGED seen
      BY <3>1
    <3>2. ASSUME NEW s \in Server, NEW i \in seen[s], SeenExpires(s, i)
          PROVE  \A p \in InFlight : Id(p.event) \in seen[p.to] => Id(p.event) \in seen'[p.to]
      <4>1. /\ \A p \in InFlight : Id(p.event) # i
            /\ seen' = [seen EXCEPT ![s] = @ \ {i}]
        BY <3>2 DEF SeenExpires
      <4>2. \A p \in InFlight : p.to \in Server
        BY EventsOf DEF Sent, Post
      <4> QED
        BY <4>1, <4>2 DEF TypeInv, RedisTyped
    <3> QED
      BY <1>1, <3>1, <3>2 DEF RedisStep, RedisFails, RedisReturns, vars, cache
  <2> QED
    BY <2>1, <2>2, <2>3, KeysKept
<1>2. ASSUME NEW u \in User, LocalUser(u) \/ \E s \in Server : Lookup(s, u)
      PROVE  KeysInv'
  BY <1>2, KeysUser
<1> QED
  BY <1>1, <1>2, KeysRequest, KeysArrival, KeysHandler DEF Next, RedisStep

LEMMA KeysInit == Init => KeysInv
<1> SUFFICES ASSUME Init
             PROVE  KeysInv
  OBVIOUS
<1>1. \A s \in Server, u \in User : keys[s][u] = 0 /\ issued["key"][u] = 0
  BY DEF Init, Kind
<1> QED
  BY <1>1 DEF Init, KeysInv, KeysIssued, LastKey, KeysSeen, LateKeySeen, InFlight

NotOlder ==
    \A s \in Server, u \in User :
        keys'[s][u] >= keys[s][u] \/ \E i \in unchecked : i[1] = "key"

LEMMA KeyStep ==
    ASSUME TypeInv, PostsInv, KeysInv, [Next]_vars
    PROVE  NotOlder
<1>1. ASSUME NEW c \in calls, Request(c)
      PROVE  NotOlder
  <2>1. CASE Commit(c) /\ Rekeys(c.event)
    <3>1. PICK s, u, n : s = c.event.from /\ u = c.event.user /\ n = c.event.number
      OBVIOUS
    <3>2. s \in Server /\ u \in User /\ n \in Nat /\ n = issued["key"][u]
      BY <2>1, <3>1, EventsOf, EventIs DEF TypeInv, KeysInv, LastKey
    <3>3. keys' = [keys EXCEPT ![s][u] = n]
      BY <2>1, <3>1 DEF Commit, Rekeys
    <3>4. \A r \in Server, w \in User :
              /\ keys[r][w] \in Nat /\ keys[r][w] <= issued["key"][w]
              /\ keys'[r][w] = IF r = s /\ w = u THEN n ELSE keys[r][w]
      BY <3>3 DEF TypeInv, StoresTyped, KeysInv, KeysIssued
    <3> QED
      BY <3>2, <3>4 DEF NotOlder
  <2>2. CASE ~ (Commit(c) /\ Rekeys(c.event))
    <3>1. UNCHANGED keys
      BY <1>1, <2>2, PostEventIs, RolledBack
      DEF Request, Commit, Rekeys, PostEvent, Answered, TimesOut, database
    <3>2. \A r \in Server, w \in User : keys[r][w] \in Nat
      BY DEF TypeInv, StoresTyped
    <3> QED
      BY <3>1, <3>2 DEF NotOlder
  <2> QED
    BY <2>1, <2>2
<1>2. ASSUME NEW h \in inbox, Handled(h) \/ Refused(h)
      PROVE  NotOlder
  <2>1. CASE Handled(h) /\ h.applies /\ Rekeys(h.post.event)
    <3>1. PICK s, u, n : s = h.post.to /\ u = h.post.event.user /\ n = h.post.event.number
      OBVIOUS
    <3>2. s \in Server /\ u \in User /\ n \in Nat
      BY <3>1, HandlerIs
    <3>3. keys' = [keys EXCEPT ![s][u] = n]
      BY <2>1, <3>1 DEF Handled, Rekeys
    <3>4. \A r \in Server, w \in User :
              /\ keys[r][w] \in Nat
              /\ keys'[r][w] = IF r = s /\ w = u THEN n ELSE keys[r][w]
      BY <3>3 DEF TypeInv, StoresTyped
    <3>5. ~ Bypassed => ~ Late(h.post)
      BY DEF KeysInv, LateKeySeen, PostsInv, OneHandler, InFlight
    <3>6. ~ Bypassed => n >= keys[s][u]
      BY <2>1, <3>1, <3>2, <3>4, <3>5 DEF Late
    <3> QED
      BY <3>2, <3>4, <3>6 DEF NotOlder, Bypassed
  <2>2. CASE ~ (Handled(h) /\ h.applies /\ Rekeys(h.post.event))
    <3>1. UNCHANGED keys
      BY <1>2, <2>2 DEF Handled, Refused, database, Rekeys
    <3>2. \A r \in Server, w \in User : keys[r][w] \in Nat
      BY DEF TypeInv, StoresTyped
    <3> QED
      BY <3>1, <3>2 DEF NotOlder
  <2> QED
    BY <2>1, <2>2
<1>3. CASE UNCHANGED keys
  <2>1. \A r \in Server, w \in User : keys[r][w] \in Nat
    BY DEF TypeInv, StoresTyped
  <2> QED
    BY <1>3, <2>1 DEF NotOlder
<1>4. ASSUME NEW u \in User, LocalUser(u) \/ \E s \in Server : Lookup(s, u)
      PROVE  UNCHANGED keys
  <2>1. CASE (\E v \in User : Invite(u, v)) \/ SendMessage(u) \/ DistributeKey(u)
    BY <2>1 DEF Invite, SendMessage, DistributeKey, Begin, database
  <2> QED
    BY <1>4, <2>1 DEF LocalUser, Join, Leave, Lookup
<1>5. ASSUME NEW p \in wire, Arrival(p)
      PROVE  UNCHANGED keys
  BY <1>5, ArrivalIs DEF database
<1>6. CASE RedisStep \/ UNCHANGED vars
  BY <1>3, <1>6, RedisStepIs DEF database, vars
<1> QED
  BY <1>1, <1>2, <1>3, <1>4, <1>5, <1>6 DEF Next, RedisStep

\* A key relayed late never replaces a newer one of the same device, at any server and
\* for any timeouts, lost POSTs and rollbacks, unless an inbox admitted a key while its
\* Redis did not answer.
THEOREM KeyIsNeverOlder == Spec => KeyNeverOlder
<1> DEFINE Inv == TypeInv /\ PostsInv /\ KeysInv
<1>1. Init => Inv
  BY TypesInit, PostsInit, KeysInit
<1>2. Inv /\ [Next]_vars => Inv'
  BY TypesStep, PostsStep, KeysStep
<1>3. Inv /\ [Next]_vars => [NotOlder]_vars
  BY KeyStep
<1> HIDE DEF Inv
<1> QED
  BY <1>1, <1>2, <1>3, PTL DEF Spec, KeyNeverOlder, NotOlder

-----------------------------------------------------------------------------
(***************************************************************************)
(* A user invited is announced to his server before he is listed.          *)
(***************************************************************************)

Inviting(e) == e.kind = "invite"

MembersKnown == \A s \in Server : members[s] # {} => s \in known

InvitesFromKnown ==
    /\ \A c \in calls : Inviting(c.event) => c.event.from \in known
    /\ \A p \in Sent : Inviting(p.event) => p.event.from \in known

\* The invite of c is not sent yet, is on record, or has done its work.
Announced(c) ==
    \/ c.todo = {Home[c.event.user]}
    \/ /\ c.todo = {}
       /\ Home[c.event.user] \in known \/ \E p \in Sent : p.event = c.event

InvitesGoHome ==
    /\ \A c \in calls : Inviting(c.event) => Announced(c)
    /\ \A p \in Sent : Inviting(p.event) => p.to = Home[p.event.user]

HandlersJoin ==
    \A h \in inbox :
        /\ h.joins # {} => Inviting(h.post.event)
        /\ h.joins \subseteq {h.post.event.user, h.post.event.by}
        /\ Inviting(h.post.event) => h.applies /\ (h.channel \/ h.post.to \in known)

Listed(u) ==
    \/ Home[u] \in known
    \/ \E p \in Sent : Inviting(p.event) /\ p.event.user = u

GuestsListed == \A s \in Server : \A u \in members[s] : Listed(u)

GuestsInv ==
    /\ MembersKnown
    /\ InvitesFromKnown
    /\ InvitesGoHome
    /\ HandlersJoin
    /\ GuestsListed

LEMMA GuestsInvited == GuestsInv => InvitedOrFailed
BY DEF GuestsInv, GuestsListed, Listed, Inviting, InvitedOrFailed, Sent

\* Nobody joins a server that does not know the channel, and no POST is handled.
LEMMA GuestsKept ==
    ASSUME TypeInv, GuestsInv, known' = known, Sent' = Sent,
           \A s \in Server : \A u \in members'[s] :
              s \in known /\ (u \in members[s] \/ Listed(u)),
           \A c \in calls' :
              \/ \E d \in calls : c.event = d.event /\ c.todo = d.todo
              \/ Inviting(c.event) => /\ c.todo = {Home[c.event.user]}
                                      /\ c.event.from \in known,
           \A h \in inbox' :
              \/ h \in inbox
              \/ /\ h.joins # {} => Inviting(h.post.event)
                 /\ h.joins \subseteq {h.post.event.user, h.post.event.by}
                 /\ Inviting(h.post.event) => h.applies /\ (h.channel \/ h.post.to \in known)
    PROVE  GuestsInv'
<1>1. MembersKnown'
  BY DEF MembersKnown
<1>2. InvitesFromKnown'
  BY DEF GuestsInv, InvitesFromKnown
<1>3. InvitesGoHome'
  <2>1. \A c \in calls' : Inviting(c.event) => Announced(c)'
    BY DEF GuestsInv, InvitesGoHome, Announced
  <2> QED
    BY <2>1 DEF GuestsInv, InvitesGoHome
<1>4. HandlersJoin'
  BY DEF GuestsInv, HandlersJoin
<1>5. GuestsListed'
  BY DEF GuestsInv, GuestsListed, Listed
<1> QED
  BY <1>1, <1>2, <1>3, <1>4, <1>5 DEF GuestsInv

LEMMA MembersSame ==
    ASSUME GuestsInv, UNCHANGED members
    PROVE  \A s \in Server : \A u \in members'[s] : s \in known /\ u \in members[s]
BY DEF GuestsInv, MembersKnown

LEMMA GuestsUser ==
    ASSUME TypeInv, GuestsInv, NEW u \in User,
           LocalUser(u) \/ \E s \in Server : Lookup(s, u)
    PROVE  GuestsInv'
<1>1. CASE Join(u) \/ Leave(u) \/ \E s \in Server : Lookup(s, u)
  <2>1. UNCHANGED <<known, calls, wire, inbox, failed>>
    BY <1>1 DEF Join, Leave, Lookup, history
  <2>2. Sent' = Sent
    BY <2>1, SameSent
  <2>3. \A s \in Server : \A v \in members'[s] :
            s \in known /\ (v \in members[s] \/ Listed(v))
    <3>1. CASE Join(u)
      <4>1. /\ Home[u] \in known /\ members' = [members EXCEPT ![Home[u]] = @ \cup {u}]
        BY <3>1 DEF Join
      <4>2. \A s \in Server : members'[s] = IF s = Home[u] THEN members[s] \cup {u}
                                            ELSE members[s]
        BY <4>1 DEF TypeInv, StoresTyped
      <4> QED
        BY <4>1, <4>2 DEF GuestsInv, MembersKnown, Listed
    <3>2. CASE Leave(u)
      <4>1. members' = [members EXCEPT ![Home[u]] = @ \ {u}]
        BY <3>2 DEF Leave
      <4>2. \A s \in Server : members'[s] \subseteq members[s]
        BY <4>1 DEF TypeInv, StoresTyped
      <4> QED
        BY <4>2 DEF GuestsInv, MembersKnown
    <3>3. CASE \E s \in Server : Lookup(s, u)
      BY <3>3, MembersSame DEF Lookup
    <3> QED
      BY <1>1, <3>1, <3>2, <3>3
  <2> QED
    BY <2>1, <2>2, <2>3, GuestsKept
<1>2. CASE (\E v \in User : Invite(u, v)) \/ SendMessage(u) \/ DistributeKey(u)
  <2>1. PICK kind \in Kind, v \in User, servers \in SUBSET Server :
            /\ Begin(kind, u, v, servers)
            /\ kind = "invite" => /\ Home[v] # Home[u] /\ u \in members[Home[u]]
                                  /\ servers = {Home[v]}
            /\ kind # "invite" => u = v
    BY <1>2, BeginsAre
  <2>2. UNCHANGED <<known, members, wire, inbox, failed>>
    BY <2>1 DEF Begin, database
  <2>3. \E c : /\ Begun(c, kind, u, v, servers)
               /\ EventOK(c.event)'
               /\ calls' = calls \cup {c}
    BY <2>1, BeginIs
  <2>4. PICK c : Begun(c, kind, u, v, servers) /\ calls' = calls \cup {c}
    BY <2>3
  <2>5. Inviting(c.event) => c.todo = {Home[c.event.user]} /\ c.event.from \in known
    <3>1. Home[u] \in Server
      BY FederationAssumption
    <3> QED
      BY <2>1, <2>4, <3>1 DEF Begun, Inviting, GuestsInv, MembersKnown
  <2>6. Sent' = Sent
    BY <2>2, SameSent
  <2> QED
    BY <2>2, <2>4, <2>5, <2>6, MembersSame, GuestsKept
<1> QED
  BY <1>1, <1>2 DEF LocalUser

LEMMA GuestsPost ==
    ASSUME TypeInv, PostsInv, GuestsInv, NEW c \in calls, NEW s \in Server, PostEvent(c, s)
    PROVE  GuestsInv'
<1>1. /\ s \in c.todo /\ UNCHANGED <<database, inbox>>
      /\ \E d : Moved(c, d, c.todo \ {s}, s)
      /\ \E q \in Post : /\ q = [event |-> c.event, to |-> s]
                         /\ q.event = c.event /\ q.to = s
                         /\ wire' = wire \cup {q}
  BY PostEventIs
<1>2. PICK d : d.event = c.event /\ d.todo = c.todo \ {s} /\ calls' = (calls \ {c}) \cup {d}
  BY <1>1 DEF Moved
<1>3. PICK q \in Post : /\ q = [event |-> c.event, to |-> s]
                        /\ q.event = c.event /\ q.to = s
                        /\ wire' = wire \cup {q}
  BY <1>1
<1>4. UNCHANGED <<known, members>> /\ Sent' = Sent \cup {q}
  BY <1>1, <1>3, NewPost DEF database
<1>5. Inviting(c.event) => c.todo = {Home[c.event.user]}
  BY <1>1 DEF GuestsInv, InvitesGoHome, Announced
<1>6. MembersKnown' /\ HandlersJoin' /\ GuestsListed'
  BY <1>1, <1>4 DEF GuestsInv, MembersKnown, HandlersJoin, GuestsListed, Listed
<1>7. InvitesFromKnown'
  BY <1>2, <1>3, <1>4 DEF GuestsInv, InvitesFromKnown
<1>8. InvitesGoHome'
  <2>1. \A p \in Sent' : Inviting(p.event) => p.to = Home[p.event.user]
    BY <1>1, <1>3, <1>4, <1>5 DEF GuestsInv, InvitesGoHome
  <2>2. Inviting(d.event) => Announced(d)'
    <3>1. Inviting(d.event) => d.todo = {}
      BY <1>1, <1>2, <1>5
    <3> QED
      BY <1>2, <1>3, <1>4, <3>1 DEF Announced
  <2>3. \A x \in calls : Inviting(x.event) => Announced(x)'
    BY <1>4 DEF GuestsInv, InvitesGoHome, Announced
  <2> QED
    BY <1>2, <2>1, <2>2, <2>3 DEF InvitesGoHome
<1> QED
  BY <1>6, <1>7, <1>8 DEF GuestsInv

LEMMA GuestsRequest ==
    ASSUME TypeInv, PostsInv, GuestsInv, NEW c \in calls, Request(c)
    PROVE  GuestsInv'
<1>1. CASE Answered(c) \/ TimesOut(c)
  <2>1. /\ UNCHANGED <<database, cache, wire, inbox, history>>
        /\ \E d : Moved(c, d, c.todo, None)
    BY <1>1, WaitEnds
  <2>2. PICK d : d.event = c.event /\ d.todo = c.todo /\ calls' = (calls \ {c}) \cup {d}
    BY <2>1 DEF Moved
  <2>3. UNCHANGED <<known, members, failed>>
    BY <2>1 DEF database, history
  <2>4. Sent' = Sent
    BY <2>1, <2>3, SameSent
  <2> QED
    BY <2>1, <2>2, <2>3, <2>4, MembersSame, GuestsKept
<1>2. CASE InviteUnpublished(c) \/ CallFails(c)
  <2>1. /\ UNCHANGED <<database, wire, inbox, failed>>
        /\ calls' = calls \ {c}
    BY <1>2, RolledBack
  <2>2. Sent' = Sent /\ UNCHANGED <<known, members>>
    BY <2>1, SameSent DEF database
  <2> QED
    BY <2>1, <2>2, MembersSame, GuestsKept
<1>3. CASE Commit(c)
  <2>1. /\ UNCHANGED <<known, wire, inbox, failed>>
        /\ calls' = calls \ {c} /\ c.todo = {}
    BY <1>3 DEF Commit, Finishing, history
  <2>2. Sent' = Sent
    BY <2>1, SameSent
  <2>3. CASE ~ Inviting(c.event)
    <3>1. UNCHANGED members
      BY <1>3, <2>3 DEF Commit, Inviting
    <3> QED
      BY <2>1, <2>2, <3>1, MembersSame, GuestsKept
  <2>4. CASE Inviting(c.event)
    <3>1. members' = [members EXCEPT ![c.event.from] = @ \cup {c.event.user}]
      BY <1>3, <2>4 DEF Commit, Inviting
    <3>2. c.event.from \in known /\ c.event.from \in Server
      BY <2>4, EventsOf, EventIs DEF TypeInv, GuestsInv, InvitesFromKnown
    <3>3. Listed(c.event.user)
      BY <2>1, <2>4 DEF GuestsInv, InvitesGoHome, Announced, Listed
    <3>4. \A s \in Server : members'[s] = IF s = c.event.from
                                          THEN members[s] \cup {c.event.user}
                                          ELSE members[s]
      BY <3>1, <3>2 DEF TypeInv, StoresTyped
    <3>5. \A s \in Server : \A v \in members'[s] :
              s \in known /\ (v \in members[s] \/ Listed(v))
      BY <3>2, <3>3, <3>4 DEF GuestsInv, MembersKnown
    <3> QED
      BY <2>1, <2>2, <3>5, GuestsKept
  <2> QED
    BY <2>3, <2>4
<1> QED
  BY <1>1, <1>2, <1>3, GuestsPost DEF Request

LEMMA GuestsArrival ==
    ASSUME TypeInv, PostsInv, GuestsInv, NEW p \in wire, Arrival(p)
    PROVE  GuestsInv'
<1>1. UNCHANGED <<known, members, calls>> /\ inbox' \in {inbox, inbox \cup {Plan(p)}}
  BY ArrivalIs DEF database
<1>2. Sent' = Sent
  BY SentArrival
<1>3. PICK h : h = Plan(p)
  OBVIOUS
<1>4. /\ h.joins # {} => Inviting(h.post.event)
      /\ h.joins \subseteq {h.post.event.user, h.post.event.by}
      /\ Inviting(h.post.event) => h.applies /\ (h.channel \/ h.post.to \in known)
  BY <1>3 DEF Plan, Inviting
<1> QED
  BY <1>1, <1>2, <1>3, <1>4, MembersSame, GuestsKept

LEMMA GuestsHandler ==
    ASSUME TypeInv, PostsInv, GuestsInv, NEW h \in inbox, Handled(h) \/ Refused(h)
    PROVE  GuestsInv'
<1>1. /\ UNCHANGED <<calls, wire, issued, undone>>
      /\ inbox' = inbox \ {h}
      /\ \/ Handled(h) /\ h.applies /\ Sent' = Sent \ {h.post}
         \/ ~ (Handled(h) /\ h.applies) /\ Sent' = Sent
  BY SentHandler
<1>2. PICK e, s : e = h.post.event /\ s = h.post.to
  OBVIOUS
<1>3. s \in Server /\ EventOK(e) /\ h.post \in Sent
  BY <1>2, HandlerIs DEF Sent, InFlight
<1>4. /\ h.joins # {} => Inviting(e)
      /\ h.joins \subseteq {e.user, e.by}
      /\ Inviting(e) => h.applies /\ (h.channel \/ s \in known)
  BY <1>2 DEF GuestsInv, HandlersJoin
<1>5. Inviting(e) => s = Home[e.user] /\ Home[e.by] \in known
  BY <1>2, <1>3 DEF GuestsInv, InvitesGoHome, InvitesFromKnown, EventOK
<1>6. CASE ~ Handled(h)
  <2>1. UNCHANGED <<known, members>> /\ Sent' = Sent
    BY <1>1, <1>6 DEF Refused, database
  <2> QED
    BY <1>1, <2>1, MembersSame, GuestsKept
<1>7. CASE Handled(h)
  <2>1. /\ known' = IF h.channel THEN known \cup {s} ELSE known
        /\ members' = [members EXCEPT ![s] = @ \cup h.joins]
    BY <1>2, <1>7 DEF Handled
  <2>2. \A r \in Server : members'[r] = IF r = s THEN members[r] \cup h.joins ELSE members[r]
    BY <1>3, <2>1 DEF TypeInv, StoresTyped
  <2>3. known \subseteq known' /\ (Inviting(e) => s \in known')
    BY <1>4, <2>1
  <2>4. Sent' \subseteq Sent /\ \A p \in Sent \ Sent' : p.event = e
    BY <1>1, <1>2
  <2>5. MembersKnown'
    BY <1>4, <2>2, <2>3 DEF GuestsInv, MembersKnown
  <2>6. InvitesFromKnown'
    BY <1>1, <2>3, <2>4 DEF GuestsInv, InvitesFromKnown
  <2>7. InvitesGoHome'
    <3>1. ASSUME NEW c \in calls, Inviting(c.event)
          PROVE  Announced(c)'
      <4>1. Announced(c)
        BY <3>1 DEF GuestsInv, InvitesGoHome
      <4>2. CASE c.todo = {Home[c.event.user]}
        BY <4>2 DEF Announced
      <4>3. CASE c.todo = {} /\ Home[c.event.user] \in known
        BY <2>3, <4>3 DEF Announced
      <4>4. ASSUME c.todo = {}, NEW p \in Sent, p.event = c.event
            PROVE  Announced(c)'
        <5>1. CASE p \in Sent'
          BY <4>4, <5>1 DEF Announced
        <5>2. CASE p \notin Sent'
          <6>1. c.event = e
            BY <2>4, <4>4, <5>2
          <6> QED
            BY <1>5, <2>3, <3>1, <4>4, <6>1 DEF Announced
        <5> QED
          BY <5>1, <5>2
      <4> QED
        BY <4>1, <4>2, <4>3, <4>4 DEF Announced
    <3> QED
      BY <1>1, <2>4, <3>1 DEF GuestsInv, InvitesGoHome
  <2>8. HandlersJoin'
    BY <1>1, <2>3 DEF GuestsInv, HandlersJoin
  <2>9. ASSUME NEW u, Listed(u)
        PROVE  Listed(u)'
    <3>1. CASE Home[u] \in known
      BY <2>3, <3>1 DEF Listed
    <3>2. ASSUME NEW p \in Sent, Inviting(p.event), p.event.user = u
          PROVE  Listed(u)'
      <4>1. CASE p \in Sent'
        BY <3>2, <4>1 DEF Listed
      <4>2. CASE p \notin Sent'
        <5>1. p.event = e
          BY <2>4, <4>2
        <5> QED
          BY <1>5, <2>3, <3>2, <5>1 DEF Listed
      <4> QED
        BY <4>1, <4>2
    <3> QED
      BY <2>9, <3>1, <3>2 DEF Listed
  <2>10. GuestsListed'
    <3>1. \A u \in h.joins : Listed(u)'
      BY <1>4, <1>5, <2>3 DEF Listed
    <3> QED
      BY <2>2, <2>9, <3>1 DEF GuestsInv, GuestsListed
  <2> QED
    BY <2>5, <2>6, <2>7, <2>8, <2>10 DEF GuestsInv
<1> QED
  BY <1>6, <1>7

LEMMA GuestsStep == TypeInv /\ PostsInv /\ GuestsInv /\ [Next]_vars => GuestsInv'
<1> SUFFICES ASSUME TypeInv, PostsInv, GuestsInv, [Next]_vars
             PROVE  GuestsInv'
  OBVIOUS
<1>1. CASE RedisStep \/ UNCHANGED vars
  <2>1. UNCHANGED <<known, members, calls, wire, inbox, failed>>
    BY <1>1, RedisStepIs DEF vars, history, database
  <2>2. Sent' = Sent
    BY <2>1, SameSent
  <2> QED
    BY <2>1, <2>2, MembersSame, GuestsKept
<1>2. ASSUME NEW u \in User, LocalUser(u) \/ \E s \in Server : Lookup(s, u)
      PROVE  GuestsInv'
  BY <1>2, GuestsUser
<1> QED
  BY <1>1, <1>2, GuestsRequest, GuestsArrival, GuestsHandler DEF Next, RedisStep

LEMMA GuestsInit == Init => GuestsInv
<1> SUFFICES ASSUME Init
             PROVE  GuestsInv
  OBVIOUS
<1>1. Sent = {} /\ calls = {} /\ inbox = {}
  BY DEF Init, Sent, InFlight
<1>2. \A s \in Server : \A u \in members[s] : u = Founder /\ s = Home[Founder]
  BY DEF Init
<1>3. known = {Home[Founder]}
  BY DEF Init
<1> QED
  BY <1>1, <1>2, <1>3 DEF GuestsInv, MembersKnown, InvitesFromKnown, InvitesGoHome,
     HandlersJoin, GuestsListed, Listed

\* A server lists a remote user as a member only when his server knows the channel or
\* the invite is on record as failed or under way, whoever joins and leaves meanwhile.
THEOREM GuestsAlwaysInvited == Spec => []InvitedOrFailed
<1> DEFINE Inv == TypeInv /\ PostsInv /\ GuestsInv
<1>1. Init => Inv
  BY TypesInit, PostsInit, GuestsInit
<1>2. Inv /\ [Next]_vars => Inv'
  BY TypesStep, PostsStep, GuestsStep
<1>3. Inv => InvitedOrFailed
  BY GuestsInvited
<1> HIDE DEF Inv
<1> QED
  BY <1>1, <1>2, <1>3, PTL DEF Spec
-----------------------------------------------------------------------------
(***************************************************************************)
(* A message is dropped only for a cause.                                  *)
(***************************************************************************)

UndoneAt(s, u) == \E e \in undone : Inviting(e) /\ e.from = s /\ e.user = u

\* What became of a user that server s was told of.
Settled(s, u) == u \in members[s] \/ Pending("invite", s, u) \/ UndoneAt(s, u)

ToldListed ==
    \A s \in Server : \A u \in told[s] : u \in User /\ Home[u] # s /\ Settled(s, u)

\* A handler that will insert the channel will insert the inviter as a member.
ChannelBrings ==
    \A h \in inbox : h.channel => Inviting(h.post.event) /\ h.post.event.by \in h.joins

\* The server knows the channel, or was sent an invite.
Reached(s) == s \in known \/ \E p \in Sent : Inviting(p.event) /\ p.to = s

MessagesReach ==
    /\ \A c \in calls : Tells(c.event) => \A s \in c.todo : Reached(s)
    /\ \A p \in InFlight : Tells(p.event) => Reached(p.to)

ToldInv == ToldListed /\ ChannelBrings /\ MessagesReach

LEMMA ReachedStays ==
    ASSUME TypeInv, PostsInv, GuestsInv, [Next]_vars, NEW s, Reached(s)
    PROVE  Reached(s)'
<1>1. CASE known' = known /\ Sent \subseteq Sent'
  BY <1>1 DEF Reached
<1>2. ASSUME NEW u \in User, LocalUser(u) \/ \E r \in Server : Lookup(r, u)
      PROVE  Reached(s)'
  <2>1. UNCHANGED <<known, wire, inbox, failed>>
    BY <1>2 DEF LocalUser, Join, Leave, Lookup, Invite, SendMessage, DistributeKey, Begin,
       database, history
  <2> QED
    BY <1>1, <2>1, SameSent
<1>3. ASSUME NEW c \in calls, Request(c)
      PROVE  Reached(s)'
  <2>1. UNCHANGED <<known, inbox, failed>> /\ wire \subseteq wire'
    BY <1>3 DEF Request, PostEvent, Answered, TimesOut, Commit, InviteUnpublished, CallFails,
       RollBack, database, history
  <2> QED
    BY <1>1, <2>1 DEF Sent, InFlight
<1>4. ASSUME NEW p \in wire, Arrival(p)
      PROVE  Reached(s)'
  <2>1. UNCHANGED known
    BY <1>4, ArrivalIs DEF database
  <2> QED
    BY <1>1, <1>4, <2>1, SentArrival
<1>5. ASSUME NEW h \in inbox, Handled(h) \/ Refused(h)
      PROVE  Reached(s)'
  <2>1. \/ Handled(h) /\ h.applies /\ Sent' = Sent \ {h.post}
        \/ ~ (Handled(h) /\ h.applies) /\ Sent' = Sent
    BY <1>5, SentHandler
  <2>2. known \subseteq known'
    BY <1>5 DEF Handled, Refused, database
  <2>3. Handled(h) /\ Inviting(h.post.event) => h.post.to \in known'
    BY DEF Handled, GuestsInv, HandlersJoin
  <2> QED
    BY <2>1, <2>2, <2>3 DEF Reached
<1>6. CASE RedisStep \/ UNCHANGED vars
  <2>1. UNCHANGED <<known, wire, inbox, failed>>
    BY <1>6, RedisStepIs DEF vars, history, database
  <2> QED
    BY <1>1, <2>1, SameSent
<1> QED
  BY <1>2, <1>3, <1>4, <1>5, <1>6 DEF Next, RedisStep

\* The members of a remote server that a server lists were invited from somewhere.
LEMMA RemotesReached ==
    ASSUME TypeInv, GuestsInv, NEW s \in Server, NEW r \in RemoteServers(s)
    PROVE  Reached(r)
<1>1. PICK v \in members[s] : r = Home[v]
  BY DEF RemoteServers
<1>2. Listed(v)
  BY DEF GuestsInv, GuestsListed
<1> QED
  BY <1>1, <1>2 DEF Listed, Reached, GuestsInv, InvitesGoHome

\* A message that a request begins goes to servers that were reached.
LEMMA ReachStep ==
    ASSUME TypeInv, PostsInv, GuestsInv, MessagesReach, [Next]_vars
    PROVE  MessagesReach'
<1>1. \A s : Reached(s) => Reached(s)'
  BY ReachedStays
<1>2. CASE /\ \A c \in calls' : \/ ~ Tells(c.event)
                               \/ \A s \in c.todo : Reached(s)
           /\ \A p \in InFlight' : Tells(p.event) => Reached(p.to)
  <2>1. \A c \in calls' : Tells(c.event) => \A s \in c.todo : Reached(s)'
    BY <1>1, <1>2
  <2>2. \A p \in InFlight' : Tells(p.event) => Reached(p.to)'
    BY <1>1, <1>2
  <2> QED
    BY <2>1, <2>2 DEF MessagesReach
<1>3. CASE UNCHANGED <<wire, inbox>> /\ calls' \subseteq calls
  <2>1. InFlight' = InFlight
    BY <1>3 DEF InFlight
  <2> QED
    BY <1>2, <1>3, <2>1 DEF MessagesReach
<1>4. ASSUME NEW u \in User, LocalUser(u) \/ \E s \in Server : Lookup(s, u)
      PROVE  MessagesReach'
  <2>1. CASE Join(u) \/ Leave(u) \/ \E s \in Server : Lookup(s, u)
    BY <1>3, <2>1 DEF Join, Leave, Lookup
  <2>2. ASSUME NEW kind \in Kind, NEW v \in User, NEW servers \in SUBSET Server,
               Begin(kind, u, v, servers),
               kind = "message" => \A s \in servers : Reached(s)
        PROVE  MessagesReach'
    <3>1. UNCHANGED <<wire, inbox>>
      BY <2>2 DEF Begin
    <3>2. PICK e : e = [kind |-> kind, from |-> Home[u], user |-> v, by |-> u,
                        number |-> issued[kind][v] + 1]
      OBVIOUS
    <3>3. PICK c : c = [event |-> e, todo |-> servers, waiting |-> None]
      OBVIOUS
    <3>4. c.event = e /\ c.todo = servers /\ e.kind = kind
      BY <3>2, <3>3
    <3>5. calls' = calls \cup {c}
      BY <2>2, <3>2, <3>3 DEF Begin
    <3>6. InFlight' = InFlight
      BY <3>1 DEF InFlight
    <3>7. Tells(c.event) => \A s \in c.todo : Reached(s)
      BY <2>2, <3>4 DEF Tells
    <3> QED
      BY <1>2, <3>5, <3>6, <3>7 DEF MessagesReach
  <2>3. ASSUME NEW v \in User, Invite(u, v)
        PROVE  MessagesReach'
    <3>1. Begin("invite", u, v, {Home[v]}) /\ {Home[v]} \in SUBSET Server
      BY <2>3, FederationAssumption DEF Invite
    <3> QED
      BY <2>2, <3>1 DEF Kind
  <2>4. /\ RemoteServers(Home[u]) \in SUBSET Server
        /\ \A r \in RemoteServers(Home[u]) : Reached(r)
    <3>1. Home[u] \in Server
      BY FederationAssumption
    <3>2. \A r \in RemoteServers(Home[u]) : Reached(r)
      BY <3>1, RemotesReached
    <3>3. RemoteServers(Home[u]) \subseteq Server
      BY <3>1, FederationAssumption DEF RemoteServers, TypeInv, StoresTyped
    <3> QED
      BY <3>2, <3>3
  <2>5. CASE SendMessage(u)
    <3>1. Begin("message", u, u, RemoteServers(Home[u]))
      BY <2>5 DEF SendMessage
    <3> QED
      BY <2>2, <2>4, <3>1 DEF Kind
  <2>6. CASE DistributeKey(u)
    <3>1. Begin("key", u, u, RemoteServers(Home[u]))
      BY <2>6 DEF DistributeKey
    <3> QED
      BY <2>2, <2>4, <3>1 DEF Kind
  <2> QED
    BY <1>4, <2>1, <2>3, <2>5, <2>6 DEF LocalUser
<1>5. ASSUME NEW c \in calls, Request(c)
      PROVE  MessagesReach'
  <2>1. ASSUME NEW s \in Server, PostEvent(c, s)
        PROVE  MessagesReach'
    <3>1. /\ s \in c.todo
          /\ \E d : Moved(c, d, c.todo \ {s}, s)
          /\ \E q \in Post : /\ q = [event |-> c.event, to |-> s]
                             /\ q.event = c.event /\ q.to = s
                             /\ wire' = wire \cup {q}
      BY <2>1, PostEventIs
    <3>2. PICK d : d.event = c.event /\ d.todo = c.todo \ {s} /\ calls' = (calls \ {c}) \cup {d}
      BY <3>1 DEF Moved
    <3>3. PICK q \in Post : /\ q = [event |-> c.event, to |-> s]
                            /\ q.event = c.event /\ q.to = s
                            /\ wire' = wire \cup {q}
      BY <3>1
    <3>4. InFlight' = InFlight \cup {q}
      BY <2>1, <3>3, NewPost
    <3> QED
      BY <1>2, <3>1, <3>2, <3>3, <3>4 DEF MessagesReach
  <2>2. CASE Answered(c) \/ TimesOut(c)
    <3>1. /\ UNCHANGED <<wire, inbox>>
          /\ \E d : Moved(c, d, c.todo, None)
      BY <2>2, WaitEnds
    <3>2. PICK d : d.event = c.event /\ d.todo = c.todo /\ calls' = (calls \ {c}) \cup {d}
      BY <3>1 DEF Moved
    <3>3. InFlight' = InFlight
      BY <3>1 DEF InFlight
    <3> QED
      BY <1>2, <3>2, <3>3 DEF MessagesReach
  <2>3. CASE Commit(c) \/ InviteUnpublished(c) \/ CallFails(c)
    BY <1>3, <2>3 DEF Commit, InviteUnpublished, CallFails, RollBack
  <2> QED
    BY <1>5, <2>1, <2>2, <2>3 DEF Request
<1>6. ASSUME NEW p \in wire, Arrival(p)
      PROVE  MessagesReach'
  <2>1. UNCHANGED calls /\ InFlight' \subseteq InFlight
    BY <1>6, ArrivalIs, SentArrival
  <2> QED
    BY <1>2, <2>1 DEF MessagesReach
<1>7. ASSUME NEW h \in inbox, Handled(h) \/ Refused(h)
      PROVE  MessagesReach'
  <2>1. UNCHANGED calls /\ InFlight' \subseteq InFlight
    BY <1>7, SentHandler
  <2> QED
    BY <1>2, <2>1 DEF MessagesReach
<1>8. CASE RedisStep \/ UNCHANGED vars
  <2>1. UNCHANGED <<calls, wire, inbox>>
    BY <1>8, RedisStepIs DEF vars
  <2> QED
    BY <1>3, <2>1
<1> QED
  BY <1>4, <1>5, <1>6, <1>7, <1>8 DEF Next, RedisStep

LEMMA InboxStep ==
    ASSUME TypeInv, PostsInv, [Next]_vars
    PROVE  \A h \in inbox' \ inbox : \E p \in wire :
              /\ Admit(p) \/ AdmitUnchecked(p)
              /\ h = Plan(p)
<1>1. CASE inbox' \subseteq inbox
  BY <1>1
<1>2. ASSUME NEW p \in wire, Arrival(p)
      PROVE  \/ inbox' \subseteq inbox
             \/ (Admit(p) \/ AdmitUnchecked(p)) /\ inbox' = inbox \cup {Plan(p)}
  BY <1>2, ArrivalIs
<1>3. ASSUME NEW u \in User, LocalUser(u) \/ \E s \in Server : Lookup(s, u)
      PROVE  inbox' \subseteq inbox
  BY <1>3 DEF LocalUser, Join, Leave, Lookup, Invite, SendMessage, DistributeKey, Begin
<1>4. ASSUME NEW c \in calls, Request(c)
      PROVE  inbox' \subseteq inbox
  BY <1>4 DEF Request, PostEvent, Answered, TimesOut, Commit, InviteUnpublished, CallFails,
     RollBack
<1>5. ASSUME NEW h \in inbox, Handled(h) \/ Refused(h)
      PROVE  inbox' \subseteq inbox
  BY <1>5 DEF Handled, Refused
<1>6. CASE RedisStep \/ UNCHANGED vars
  BY <1>1, <1>6, RedisStepIs DEF vars
<1> QED
  BY <1>1, <1>2, <1>3, <1>4, <1>5, <1>6 DEF Next, RedisStep

LEMMA BringsStep ==
    ASSUME TypeInv, PostsInv, GuestsInv, ChannelBrings, [Next]_vars
    PROVE  ChannelBrings'
<1>1. ASSUME NEW h \in inbox', h \notin inbox, h.channel
      PROVE  Inviting(h.post.event) /\ h.post.event.by \in h.joins
  <2>1. PICK p \in wire : h = Plan(p)
    BY <1>1, InboxStep
  <2>2. /\ h.post = p
        /\ h.channel = (p.event.kind = "invite" /\ p.to \notin known)
        /\ h.joins = IF p.event.kind = "invite"
                     THEN (IF p.to \in known THEN {p.event.user}
                                             ELSE {p.event.user, p.event.by}) \ members[p.to]
                     ELSE {}
    BY <2>1 DEF Plan
  <2>3. p.to \in Server
    BY DEF TypeInv, PostsTyped, Post
  <2>4. Inviting(p.event) /\ members[p.to] = {}
    BY <1>1, <2>2, <2>3 DEF GuestsInv, MembersKnown, Inviting
  <2> QED
    BY <1>1, <2>2, <2>4
<1> QED
  BY <1>1 DEF ChannelBrings

\* A remote user who is listed stays: only his own server lets him leave.
LEMMA RemotesStay ==
    ASSUME TypeInv, NEW s \in Server, NEW u \in members[s], Home[u] # s, [Next]_vars
    PROVE  u \in members'[s]
<1>1. CASE UNCHANGED members
  BY <1>1
<1>2. ASSUME NEW r \in Server, NEW more, members' = [members EXCEPT ![r] = @ \cup more]
      PROVE  u \in members'[s]
  BY <1>2 DEF TypeInv, StoresTyped
<1>3. ASSUME NEW v \in User, LocalUser(v) \/ \E r \in Server : Lookup(r, v)
      PROVE  u \in members'[s]
  <2>1. Home[v] \in Server
    BY FederationAssumption
  <2>2. CASE Join(v)
    BY <1>2, <2>1, <2>2 DEF Join
  <2>3. CASE Leave(v)
    <3>1. members' = [members EXCEPT ![Home[v]] = @ \ {v}]
      BY <2>3 DEF Leave
    <3> QED
      BY <3>1 DEF TypeInv, StoresTyped
  <2>4. CASE ~ Join(v) /\ ~ Leave(v)
    BY <1>1, <1>3, <2>4 DEF LocalUser, Lookup, Invite, SendMessage, DistributeKey, Begin,
       database
  <2> QED
    BY <2>2, <2>3, <2>4
<1>4. ASSUME NEW c \in calls, Request(c)
      PROVE  u \in members'[s]
  <2>1. CASE Commit(c)
    <3>1. \/ UNCHANGED members
          \/ members' = [members EXCEPT ![c.event.from] = @ \cup {c.event.user}]
      BY <2>1 DEF Commit
    <3>2. c.event.from \in Server
      BY EventsOf, EventIs DEF TypeInv
    <3> QED
      BY <1>1, <1>2, <3>1, <3>2
  <2>2. CASE ~ Commit(c)
    BY <1>1, <1>4, <2>2 DEF Request, PostEvent, Answered, TimesOut, InviteUnpublished,
       CallFails, RollBack, database
  <2> QED
    BY <2>1, <2>2
<1>5. ASSUME NEW p \in wire, Arrival(p)
      PROVE  u \in members'[s]
  BY <1>1, <1>5, ArrivalIs DEF database
<1>6. ASSUME NEW h \in inbox, Handled(h) \/ Refused(h)
      PROVE  u \in members'[s]
  <2>1. \/ UNCHANGED members
        \/ members' = [members EXCEPT ![h.post.to] = @ \cup h.joins]
    BY <1>6 DEF Handled, Refused, database
  <2>2. h.post.to \in Server
    BY HandlerIs
  <2> QED
    BY <1>1, <1>2, <2>1, <2>2
<1>7. CASE RedisStep \/ UNCHANGED vars
  BY <1>1, <1>7, RedisStepIs DEF vars, database
<1> QED
  BY <1>3, <1>4, <1>5, <1>6, <1>7 DEF Next, RedisStep

\* An invite under way is committed or undone.
LEMMA PendingEnds ==
    ASSUME TypeInv, NEW s \in Server, NEW u \in User, Pending("invite", s, u), [Next]_vars
    PROVE  Settled(s, u)'
<1>1. PICK c \in calls : Inviting(c.event) /\ c.event.from = s /\ c.event.user = u
  BY DEF Pending, Inviting
<1>2. CASE \E d \in calls' : d.event = c.event
  BY <1>1, <1>2 DEF Pending, Inviting, Settled
<1>3. ASSUME NEW d \in calls, Request(d)
      PROVE  Settled(s, u)'
  <2>1. ASSUME NEW e, e.event = d.event, calls' = (calls \ {d}) \cup {e}
        PROVE  Settled(s, u)'
    <3>1. CASE c = d
      BY <1>2, <2>1, <3>1
    <3>2. CASE c # d
      BY <1>2, <2>1, <3>2
    <3> QED
      BY <3>1, <3>2
  <2>2. ASSUME NEW r \in Server, PostEvent(d, r)
        PROVE  Settled(s, u)'
    BY <2>1, <2>2, PostEventIs DEF Moved
  <2>3. CASE Answered(d) \/ TimesOut(d)
    BY <2>1, <2>3, WaitEnds DEF Moved
  <2>4. CASE Commit(d) /\ c # d
    BY <1>2, <2>4 DEF Commit
  <2>5. CASE Commit(d) /\ c = d
    <3>1. members' = [members EXCEPT ![s] = @ \cup {u}]
      BY <1>1, <2>5 DEF Commit, Inviting
    <3>2. u \in members'[s]
      BY <3>1 DEF TypeInv, StoresTyped
    <3> QED
      BY <3>2 DEF Settled
  <2>6. CASE InviteUnpublished(d) \/ CallFails(d)
    <3>1. calls' = calls \ {d} /\ undone' = undone \cup {d.event}
      BY <2>6, RolledBack
    <3>2. CASE c = d
      BY <1>1, <3>1, <3>2 DEF Settled, UndoneAt
    <3>3. CASE c # d
      BY <1>2, <3>1, <3>3
    <3> QED
      BY <3>2, <3>3
  <2> QED
    BY <1>3, <2>2, <2>3, <2>4, <2>5, <2>6 DEF Request
<1>4. CASE calls \subseteq calls'
  BY <1>2, <1>4
<1>5. ASSUME NEW v \in User, LocalUser(v) \/ \E r \in Server : Lookup(r, v)
      PROVE  calls \subseteq calls'
  BY <1>5 DEF LocalUser, Join, Leave, Lookup, Invite, SendMessage, DistributeKey, Begin
<1>6. ASSUME NEW p \in wire, Arrival(p)
      PROVE  calls \subseteq calls'
  BY <1>6, ArrivalIs
<1>7. ASSUME NEW h \in inbox, Handled(h) \/ Refused(h)
      PROVE  calls \subseteq calls'
  BY <1>7 DEF Handled, Refused
<1>8. CASE RedisStep \/ UNCHANGED vars
  BY <1>4, <1>8, RedisStepIs DEF vars
<1> QED
  BY <1>3, <1>4, <1>5, <1>6, <1>7, <1>8 DEF Next, RedisStep

LEMMA UndoneStays ==
    ASSUME [Next]_vars
    PROVE  undone \subseteq undone'
<1>1. ASSUME NEW v \in User, LocalUser(v) \/ \E r \in Server : Lookup(r, v)
      PROVE  undone \subseteq undone'
  BY <1>1 DEF LocalUser, Join, Leave, Lookup, Invite, SendMessage, DistributeKey, Begin,
     history
<1>2. ASSUME NEW c \in calls, Request(c)
      PROVE  undone \subseteq undone'
  BY <1>2 DEF Request, PostEvent, Answered, TimesOut, Commit, InviteUnpublished, CallFails,
     RollBack, history
<1>3. ASSUME NEW p \in wire, Arrival(p)
      PROVE  undone \subseteq undone'
  BY <1>3, ArrivalIs
<1>4. ASSUME NEW h \in inbox, Handled(h) \/ Refused(h)
      PROVE  undone \subseteq undone'
  BY <1>4 DEF Handled, Refused
<1>5. CASE RedisStep \/ UNCHANGED vars
  BY <1>5, RedisStepIs DEF vars, history
<1> QED
  BY <1>1, <1>2, <1>3, <1>4, <1>5 DEF Next, RedisStep

LEMMA ListedStep ==
    ASSUME TypeInv, ToldTyped, PostsInv, ToldListed, ChannelBrings, [Next]_vars
    PROVE  ToldListed'
<1> SUFFICES ASSUME NEW s \in Server, NEW u \in told'[s]
             PROVE  u \in User /\ Home[u] # s /\ Settled(s, u)'
  BY DEF ToldListed
<1>1. CASE u \in told[s]
  <2>1. u \in User /\ Home[u] # s /\ Settled(s, u)
    BY <1>1 DEF ToldListed
  <2>2. CASE u \in members[s]
    BY <2>1, <2>2, RemotesStay DEF Settled
  <2>3. CASE Pending("invite", s, u)
    BY <2>1, <2>3, PendingEnds
  <2>4. CASE UndoneAt(s, u)
    <3>1. undone \subseteq undone'
      BY UndoneStays
    <3>2. UndoneAt(s, u)'
      BY <2>4, <3>1 DEF UndoneAt
    <3> QED
      BY <2>1, <3>2 DEF Settled
  <2> QED
    BY <2>1, <2>2, <2>3, <2>4 DEF Settled
<1>2. CASE u \notin told[s]
  <2>1. ToldOf(s, u) /\ ToldTyped'
    BY <1>2, ToldStep
  <2>2. u \in User
    BY <2>1 DEF ToldTyped
  <2>3. ASSUME NEW by \in User, Home[by] = s, Invite(by, u)
        PROVE  Home[u] # s /\ Settled(s, u)'
    <3>1. Home[u] # s /\ Begin("invite", by, u, {Home[u]})
      BY <2>3 DEF Invite
    <3>2. {Home[u]} \in SUBSET Server /\ "invite" \in Kind
      BY <2>2, FederationAssumption DEF Kind
    <3>3. \E c : Begun(c, "invite", by, u, {Home[u]}) /\ calls' = calls \cup {c}
      BY <2>2, <2>3, <3>1, <3>2, BeginIs
    <3> QED
      BY <2>3, <3>1, <3>3 DEF Begun, Settled, Pending
  <2>4. ASSUME NEW h \in inbox, Handled(h), h.channel, h.post.to = s, h.post.event.by = u
        PROVE  Home[u] # s /\ Settled(s, u)'
    <3>1. EventOK(h.post.event) /\ h.post \in Sent
      BY HandlerIs DEF Sent, InFlight
    <3>2. h.post.event.from = Home[u] /\ h.post.event.from # s
      BY <2>4, <3>1 DEF EventOK, PostsInv, Abroad
    <3>3. members' = [members EXCEPT ![s] = @ \cup h.joins]
      BY <2>4 DEF Handled
    <3>4. u \in h.joins
      BY <2>4 DEF ChannelBrings
    <3>5. u \in members'[s]
      BY <3>3, <3>4 DEF TypeInv, StoresTyped
    <3> QED
      BY <3>2, <3>5 DEF Settled
  <2> QED
    BY <2>1, <2>2, <2>3, <2>4 DEF ToldOf
<1> QED
  BY <1>1, <1>2

LEMMA ToldInit == Init => ToldInv
<1> SUFFICES ASSUME Init
             PROVE  ToldInv
  OBVIOUS
<1>1. InFlight = {} /\ calls = {} /\ inbox = {} /\ \A s \in Server : told[s] = {}
  BY DEF Init, InFlight
<1> QED
  BY <1>1 DEF ToldInv, ToldListed, ChannelBrings, MessagesReach

LEMMA DropStep ==
    ASSUME TypeInv, PostsInv, ToldInv, [Next]_vars,
           NEW h \in inbox', h \notin inbox, h.post.event.kind = "message", ~ h.applies
    PROVE  LET s == h.post.to
               u == h.post.event.user
           IN IF s \in known
              THEN \/ u \notin told[s]
                   \/ Pending("invite", s, u)
                   \/ \E e \in undone : e.kind = "invite" /\ e.from = s /\ e.user = u
              ELSE \E p \in failed \cup InFlight :
                      p.event.kind = "invite" /\ p.to = s
<1>1. PICK p \in wire : h = Plan(p)
  BY InboxStep
<1>2. h.post = p
  BY <1>1, PlanIs
<1>3. p.event.kind = "message"
  BY <1>2
<1>4. h.applies = (p.to \in known /\ p.event.user \in members[p.to])
  BY <1>1, <1>3 DEF Plan
<1>5. p.to \in Server /\ p \in InFlight
  BY DEF TypeInv, PostsTyped, Post, InFlight
<1>6. CASE p.to \in known
  <2>1. p.event.user \notin members[p.to]
    BY <1>4, <1>6
  <2>2. \/ p.event.user \notin told[p.to]
        \/ Pending("invite", p.to, p.event.user)
        \/ UndoneAt(p.to, p.event.user)
    BY <1>5, <2>1 DEF ToldInv, ToldListed, Settled
  <2> QED
    BY <1>2, <1>6, <2>2 DEF UndoneAt, Inviting
<1>7. CASE p.to \notin known
  <2>1. Reached(p.to)
    BY <1>3, <1>5 DEF ToldInv, MessagesReach, Tells
  <2> QED
    BY <1>2, <1>7, <2>1 DEF Reached, Sent, Inviting
<1> QED
  BY <1>6, <1>7

\* A relayed message is dropped by the server it was sent to only when that server was
\* never told of its sender, or his invite there is not committed or was undone, or an
\* invite to it has failed or is on its way: for any number of servers, with losses,
\* timeouts, crashes and outages of Redis.
THEOREM DropAlwaysHasCause == Spec => DropHasCause
<1> DEFINE Inv == TypeInv /\ ToldTyped /\ PostsInv /\ GuestsInv /\ ToldInv
<1>1. Init => Inv
  <2>1. Init => ToldTyped
    BY DEF Init, ToldTyped
  <2> QED
    BY <2>1, TypesInit, PostsInit, GuestsInit, ToldInit
<1>2. Inv /\ [Next]_vars => Inv'
  <2> SUFFICES ASSUME Inv, [Next]_vars
               PROVE  Inv'
    OBVIOUS
  <2>1. TypeInv' /\ PostsInv' /\ GuestsInv' /\ ToldTyped'
    BY TypesStep, PostsStep, GuestsStep, ToldStep
  <2>2. ToldInv'
    BY ListedStep, BringsStep, ReachStep DEF ToldInv
  <2> QED
    BY <2>1, <2>2
<1>3. Inv /\ [Next]_vars =>
        \A h \in inbox' \ inbox : h.post.event.kind = "message" /\ ~h.applies =>
          LET s == h.post.to
              u == h.post.event.user
          IN IF s \in known
             THEN \/ u \notin told[s]
                  \/ Pending("invite", s, u)
                  \/ \E e \in undone : e.kind = "invite" /\ e.from = s /\ e.user = u
             ELSE \E p \in failed \cup InFlight :
                     p.event.kind = "invite" /\ p.to = s
  BY DropStep
<1> HIDE DEF Inv
<1> QED
  BY <1>1, <1>2, <1>3, PTL DEF Spec, DropHasCause
=============================================================================
