------------------------------ MODULE Federation ------------------------------
(***************************************************************************)
(* One channel shared by federated servers: the requests of local users    *)
(* (routers/channels.py, messages.py, keys.py) that relay an event to      *)
(* other servers while their own transaction is still open                 *)
(* (federation/relay.py, client.py), and the inbox that receives it        *)
(* (federation/inbox.py, handlers.py).                                     *)
(*                                                                         *)
(* A request POSTs its event to one server after the other, waits for each *)
(* answer up to a timeout, ignores what the answer says and never tries    *)
(* again; then it commits.  The inbox remembers the event's id in Redis,   *)
(* reads what the event needs, and commits; other transactions may commit  *)
(* between the two.  The database runs at READ COMMITTED, and a row that   *)
(* somebody else has inserted meanwhile fails the whole handler.           *)
(***************************************************************************)
EXTENDS Naturals, FiniteSets

CONSTANTS
    Server,
    User,
    Home,       \* Home[u]: the server user u registered at
    Founder,    \* the user who created the channel
    Limit,      \* bound: Limit[k][u] events of kind k about user u
    MaxFaults,  \* bound: lost POSTs, failing handlers, crashes, outages
    None        \* no server

Kind == {"invite", "message", "key"}

ASSUME FederationAssumption ==
    /\ Home \in [User -> Server]
    /\ Founder \in User
    /\ Limit \in [Kind -> [User -> Nat]]
    /\ MaxFaults \in Nat
    /\ None \notin Server

VARIABLES
    known,      \* servers whose database has the channel
    federated,  \* servers where the channel is marked is_federated
    rows,       \* per server, the remote users it has a record of
    members,    \* per server, the users it lists as members of the channel
    stored,     \* per server and message, the rows of the messages table
    keys,       \* per server and user, the number of the sender key it stores
    redis,      \* servers whose Redis answers
    seen,       \* per server, the event ids Redis remembers
    calls,      \* requests of local users that have not committed
    wire,       \* POSTs to an inbox on their way
    inbox,      \* POSTs whose handler has read the database and not committed
    issued,     \* history: events so far, per kind and user
    failed,     \* history: POSTs that did not do what they were sent for
    undone,     \* history: events whose request was rolled back at home
    unchecked,  \* history: ids admitted without a look at Redis
    told,       \* history: per server, the remote users it was told of: whom its own
                \* users have invited, and whose invite brought the channel there
    faults      \* history: faults so far

database == <<known, federated, rows, members, stored, keys>>
cache    == <<redis, seen>>
history  == <<issued, failed, undone, unchecked, told, faults>>
vars == <<database, cache, calls, wire, inbox, history>>

\* The event is the number-th of its kind about the user: the sender of a
\* message or a key, or the user invited.
Event == [kind : Kind, from : Server, user : User, by : User, number : Nat]

Message == UNION {{u} \X (1 .. Limit["message"][u]) : u \in User}

MessageOf(e) == <<e.user, e.number>>

\* event_id: "msg-<message>", "invite-<channel>-<user>", "sk-<channel>-<device>".
Id(e) == <<e.kind, e.from, e.user, IF e.kind = "message" THEN e.number ELSE 0>>

Post == [event : Event, to : Server]

\* What a handler has read: whether it will do what the event asks for, and the
\* rows it will insert.
Handler == [post : Post, applies : BOOLEAN, users : SUBSET User,
            joins : SUBSET User, channel : BOOLEAN]

Call == [event : Event, todo : SUBSET Server, waiting : Server \cup {None}]

TypeOK ==
    /\ known \in SUBSET Server
    /\ federated \in SUBSET Server
    /\ rows \in [Server -> SUBSET User]
    /\ members \in [Server -> SUBSET User]
    /\ stored \in [Server -> [Message -> Nat]]
    /\ keys \in [Server -> [User -> Nat]]
    /\ redis \in SUBSET Server
    /\ \A s \in Server : \A i \in seen[s] : i[1] \in Kind /\ i[3] \in User
    /\ \A c \in calls : c \in Call
    /\ \A p \in wire \cup failed : p \in Post
    /\ \A h \in inbox : h \in Handler
    /\ issued \in [Kind -> [User -> Nat]]
    /\ \A e \in undone : e \in Event
    /\ told \in [Server -> SUBSET User]
    /\ faults \in 0 .. MaxFaults

Init ==
    /\ known = {Home[Founder]}
    /\ federated = {}
    /\ rows = [s \in Server |-> {}]
    /\ members = [s \in Server |-> {Founder} \cap {u \in User : Home[u] = s}]
    /\ stored = [s \in Server |-> [m \in Message |-> 0]]
    /\ keys = [s \in Server |-> [u \in User |-> 0]]
    /\ redis = Server
    /\ seen = [s \in Server |-> {}]
    /\ calls = {}
    /\ wire = {}
    /\ inbox = {}
    /\ issued = [k \in Kind |-> [u \in User |-> 0]]
    /\ failed = {}
    /\ undone = {}
    /\ unchecked = {}
    /\ told = [s \in Server |-> {}]
    /\ faults = 0

Fault == faults < MaxFaults /\ faults' = faults + 1

\* The POSTs a server has not answered.
InFlight == wire \cup {h.post : h \in inbox}

-----------------------------------------------------------------------------
(***************************************************************************)
(* Requests of local users.                                                *)
(***************************************************************************)

\* GET /users/lookup: a user found at a remote server gets a record here.
Lookup(s, u) ==
    /\ Home[u] # s
    /\ rows' = [rows EXCEPT ![s] = @ \cup {u}]
    /\ UNCHANGED <<known, federated, members, stored, keys, cache, calls, wire,
                   inbox, history>>

\* POST /channels/{id}/join, and adding a local user: nothing is relayed.
Join(u) ==
    LET s == Home[u]
    IN /\ s \in known
       /\ members' = [members EXCEPT ![s] = @ \cup {u}]
       /\ UNCHANGED <<known, federated, rows, stored, keys, cache, calls, wire,
                      inbox, history>>

\* POST /channels/{id}/leave: nothing is relayed.
Leave(u) ==
    LET s == Home[u]
    IN /\ members' = [members EXCEPT ![s] = @ \ {u}]
       /\ UNCHANGED <<known, federated, rows, stored, keys, cache, calls, wire,
                      inbox, history>>

\* A request is under way: it has an event about the user to POST to servers.
Begin(kind, by, u, servers) ==
    LET number == issued[kind][u] + 1
        event == [kind |-> kind, from |-> Home[by], user |-> u, by |-> by,
                  number |-> number]
    IN /\ number <= Limit[kind][u]
       /\ issued' = [issued EXCEPT ![kind][u] = number]
       /\ calls' = calls \cup {[event |-> event, todo |-> servers, waiting |-> None]}
       /\ told' = IF kind = "invite" THEN [told EXCEPT ![Home[by]] = @ \cup {u}] ELSE told
       /\ UNCHANGED <<database, cache, wire, inbox, failed, undone, unchecked,
                      faults>>

\* Mutant: the members themselves, in place of their servers.
RemoteServersAsUsers(s) ==
    IF s \in federated THEN {u \in members[s] : Home[u] # s} ELSE {}

\* _get_remote_server_urls, for a channel marked federated.
RemoteServers(s) ==
    IF s \in federated THEN {Home[u] : u \in members[s]} \ {s} ELSE {}

Pending(kind, s, u) ==
    \E c \in calls : c.event.kind = kind /\ c.event.from = s /\ c.event.user = u

\* Mutant: the invite is not sent.
InviteSilently(by, u) ==
    LET s == Home[by]
    IN /\ Home[u] # s
       /\ u \in rows[s]
       /\ by \in members[s]
       /\ u \notin members[s]
       /\ ~Pending("invite", s, u)
       /\ Begin("invite", by, u, {})

\* add_member with a remote user.  A second request for the same user would wait
\* for the first one's insert.
Invite(by, u) ==
    LET s == Home[by]
    IN /\ Home[u] # s
       /\ u \in rows[s]
       /\ by \in members[s]
       /\ u \notin members[s]
       /\ ~Pending("invite", s, u)
       /\ Begin("invite", by, u, {Home[u]})

\* send_message: inserted, published to local sockets, and then relayed.
SendMessage(u) ==
    LET s == Home[u]
    IN /\ u \in members[s]
       /\ s \in redis
       /\ Begin("message", u, u, RemoteServers(s))

\* distribute_sender_key: a device of the user uploads a new key.
DistributeKey(u) ==
    LET s == Home[u]
    IN /\ s \in known
       /\ ~Pending("key", s, u)
       /\ Begin("key", u, u, RemoteServers(s))

Becomes(c, d) == calls' = (calls \ {c}) \cup {d}

\* send_federation_event: the next POST.
PostEvent(c, s) ==
    /\ c.waiting = None
    /\ s \in c.todo
    /\ Becomes(c, [c EXCEPT !.todo = @ \ {s}, !.waiting = s])
    /\ wire' = wire \cup {[event |-> c.event, to |-> s]}
    /\ UNCHANGED <<database, cache, inbox, history>>

\* The answer, whatever it says, or a connection that failed.
Answered(c) ==
    /\ c.waiting # None
    /\ [event |-> c.event, to |-> c.waiting] \notin InFlight
    /\ Becomes(c, [c EXCEPT !.waiting = None])
    /\ UNCHANGED <<database, cache, wire, inbox, history>>

\* Mutant: the POST is tried again.
TimesOutRetrying(c) ==
    LET post == [event |-> c.event, to |-> c.waiting]
    IN /\ post \in InFlight
       /\ wire' = wire \cup {post}
       /\ UNCHANGED <<database, cache, calls, inbox, history>>

\* 15 seconds without an answer; the POST may still be served.
TimesOut(c) ==
    /\ [event |-> c.event, to |-> c.waiting] \in InFlight
    /\ Becomes(c, [c EXCEPT !.waiting = None])
    /\ UNCHANGED <<database, cache, wire, inbox, history>>

\* The transaction of the request is rolled back.
RollBack(c) ==
    /\ calls' = calls \ {c}
    /\ undone' = undone \cup {c.event}
    /\ UNCHANGED <<database, cache, wire, inbox, issued, failed, unchecked, told>>

\* add_member ends by publishing channel.new; the others have published before.
Finishing(c) == c.todo = {} /\ c.waiting = None

Commit(c) ==
    LET e == c.event
        s == e.from
    IN /\ Finishing(c)
       /\ calls' = calls \ {c}
       /\ \/ /\ e.kind = "invite"
             /\ s \in redis
             /\ members' = [members EXCEPT ![s] = @ \cup {e.user}]
             /\ federated' = federated \cup {s}
             /\ UNCHANGED <<stored, keys>>
          \/ /\ e.kind = "message"
             /\ stored' = [stored EXCEPT ![s][MessageOf(e)] = @ + 1]
             /\ UNCHANGED <<members, federated, keys>>
          \/ /\ e.kind = "key"
             /\ keys' = [keys EXCEPT ![s][e.user] = e.number]
             /\ UNCHANGED <<members, federated, stored>>
       /\ UNCHANGED <<known, rows, cache, wire, inbox, history>>

InviteUnpublished(c) ==
    /\ Finishing(c)
    /\ c.event.kind = "invite"
    /\ c.event.from \notin redis
    /\ RollBack(c)
    /\ UNCHANGED faults

\* The server stops, or its database refuses the commit.
CallFails(c) == Fault /\ RollBack(c)

-----------------------------------------------------------------------------
(***************************************************************************)
(* The inbox.                                                              *)
(***************************************************************************)

PostLost(p) ==
    /\ p \in wire
    /\ Fault
    /\ wire' = wire \ {p}
    /\ failed' = failed \cup {p}
    /\ UNCHANGED <<database, cache, calls, inbox, issued, undone, unchecked, told>>

\* SET NX finds the id: "duplicate".
Duplicate(p) ==
    /\ p \in wire
    /\ p.to \in redis
    /\ Id(p.event) \in seen[p.to]
    /\ wire' = wire \ {p}
    /\ failed' = failed \cup {p}
    /\ UNCHANGED <<database, cache, calls, inbox, issued, undone, unchecked, told,
                   faults>>

\* Mutant: the inviter is not made a member at the invited user's server.
PlanGuestOnly(p) ==
    LET e == p.event
        s == p.to
        here == s \in known
    IN [post |-> p,
        applies |-> CASE e.kind = "invite" -> TRUE
                      [] e.kind = "message" -> here /\ e.user \in members[s]
                      [] e.kind = "key" -> here,
        users |-> IF e.kind = "key" THEN {}
                  ELSE {IF e.kind = "invite" THEN e.by ELSE e.user} \ rows[s],
        joins |-> IF e.kind = "invite" THEN {e.user} \ members[s] ELSE {},
        channel |-> e.kind = "invite" /\ ~here]

\* What the handler of the event concludes from the database.
Plan(p) ==
    LET e == p.event
        s == p.to
        here == s \in known
        about == IF e.kind = "invite" THEN e.by ELSE e.user
        joining == IF here THEN {e.user} ELSE {e.user, e.by}
    IN [post |-> p,
        applies |-> CASE e.kind = "invite" -> TRUE
                      [] e.kind = "message" -> here /\ e.user \in members[s]
                      [] e.kind = "key" -> here,
        users |-> IF e.kind = "key" THEN {} ELSE {about} \ rows[s],
        joins |-> IF e.kind = "invite" THEN joining \ members[s] ELSE {},
        channel |-> e.kind = "invite" /\ ~here]

\* The handler gets to work, and reads.
Enters(p) ==
    /\ wire' = wire \ {p}
    /\ inbox' = inbox \cup {Plan(p)}

\* Mutant: the answer of SET NX is not looked at.
AdmitAlways(p) ==
    /\ p \in wire
    /\ p.to \in redis
    /\ seen' = [seen EXCEPT ![p.to] = @ \cup {Id(p.event)}]
    /\ Enters(p)
    /\ UNCHANGED <<database, redis, calls, history>>

Admit(p) ==
    /\ p \in wire
    /\ p.to \in redis
    /\ Id(p.event) \notin seen[p.to]
    /\ seen' = [seen EXCEPT ![p.to] = @ \cup {Id(p.event)}]
    /\ Enters(p)
    /\ UNCHANGED <<database, redis, calls, history>>

\* Redis is down: process anyway.
AdmitUnchecked(p) ==
    /\ p \in wire
    /\ p.to \notin redis
    /\ unchecked' = unchecked \cup {Id(p.event)}
    /\ Enters(p)
    /\ UNCHANGED <<database, cache, calls, issued, failed, undone, told, faults>>

\* Somebody has inserted what the handler is about to insert.
Conflict(h) ==
    LET s == h.post.to
    IN \/ h.users \cap rows[s] # {}
       \/ h.joins \cap members[s] # {}
       \/ h.channel /\ s \in known

\* The handler publishes what it has done before it commits.
Publishes(h) == h.applies => h.post.to \in redis

Handled(h) ==
    LET e == h.post.event
        s == h.post.to
        does(kind) == h.applies /\ e.kind = kind
    IN /\ ~Conflict(h)
       /\ Publishes(h)
       /\ inbox' = inbox \ {h}
       /\ rows' = [rows EXCEPT ![s] = @ \cup h.users]
       /\ members' = [members EXCEPT ![s] = @ \cup h.joins]
       /\ known' = IF h.channel THEN known \cup {s} ELSE known
       /\ federated' = IF does("invite") THEN federated \cup {s} ELSE federated
       /\ stored' = IF does("message")
                       THEN [stored EXCEPT ![s][MessageOf(e)] = @ + 1] ELSE stored
       /\ keys' = IF does("key") THEN [keys EXCEPT ![s][e.user] = e.number]
                                 ELSE keys
       /\ failed' = IF h.applies THEN failed ELSE failed \cup {h.post}
       /\ told' = IF h.channel THEN [told EXCEPT ![s] = @ \cup {e.by}] ELSE told
       /\ UNCHANGED <<cache, calls, wire, issued, undone, unchecked, faults>>

\* An exception in the handler: rolled back, 500; Redis keeps the id.
Refused(h) ==
    /\ \/ Conflict(h) /\ UNCHANGED faults
       \/ ~Publishes(h) /\ UNCHANGED faults
       \/ Fault
    /\ inbox' = inbox \ {h}
    /\ failed' = failed \cup {h.post}
    /\ UNCHANGED <<database, cache, calls, wire, issued, undone, unchecked, told>>

-----------------------------------------------------------------------------
(***************************************************************************)
(* Redis.                                                                  *)
(***************************************************************************)

RedisFails(s) ==
    /\ s \in redis
    /\ Fault
    /\ redis' = redis \ {s}
    /\ UNCHANGED <<database, seen, calls, wire, inbox, issued, failed, undone,
                   unchecked, told>>

RedisReturns(s) ==
    /\ s \notin redis
    /\ redis' = redis \cup {s}
    /\ UNCHANGED <<database, seen, calls, wire, inbox, history>>

\* An id is forgotten after 24 hours, when its POST is long over.
SeenExpires(s, i) ==
    /\ i \in seen[s]
    /\ \A p \in InFlight : Id(p.event) # i
    /\ seen' = [seen EXCEPT ![s] = @ \ {i}]
    /\ UNCHANGED <<database, redis, calls, wire, inbox, history>>

LocalUser(u) ==
    \/ Join(u)
    \/ Leave(u)
    \/ \E v \in User : Invite(u, v)
    \/ SendMessage(u)
    \/ DistributeKey(u)

Request(c) ==
    \/ \E s \in Server : PostEvent(c, s)
    \/ Answered(c)
    \/ TimesOut(c)
    \/ Commit(c)
    \/ InviteUnpublished(c)
    \/ CallFails(c)

Arrival(p) ==
    \/ PostLost(p)
    \/ Duplicate(p)
    \/ Admit(p)
    \/ AdmitUnchecked(p)

Next ==
    \/ \E u \in User : LocalUser(u)
    \/ \E s \in Server, u \in User : Lookup(s, u)
    \/ \E c \in calls : Request(c)
    \/ \E p \in wire : Arrival(p)
    \/ \E h \in inbox : Handled(h) \/ Refused(h)
    \/ \E s \in Server : RedisFails(s) \/ RedisReturns(s)
    \/ \E s \in Server : \E i \in seen[s] : SeenExpires(s, i)

Spec == Init /\ [][Next]_vars

\* The requests are served: the client's timeout ends every wait, so that no
\* step of a request depends on another server.
FairSpec == Spec /\ WF_vars(\E c \in calls : Request(c))

-----------------------------------------------------------------------------
(***************************************************************************)
(* Properties.                                                             *)
(***************************************************************************)

RequestOf(m) ==
    CASE \E c \in calls : c.event.kind = "message" /\ MessageOf(c.event) = m -> "open"
      [] \E e \in undone : e.kind = "message" /\ MessageOf(e) = m -> "undone"
      [] stored[Home[m[1]]][m] > 0 -> "kept"
      [] OTHER -> "new"

Concerns(p, s, m) == p.event.kind = "message" /\ p.to = s /\ MessageOf(p.event) = m

OfferOf(s, m) ==
    IF Home[m[1]] = s THEN "none"
    ELSE CASE stored[s][m] > 0 -> "stored"
           [] \E p \in InFlight : Concerns(p, s, m) -> "sent"
           [] \E p \in failed : Concerns(p, s, m) -> "lost"
           [] OTHER -> "none"

Relay == INSTANCE FederatedRelay
    WITH request <- [m \in Message |-> RequestOf(m)],
         offer <- [s \in Server |-> [m \in Message |-> OfferOf(s, m)]],
         copies <- stored

\* Federation implements FederatedRelay: with timeouts, outages of Redis and
\* crashes on either side, no server ever stores two copies of a message or one
\* that was not offered to it while the sender's request was open.
RelayedAtMostOnce == Relay!Spec

\* A server that lists a remote user as a member has invited him: his server
\* knows the channel, or the invite is on record as failed.
InvitedOrFailed ==
    \A s \in Server : \A u \in members[s] :
        \/ Home[u] \in known
        \/ \E p \in failed : p.event.kind = "invite" /\ p.event.user = u
        \/ \E p \in InFlight : p.event.kind = "invite" /\ p.event.user = u

\* A key relayed late does not replace a newer one of the same device, except
\* through an inbox that could not ask Redis.
KeyNeverOlder ==
    [][\A s \in Server, u \in User :
          keys'[s][u] >= keys[s][u] \/ \E i \in unchecked : i[1] = "key"]_vars

\* The requests of a kind about a user end, whatever the other servers and Redis do:
\* none waits for a server that never answers, nor for one whose request waits for it.
RequestsEnd ==
    \A k \in Kind, u \in User :
        LET Underway == \E s \in Server : Pending(k, s, u)
        IN Underway ~> ~Underway

\* A server drops a member's relayed message only for a cause: it was never told of
\* him (it learns of those its own users invite and of the one whose invite brought
\* the channel, not of the other members), or his invite there is not committed yet
\* or was undone, or it does not know the channel, because an invite to it failed or
\* is on its way.
DropHasCause ==
    [][\A h \in inbox' \ inbox : h.post.event.kind = "message" /\ ~h.applies =>
          LET s == h.post.to
              u == h.post.event.user
          IN IF s \in known
             THEN \/ u \notin told[s]
                  \/ Pending("invite", s, u)
                  \/ \E e \in undone : e.kind = "invite" /\ e.from = s /\ e.user = u
             ELSE \E p \in failed \cup InFlight :
                     p.event.kind = "invite" /\ p.to = s]_vars
=============================================================================
