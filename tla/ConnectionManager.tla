-------------------------- MODULE ConnectionManager --------------------------
(***************************************************************************)
(* The WebSocket side of one backend instance: the coroutine that runs     *)
(* websocket_endpoint for each socket (app/websocket/router.py) and the    *)
(* ConnectionManager they all share (app/websocket/manager.py).            *)
(*                                                                         *)
(* The event loop is single threaded, so a step is the code between two    *)
(* awaits that reach Redis or the database; between two steps of one       *)
(* coroutine any other coroutine may run.  Pub/sub commands go over one    *)
(* connection in the order they are issued, so they take effect in the     *)
(* step that issues them; the coroutine resumes later.                     *)
(***************************************************************************)
EXTENDS Naturals

CONSTANTS
    Conn,       \* sockets, one endpoint coroutine each, used once
    User,
    Channel,
    Owner,      \* Owner[c]: the user the ticket of socket c was minted for
    Members,    \* Members[u]: the channels the database lists for user u
    MaxFaults   \* bound: connection losses and failed commands in one behaviour

ASSUME ConfigAssumption ==
    /\ Owner \in [Conn -> User]
    /\ Members \in [User -> SUBSET Channel]
    /\ User \cap Channel = {}
    /\ MaxFaults \in Nat

\* Redis topics: user u stands for "user:<u>", channel ch for "channel:<ch>".
Topic == User \cup Channel

VARIABLES
    sockets,      \* _connections: user -> registered sockets
    online,       \* the keys of _connections
    channelUsers, \* _channel_users: channel -> users of this instance
    channelKeys,  \* the keys of _channel_users
    tracked,      \* _subscribed_channels
    opened,       \* _pubsub is not None
    subscribed,   \* what the current _pubsub is subscribed to at Redis
    listening,    \* _listener_alive()
    orphans,      \* subscriptions of abandoned pubsubs whose listener still runs
    presence,     \* presence:<user> keys present at Redis
    pc,           \* where each endpoint coroutine is suspended
    looping,      \* sockets inside the receive loop's try/finally
    topic,        \* the topic a coroutine is subscribing to or leaving
    pending,      \* channels a coroutine has still to subscribe to or to sweep
    snapshot,     \* channels_to_sub a rebuilding coroutine has still to issue
    superseded,   \* coroutines closing a pubsub that is _pubsub no longer
    dropped,      \* history: sockets discarded because a send to them failed
    skipped,      \* history: users whose last disconnect failed before its sweep
    torn,         \* history: a connection loss hit a subscription in progress
    faults        \* history: connection losses and failed commands so far

registry == <<sockets, online>>
roster   == <<channelUsers, channelKeys>>
redis    == <<tracked, opened, subscribed, listening, orphans, superseded>>
history  == <<dropped, skipped, torn, faults>>
vars == <<registry, roster, redis, presence,
          pc, looping, topic, pending, snapshot, history>>

Stage == {"new", "presence", "closing", "resubscribing", "subscribing",
          "loading", "receiving",
          "unpresence", "unsubscribing", "gone", "crashed"}

\* Stages of a coroutine that is awaiting a subscribe of the shared pubsub.
Subscribing == {"resubscribing", "subscribing"}

\* Stages after which the coroutine will touch nothing but its own cleanup.
Leaving == {"unpresence", "unsubscribing", "gone"}

TypeOK ==
    /\ sockets \in [User -> SUBSET Conn]
    /\ online \in SUBSET User
    /\ channelUsers \in [Channel -> SUBSET User]
    /\ channelKeys \in SUBSET Channel
    /\ tracked \in SUBSET Topic
    /\ opened \in BOOLEAN
    /\ subscribed \in SUBSET Topic
    /\ listening \in BOOLEAN
    /\ orphans \in SUBSET SUBSET Topic
    /\ presence \in SUBSET User
    /\ pc \in [Conn -> Stage]
    /\ looping \in SUBSET Conn
    /\ topic \in [Conn -> Topic]
    /\ pending \in [Conn -> SUBSET Channel]
    /\ snapshot \in [Conn -> SUBSET Topic]
    /\ superseded \in SUBSET Conn
    /\ dropped \in SUBSET Conn
    /\ skipped \in SUBSET User
    /\ torn \in BOOLEAN
    /\ faults \in Nat

Init ==
    /\ sockets = [u \in User |-> {}]
    /\ online = {}
    /\ channelUsers = [ch \in Channel |-> {}]
    /\ channelKeys = {}
    /\ tracked = {}
    /\ opened = FALSE
    /\ subscribed = {}
    /\ listening = FALSE
    /\ orphans = {}
    /\ presence = {}
    /\ pc = [c \in Conn |-> "new"]
    /\ looping = {}
    /\ topic = [c \in Conn |-> Owner[c]]
    /\ pending = [c \in Conn |-> {}]
    /\ snapshot = [c \in Conn |-> {}]
    /\ superseded = {}
    /\ dropped = {}
    /\ skipped = {}
    /\ torn = FALSE
    /\ faults = 0

-----------------------------------------------------------------------------
(***************************************************************************)
(* _ensure_pubsub and the subscribe that follows it.                       *)
(***************************************************************************)

\* A topic is remembered in _subscribed_channels and then subscribed on a
\* pubsub that holds the subscriptions held.
IssueSubscribe(c, t, held) ==
    /\ tracked' = tracked \cup {t}
    /\ subscribed' = held \cup {t}
    /\ snapshot' = [snapshot EXCEPT ![c] = {}]
    /\ pc' = [pc EXCEPT ![c] = "subscribing"]

\* A pubsub is in place and its listener is alive: subscribe at once.  With no
\* pubsub yet there is nothing to close and nothing to resubscribe either.
SubscribeDirectly(c, t, alive) ==
    /\ alive \/ ~opened
    /\ opened' = TRUE
    /\ IssueSubscribe(c, t, subscribed)

\* The listener is not alive: close the current pubsub, losing what it holds.
CloseDead(c, alive) ==
    /\ opened
    /\ ~alive
    /\ subscribed' = {}
    /\ pc' = [pc EXCEPT ![c] = "closing"]
    /\ UNCHANGED <<tracked, opened, snapshot>>

EnsurePubsub(c, t, alive) ==
    /\ topic' = [topic EXCEPT ![c] = t]
    /\ SubscribeDirectly(c, t, alive) \/ CloseDead(c, alive)

\* _subscribed_channels.discard is coupled with pubsub.unsubscribe.
Unsubscribe(c, t) ==
    /\ topic' = [topic EXCEPT ![c] = t]
    /\ tracked' = tracked \ {t}
    /\ subscribed' = subscribed \ {t}
    /\ pc' = [pc EXCEPT ![c] = "unsubscribing"]
    /\ UNCHANGED <<opened, listening, orphans, superseded>>

(***************************************************************************)
(* The for loops.  The rows of the membership query and the keys of the    *)
(* dictionary come in an arbitrary order, and a loop only suspends at a    *)
(* channel that needs a Redis command: the channels handled before it are  *)
(* an arbitrary subset of the others.                                      *)
(***************************************************************************)

AddTo(u, roll, chs) ==
    [ch \in Channel |-> IF ch \in chs THEN roll[ch] \cup {u} ELSE roll[ch]]

\* Mutant: the sweep only drops emptied entries and discards nobody.
RemoveFromNone(u, roll, chs) == roll

RemoveFrom(u, roll, chs) ==
    [ch \in Channel |-> IF ch \in chs THEN roll[ch] \ {u} ELSE roll[ch]]

\* subscribe_to_channel for the channels chs, where the roster is roll and alive
\* says whether the listener runs; with an entry for each of them the endpoint
\* reaches its receive loop.
SubscribeChannels(c, roll, chs, alive) ==
    \/ /\ chs \subseteq channelKeys
       /\ channelUsers' = AddTo(Owner[c], roll, chs)
       /\ pc' = [pc EXCEPT ![c] = "receiving"]
       /\ looping' = looping \cup {c}
       /\ pending' = [pending EXCEPT ![c] = {}]
       /\ UNCHANGED <<channelKeys, tracked, opened, subscribed, topic, snapshot>>
    \/ \E ch \in chs \ channelKeys, before \in SUBSET (chs \cap channelKeys) :
       /\ channelUsers' =
             [AddTo(Owner[c], roll, before) EXCEPT ![ch] = {}]
       /\ channelKeys' = channelKeys \cup {ch}
       /\ pending' = [pending EXCEPT ![c] = chs \ (before \cup {ch})]
       /\ EnsurePubsub(c, ch, alive)
       /\ UNCHANGED looping

\* disconnect's loop over the channels chs: the user is discarded from each,
\* and one left without local users (or already without entry) is dropped.
Sweep(c, chs) ==
    LET u == Owner[c]
        emptied == {ch \in chs : channelUsers[ch] \subseteq {u}}
    IN \/ /\ emptied = {}
          /\ channelUsers' = RemoveFrom(u, channelUsers, chs)
          /\ pc' = [pc EXCEPT ![c] = "gone"]
          /\ pending' = [pending EXCEPT ![c] = {}]
          /\ UNCHANGED <<channelKeys, redis, topic>>
       \/ \E ch \in emptied, before \in SUBSET (chs \ emptied) :
          /\ channelUsers' = RemoveFrom(u, channelUsers, before \cup {ch})
          /\ channelKeys' = channelKeys \ {ch}
          /\ pending' = [pending EXCEPT ![c] = chs \ (before \cup {ch})]
          /\ Unsubscribe(c, ch)

-----------------------------------------------------------------------------
(***************************************************************************)
(* disconnect up to its first await.                                       *)
(***************************************************************************)

BeginDisconnect(c) ==
    LET u == Owner[c]
        left == sockets[u] \ {c}
        last == u \in online /\ left = {}
    IN /\ sockets' = [sockets EXCEPT ![u] = left]
       /\ online' = IF last THEN online \ {u} ELSE online
       /\ pc' = [pc EXCEPT ![c] = IF last THEN "unpresence" ELSE "gone"]

\* An exception leaves the coroutine: the receive loop's finally disconnects,
\* the code before the loop has no handler and leaves everything registered.
Raise(c) ==
    \/ /\ c \in looping
       /\ BeginDisconnect(c)
    \/ /\ c \notin looping
       /\ pc' = [pc EXCEPT ![c] = "crashed"]
       /\ UNCHANGED registry

-----------------------------------------------------------------------------
\* A command to Redis, or a query, whose answer never comes; the connection of
\* the pubsub is another one.
CommandLost ==
    /\ faults < MaxFaults
    /\ faults' = faults + 1

(***************************************************************************)
(* The steps of one endpoint coroutine.                                    *)
(***************************************************************************)

\* The ticket is good and the socket accepted: connect registers it.
Connect(c) ==
    /\ pc[c] = "new"
    /\ sockets' = [sockets EXCEPT ![Owner[c]] = @ \cup {c}]
    /\ online' = online \cup {Owner[c]}
    /\ pc' = [pc EXCEPT ![c] = "presence"]
    /\ UNCHANGED <<roster, redis, presence, looping, topic, pending,
                   snapshot, history>>

\* connect sets the presence key and goes on to the user's own topic.
SetPresence(c) ==
    /\ pc[c] = "presence"
    /\ presence' = presence \cup {Owner[c]}
    /\ EnsurePubsub(c, Owner[c], listening)
    /\ UNCHANGED <<registry, roster, listening, orphans, superseded, looping,
                   pending, history>>

\* Mutant: the new pubsub only gets the topic asked for.
RecreateEmpty(c) ==
    /\ pc[c] = "closing"
    /\ listening' = FALSE
    /\ IssueSubscribe(c, topic[c], {})
    /\ UNCHANGED <<registry, roster, opened, orphans, superseded, presence,
                   looping, topic, pending, history>>

\* _ensure_pubsub after the close: a new pubsub replaces whatever _pubsub is by
\* now.  If that is still the one c closed, a listener started on it meanwhile
\* ends with it; if another coroutine has replaced it, the replacement and its
\* listener are forgotten, never closed.
Recreate(c) ==
    /\ pc[c] = "closing"
    /\ orphans' = IF c \in superseded /\ listening /\ subscribed # {}
                     THEN orphans \cup {subscribed} ELSE orphans
    /\ superseded' = {d \in Conn : d # c /\ pc[d] = "closing"}
    /\ listening' = FALSE
    /\ \/ /\ tracked = {}
          /\ IssueSubscribe(c, topic[c], {})
       \/ \E t \in tracked :
          /\ subscribed' = {t}
          /\ snapshot' = [snapshot EXCEPT ![c] = tracked \ {t}]
          /\ pc' = [pc EXCEPT ![c] = "resubscribing"]
          /\ UNCHANGED tracked
    /\ UNCHANGED <<registry, roster, opened, presence, looping, topic, pending,
                   history>>

\* One turn of the resubscription loop, on whatever _pubsub is by now.
Resubscribe(c) ==
    /\ pc[c] = "resubscribing"
    /\ \/ /\ snapshot[c] = {}
          /\ IssueSubscribe(c, topic[c], subscribed)
       \/ \E t \in snapshot[c] :
          /\ subscribed' = subscribed \cup {t}
          /\ snapshot' = [snapshot EXCEPT ![c] = @ \ {t}]
          /\ UNCHANGED <<tracked, pc>>
    /\ UNCHANGED <<registry, roster, opened, listening, orphans, superseded,
                   presence, looping, topic, pending, history>>

\* connect is done; the endpoint goes on to query the memberships.
UserTopicDone(c) ==
    /\ pc[c] = "subscribing"
    /\ topic[c] \in User
    /\ listening' = TRUE
    /\ pc' = [pc EXCEPT ![c] = "loading"]
    /\ UNCHANGED <<registry, roster, tracked, opened, subscribed, orphans,
                   superseded, presence, looping, topic, pending, snapshot,
                   history>>

\* subscribe_to_channel after its awaits: the user is added to the entry.
ChannelDone(c) ==
    LET roll == AddTo(Owner[c], channelUsers, {topic[c]})
    IN /\ pc[c] = "subscribing"
       /\ topic[c] \in channelKeys
       /\ listening' = TRUE
       /\ \/ /\ c \in looping
             /\ channelUsers' = roll
             /\ pc' = [pc EXCEPT ![c] = "receiving"]
             /\ UNCHANGED <<channelKeys, tracked, opened, subscribed, looping,
                            topic, pending, snapshot>>
          \/ /\ c \notin looping
             /\ SubscribeChannels(c, roll, pending[c], TRUE)
       /\ UNCHANGED <<registry, orphans, superseded, presence, history>>

\* The entry is gone, popped by a disconnect during the awaits: KeyError.
ChannelEntryGone(c) ==
    /\ pc[c] = "subscribing"
    /\ topic[c] \in Channel \ channelKeys
    /\ listening' = TRUE
    /\ Raise(c)
    /\ UNCHANGED <<roster, tracked, opened, subscribed, orphans, superseded,
                   presence, looping, topic, pending, snapshot, history>>

\* The membership query returns and the endpoint subscribes channel by channel.
LoadMembership(c) ==
    /\ pc[c] = "loading"
    /\ SubscribeChannels(c, channelUsers, Members[Owner[c]], listening)
    /\ UNCHANGED <<registry, listening, orphans, superseded, presence,
                   history>>

\* A "subscribe" message for any channel the client names.
ReceiveSubscribe(c, ch) ==
    /\ pc[c] = "receiving"
    /\ \/ /\ ch \in channelKeys
          /\ channelUsers' = AddTo(Owner[c], channelUsers, {ch})
          /\ UNCHANGED <<channelKeys, tracked, opened, subscribed, topic, pc,
                         snapshot>>
       \/ /\ ch \notin channelKeys
          /\ channelUsers' = [channelUsers EXCEPT ![ch] = {}]
          /\ channelKeys' = channelKeys \cup {ch}
          /\ EnsurePubsub(c, ch, listening)
    /\ UNCHANGED <<registry, listening, orphans, superseded, presence, looping,
                   pending, history>>

\* A "presence.update" message: "offline" deletes the key, the rest set it.
ReceivePresence(c) ==
    /\ pc[c] = "receiving"
    /\ \/ presence' = presence \ {Owner[c]}
       \/ presence' = presence \cup {Owner[c]}
    /\ UNCHANGED <<registry, roster, redis, pc, looping, topic, pending,
                   snapshot, history>>

\* A presence command, served or not, or the membership query raises.
CommandFails(c) ==
    /\ CommandLost
    /\ \/ /\ pc[c] \in {"presence", "receiving"}
          /\ presence' \in {presence, presence \cup {Owner[c]}}
       \/ /\ pc[c] = "receiving"
          /\ presence' = presence \ {Owner[c]}
       \/ /\ pc[c] = "loading"
          /\ UNCHANGED presence
    /\ Raise(c)
    /\ UNCHANGED <<roster, redis, looping, topic, pending, snapshot, dropped,
                   skipped, torn>>

\* The client is gone: receive_text raises and the finally clause runs.
Disconnect(c) ==
    /\ pc[c] = "receiving"
    /\ BeginDisconnect(c)
    /\ UNCHANGED <<roster, redis, presence, looping, topic, pending, snapshot,
                   history>>

\* Mutant: the presence key is left to expire.
ClearPresenceKeepingKey(c) ==
    /\ pc[c] = "unpresence"
    /\ skipped' = skipped \ {Owner[c]}
    /\ Unsubscribe(c, Owner[c])
    /\ UNCHANGED <<registry, roster, presence, looping, pending, snapshot,
                   dropped, torn, faults>>

\* disconnect of the last socket deletes the key and leaves the user's topic;
\* the sweep that follows makes up for one an earlier disconnect skipped.
ClearPresence(c) ==
    /\ pc[c] = "unpresence"
    /\ presence' = presence \ {Owner[c]}
    /\ skipped' = skipped \ {Owner[c]}
    /\ Unsubscribe(c, Owner[c])
    /\ UNCHANGED <<registry, roster, looping, pending, snapshot, dropped, torn,
                   faults>>

\* The delete has no handler: when it raises, whether Redis served it or not,
\* disconnect ends there, with no topic left and no channel swept.
ClearPresenceFails(c) ==
    /\ pc[c] = "unpresence"
    /\ CommandLost
    /\ presence' \in {presence, presence \ {Owner[c]}}
    /\ skipped' = skipped \cup {Owner[c]}
    /\ pc' = [pc EXCEPT ![c] = "gone"]
    /\ UNCHANGED <<registry, roster, redis, looping, topic, pending, snapshot,
                   dropped, torn>>

\* After an unsubscribe: start the loop over all entries, or go on with it.
SweepChannels(c) ==
    /\ pc[c] = "unsubscribing"
    /\ Sweep(c, IF topic[c] \in User THEN channelKeys ELSE pending[c])
    /\ UNCHANGED <<registry, presence, looping, snapshot, history>>

-----------------------------------------------------------------------------
(***************************************************************************)
(* The listener and the environment.                                       *)
(***************************************************************************)

\* Topics whose messages some running listener forwards.
Delivered == UNION orphans \cup (IF listening THEN subscribed ELSE {})

\* send_to_user meets a broken socket and discards it, keeping the user's key.
SendFails(c) ==
    /\ c \in sockets[Owner[c]]
    /\ \E t \in Delivered :
          t = Owner[c] \/ (t \in channelKeys /\ Owner[c] \in channelUsers[t])
    /\ sockets' = [sockets EXCEPT ![Owner[c]] = @ \ {c}]
    /\ dropped' = dropped \cup {c}
    /\ UNCHANGED <<online, roster, redis, presence, pc, looping, topic, pending,
                   snapshot, skipped, torn, faults>>

\* listen() returns once the pubsub holds no subscription.
ListenerEnds ==
    /\ listening
    /\ subscribed = {}
    /\ listening' = FALSE
    /\ UNCHANGED <<registry, roster, tracked, opened, subscribed, orphans,
                   superseded, presence, pc, looping, topic, pending, snapshot,
                   history>>

\* The pubsub's connection breaks: its subscriptions are lost, _listen dies.
BreakConnection ==
    /\ opened
    /\ faults < MaxFaults
    /\ faults' = faults + 1
    /\ subscribed' = {}
    /\ listening' = FALSE
    /\ torn' = (torn \/ \E c \in Conn : pc[c] \in Subscribing)
    /\ UNCHANGED <<roster, tracked, opened, orphans, superseded, presence,
                   looping, topic, pending, snapshot, dropped, skipped>>

ConnectionBreaks ==
    /\ BreakConnection
    /\ UNCHANGED <<registry, pc>>

\* The break is noticed by a coroutine awaiting its subscribe, which raises.
SubscribeFails(c) ==
    /\ pc[c] \in Subscribing
    /\ BreakConnection
    /\ Raise(c)

\* The presence key is set for 300 seconds and never refreshed.
PresenceExpires(u) ==
    /\ u \in presence
    /\ presence' = presence \ {u}
    /\ UNCHANGED <<registry, roster, redis, pc, looping, topic, pending,
                   snapshot, history>>

Endpoint(c) ==
    \/ Connect(c)
    \/ SetPresence(c)
    \/ Recreate(c)
    \/ Resubscribe(c)
    \/ UserTopicDone(c)
    \/ ChannelDone(c)
    \/ ChannelEntryGone(c)
    \/ LoadMembership(c)
    \/ \E ch \in Channel : ReceiveSubscribe(c, ch)
    \/ ReceivePresence(c)
    \/ Disconnect(c)
    \/ CommandFails(c)
    \/ ClearPresence(c)
    \/ ClearPresenceFails(c)
    \/ SweepChannels(c)
    \/ SendFails(c)
    \/ SubscribeFails(c)

Next ==
    \/ \E c \in Conn : Endpoint(c)
    \/ \E u \in User : PresenceExpires(u)
    \/ ListenerEnds
    \/ ConnectionBreaks

Spec == Init /\ [][Next]_vars

-----------------------------------------------------------------------------
(***************************************************************************)
(* Properties.                                                             *)
(***************************************************************************)

\* A socket whose coroutine has begun to disconnect is registered no more, so
\* send_to_user never writes to it, whatever the other coroutines do.
NoGhostSocket ==
    \A c \in Conn : pc[c] \in Leaving => c \notin sockets[Owner[c]]

\* Coroutine c will still sweep user Owner[c] out of channel ch, or is one of
\* the two known ways of never doing so: it is registered (a crashed one for
\* ever), or was dropped by a failed send.
Answers(c, ch) ==
    \/ c \in sockets[Owner[c]]
    \/ c \in dropped
    \/ pc[c] = "unpresence"
    \/ pc[c] = "unsubscribing" /\ (topic[c] \in User \/ ch \in pending[c])

\* A user listed in _channel_users always has a coroutine that answers for the
\* entry: disconnecting, in any interleaving with the other sockets of the same
\* user, leaves nobody behind unless a send failed, an endpoint crashed, or the
\* user's last disconnect raised and no later one has swept.
LeftoverHasCause ==
    \A ch \in Channel : \A u \in channelUsers[ch] :
        \/ u \in skipped
        \/ \E c \in Conn : Owner[c] = u /\ Answers(c, ch)

\* The same for the presence key: a user shown online has a registered socket,
\* or a disconnect about to delete the key, or a socket dropped by a failed
\* send, or a disconnect whose delete raised.
PresenceHasCause ==
    \A u \in presence :
        \/ u \in skipped
        \/ \E c \in Conn :
              /\ Owner[c] = u
              /\ \/ c \in sockets[u]
                 \/ c \in dropped
                 \/ pc[c] = "unpresence"

\* Somebody is about to subscribe topic t on the current pubsub, or nobody
\* listens and the next coroutine to subscribe will rebuild everything.
Recovering(t) ==
    \/ \E c \in Conn : pc[c] = "closing"
    \/ \E c \in Conn : pc[c] = "resubscribing" /\ t \in snapshot[c]
    \/ ~listening /\ \A c \in Conn : pc[c] \notin Subscribing

\* No tracked topic is ever forgotten by the recovery of the pubsub: however
\* the coroutines that find the listener dead race to replace it, each tracked
\* topic is subscribed or will be, unless the connection breaks once more while
\* a subscription is in progress.
TrackedIsServed ==
    torn \/ \A t \in tracked : t \in subscribed \/ Recovering(t)

\* The endpoint promises to "Subscribe to all channels the user is a member of":
\* a registered socket in its receive loop gets the messages of the user's
\* channels from this instance.
MembershipSubscribed ==
    \A c \in Conn :
        pc[c] = "receiving" /\ c \in sockets[Owner[c]] =>
            \A ch \in Members[Owner[c]] : Owner[c] \in channelUsers[ch]
=============================================================================
