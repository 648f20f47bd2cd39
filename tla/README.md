# Verification of d3chat

d3chat is an end-to-end encrypted, federated chat: a FastAPI backend (async
SQLAlchemy on PostgreSQL, Redis for pub/sub and short-lived state) and a React
frontend that keeps its keys in IndexedDB. This directory holds TLA+ models of the
parts whose correctness depends on *order*: coroutines of one event loop that
suspend at every `await`, transactions at READ COMMITTED, tabs that share storage,
messages pushed while requests are under way, servers that relay to one another.
Every definition is translated from the source; `PROJECT.json` ("map") names the
lines each one stands for. Paths below are relative to the repository.

## 1. Inventory

| Component | State | Operations | Interaction | What is hard |
|---|---|---|---|---|
| WebSocket connection manager (`backend/app/websocket/`) | registered sockets, users per channel, tracked topics, one pub/sub connection, its listener task, presence keys | connect, subscribe, disconnect, rebuild of the connection, fan-out | one coroutine per socket, all sharing one object; Redis pub/sub | every await is a scheduling point; no lock; a broken connection is rebuilt by whoever notices |
| Sessions (`routers/auth.py`, `admin.py`, `devices.py`, `frontend/src/api/client.ts`, `store/authStore.ts`) | `sessions` rows with the hash of a rotating refresh token; flags of users; tokens in a tab's memory and in localStorage | login, refresh, logout, logout-all, device revocation, ban, suspension | HTTP; the tab's automatic refresh on 401 | check-then-write in separate statements; parallel 401s; stale copies of tokens |
| Group encryption (`frontend/src/crypto/`, `chatStore.ts`, `useWebSocket.ts`, `routers/keys.py`, `messages.py`) | chain key per device on the server, ratchet positions and plaintext cache in IndexedDB | send, decrypt pushed, load history, distribute and fetch keys | HTTP and WebSocket arrive in any order | a one-way ratchet in non-atomic storage shared by tabs |
| Federation (`backend/app/federation/`, and the routers that relay) | channel, members, messages, keys, records of remote users per server; event ids in Redis | invite, relay of messages and keys; inbox | signed POSTs made inside the open transaction of a local request | timeouts, no retries, deduplication before processing, two databases |
| Channels and DMs (`routers/channels.py`, `chatStore.ts`, `useWebSocket.ts`) | channels, memberships; a tab's list of channels and its socket's subscriptions | create, list, join, leave, delete, add a member, DM | HTTP; `channel.new` over Redis, before the commit | check-then-create; a list that is replaced, appended to and pushed into |
| Chat timeline (`chatStore.ts`, `messages.py`) | list of messages per channel | load page, load more, receive, edit, delete | HTTP and WebSocket | a page replaces what arrived while it was decrypted |
| Pairwise keys, X3DH (`keys.py`, `encrypt.ts`, `x3dh.ts`, `bootstrap.ts`) | bundles, setup record, a device's keys, session key | publish, initiate, respond | HTTP | both sides initiate; interruptions between publishing and saving |
| WebSocket client (`api/ws.ts`, `authStore.ts`, `websocket/router.py`) | socket, timer, shouldReconnect; the endpoint's registration | connect, disconnect, reconnect, events of the socket | ticket request, then socket; the listener forwards to it | one await in `connect`; flags that `connect` and `disconnect` overwrite; loops over sets that change |
| Public configuration (`main.py`, `admin.py`, `brandingStore.ts`) | settings table, Redis cache for 60 s, what a page shows | read, update | database and cache | invalidation before commit |
| Administration (`admin.py`, `main.py`, `auth.py` register) | users' roles, the audit log | promote, delete, update a setting, register, start | database | two superadmins at once; check-then-write |
| Rate limiting (`middleware/rate_limit.py`, `inbox.py`) | counters in Redis | count | Redis | increment and expiry are two commands |
| Attachments (`routers/attachments.py`, `messages.py`, `chatStore.ts`) | files on disk, their rows, the message each belongs to | upload, send with files, delete | HTTP; cascades of deleted messages and channels | a message sent again after a lost answer |
| Avatars, primitives, discovery, UI | files; none; keys; none | | | see section 8 |

What makes each modelled component correct:

- *Connection manager*: nothing is sent to a socket that is gone; whatever a user leaves
  behind in the roster or in presence has somebody who will clean it up, or a failure to
  show for it; a topic that is tracked is subscribed, however connections are rebuilt.
- *Sessions*: a token names one session, is redeemed once, and a session that was revoked
  stays revoked, whatever requests overlap.
- *Sender keys*: no message key is used twice by tabs that take turns; no reader is ahead of
  the writer; readers hold the writer's chain; what was read once is kept, or on its way
  there.
- *Federation*: a message is stored at most once per server and only if its request offered
  it; a remote member has been invited; newer keys are not replaced by older ones; a request
  ends.
- *Pairwise keys*: a device has the private keys that are published for it; whoever reads a
  message derives the key it was sealed with.
- *Timeline*: a message is listed once, as the server has it, and none is lacking.
- *WebSocket client and delivery*: a tab has one live socket, its user's; none after a
  logout; it comes back after any failure; and a socket that is served throughout gets an
  event once.
- *Channels*: two users have one direct channel; a tab lists what its user is a member of,
  once, and its socket is subscribed to what it lists.
- *Attachments*: a message keeps the files it was announced with.
- *Administration*: a superadmin remains; nobody registers while registration is closed; the
  audit log tells what happened.
- *Configuration*: a setting takes effect on the pages, whatever was cached.

## 2. Modules

| Module | Role |
|---|---|
| `ConnectionManager` | one backend instance's sockets, roster, pub/sub connection and presence |
| `ConnectionManagerProofs` | its five theorems |
| `WsClient` | the WebSocket client of one tab, driven by login, logout and reload, and the endpoint that answers it |
| `Delivery` | the listener's loops that forward published events, composed with `WsClient`, which it implements |
| `Sessions` | sessions and refresh tokens, server and browser |
| `SessionsProofs` | its seven theorems |
| `SenderKeys` | the sender keys of one group channel, clients and server |
| `SenderKeysProofs` | its five theorems |
| `FederatedRelay` | abstract: what the relay of a message promises |
| `Federation` | requests that relay, the inbox, Redis; implements `FederatedRelay` |
| `FederationProofs` | its five theorems, the refinement among them |
| `DirectSessions` | publication of keys and the session key of one direct-message channel |
| `DirectSessionsProofs` | its four theorems |
| `ChatTimeline` | the list of messages one tab shows of one channel, and the server's side of it |
| `TabProofs` | what a tab has: the five theorems of `WsClient` and `Delivery`, the four of `ChatTimeline` |
| `Conversations` | channels and memberships, and the list of channels of each user's tab |
| `Attachments` | uploaded files and the messages that take them, composed with `Conversations` |
| `AttachmentsProofs` | the five theorems of both |
| `Administration` | roles, registration, the default superadmin, a setting with its cache, the audit log |
| `AdministrationProofs` | its five theorems |
| `MC...` | the instances TLC checks |

### ConnectionManager

One endpoint coroutine per socket; `pc` is the `await` it is suspended at. A step is
the code between two awaits that reach Redis or the database. Other awaits (a send
to a socket, `accept`) are not scheduling points here. `sockets`/`online` are
`_connections` and its keys, `channelUsers`/`channelKeys` are `_channel_users`,
`tracked` is `_subscribed_channels`, `opened`, `subscribed`, `listening` describe
`_pubsub` and its task, `orphans` are connections a rebuild has abandoned while
their listener still runs. Pub/sub commands of one connection are served in the
order they are issued, so they take effect in the step that issues them.

| Action | Code |
|---|---|
| `Connect`, `SetPresence` | `connect`: register, `setex`, subscribe the user's topic |
| `Recreate`, `Resubscribe` | `_ensure_pubsub`, two awaits of the rebuild |
| `UserTopicDone`, `ChannelDone`, `ChannelEntryGone` | the subscribe is answered; the last one is the KeyError when the channel's entry was popped meanwhile |
| `LoadMembership`, `ReceiveSubscribe`, `ReceivePresence` | the endpoint's query and its loop |
| `Disconnect`, `ClearPresence`, `SweepChannels` | `disconnect` |
| `CommandFails` | a presence command or the membership query raises |
| `ClearPresenceFails` | the delete in `disconnect` (`manager.py:79`) raises, served or not: nothing after it runs |
| `Delivered`, `SendFails`, `ListenerEnds` | the listener |
| `ConnectionBreaks`, `SubscribeFails`, `PresenceExpires` | faults and the 300 s lifetime |

Some races have effects no property can forbid, because the code lets them happen.
Four names stand for them, and the properties are stated up to them: `dropped` (a send
failed and the socket was discarded without cleanup), `skipped` (users whose last
disconnect raised before its sweep, until a later one sweeps), `torn` (the connection was
lost while a subscription was in progress), and `pc = "crashed"` (an endpoint raised
outside its `try`).

### WsClient and Delivery

`WsClient` has the variables of `WebSocketClient` (`ws`, `timer`, `should`), the sockets it
has made (`phase`: the `readyState`, with "cut" for a dead connection the browser has not
noticed), and `call`, the calls of `connect` that wait for a ticket: `connect` suspends only
there, so a step is the code before it (`Connect`), after it (`Answer`, `Refuse`), or one
event handler of a socket (`Opened`, `CloseEnds`, `Noticed`, `Rejected`). `asker` is whose
token a call carries. `Login` is possible over a live session: the pages are routed for
everybody, and `login` replaces the tokens without a `disconnect`. The endpoint of each
socket is `Register`, `Subscribe`, `Unregister`, `Sweep`; its registry (`conns`, `online`,
`roster`) is the manager's, coarser than in `ConnectionManager`: the pub/sub connection
works and everybody is a member of one channel.

`Delivery` adds the listener. `_listen` iterates over the users of a channel and
`send_to_user` over the sockets of a user, and both await a send inside the loop; `loop`
is where they are. `drift` is what became of a set under its loop: the same; changed
("shuffled": if the size is the same Python goes on, and may skip or repeat); or dropped
from its dictionary. `Abort` is the RuntimeError that Python raises for a set of another
size, which ends both loops. A step of anybody else is conjoined with `Aside`, which
keeps these variables up to date.

Histories: `overlapped` (`connect` went on beside another call or a socket that was not
yet open), `strayed` (a call was under way at a logout), `swapped` (another user logged in over
the session, beside a socket or a ticket request of the user before), `steady` (who has been served
ever since a publication), `swayed` (a set changed under its loop).

### Sessions

Rows of the sessions table (`status`, `hash`, `owner`, `expired`), flags of users (`banned`,
`suspension`), what a tab holds (`memory`) and what is in localStorage (`stored`). A request
is a slot in `call` that walks through the stages of `ApiClient.request`/`tryRefresh` (401,
refresh, retry) or of login. A handler that reads and then writes is two steps
(`LoginRead`/`LoginCommit`, `RefreshRead`/`RefreshCommit`, with `RefreshStale` for the
UPDATE that finds its row deleted): the database is at READ COMMITTED. One that only writes
is one step. An answer is sent after the commit and may be lost (`ConnectionFails`,
`AnswerDropped`); section 3 says what that assumes. Time is a choice: `SuspensionElapses`,
`SessionExpires`, and any request may be answered 401 because its access token is over.
`fate` and `raced` are histories that the properties speak of.

### SenderKeys

Per tab the stage of `sendMessage`, of `loadMessages`, and per pushed message the
stage of decrypting it; the store (`ratchet`, `cache`) belongs to the device. A
position is a chain and a number; a ciphertext opens with exactly the chain and
number it was made with. Get and put of one missing key are one step (they are one
statement apart and the put does not overwrite), and so are publish and commit of a
message. `OwnKeyRead`/`OwnKeyRatcheted` are the read and the write of the sender's
chain, between which another tab may read it as well. The reader's are four steps:
the position is read (`PushTried`, `HistoryTried`), the ratcheted one saved
(`PushRatcheted`, `HistoryRatcheted`), the ciphertext opened (`PushOpened`,
`HistoryOpened`), and the message listed (`PushShown`, `HistoryShown`). Nobody waits for
the put of a pushed or sent message's text into the cache: `puts` has those under way,
which land (`PutLands`) before or after the message is shown, fail (`PutFails`), or are
cut short by a reload. The history awaits its puts, and shows a placeholder if one fails.

Histories: `replaced` (devices that uploaded a key over another one whose answer was
lost), `overlapped` (devices two of whose tabs were between the test for a key and the
POST at once), `read` and `unkept` (the texts shown, and the lost puts).

### Federation

Two or more servers and one channel. A local request that relays is in `calls`: it
POSTs to the remote servers of the channel one after the other (`PostEvent`),
waits for each until it is answered or 15 s have passed (`Answered`, `TimesOut`),
ignores what the answer says, and only then commits (`Commit`) or is rolled back
(`InviteUnpublished`, `CallFails`). The inbox marks the event's id in Redis
(`Admit`; `AdmitUnchecked` when Redis is down; `Duplicate`), reads what the handler
needs (`Plan`), and commits (`Handled`) or raises (`Refused`: a row somebody else
has inserted, Redis down when it publishes, any other exception). Rate limiting and
a refused validation look like a lost POST (`PostLost`) to both sides. `failed` and
`undone` are histories for the refinement mapping; `told` is, per server, the remote users
it was told of: whom its own users invited, and who invited when the channel was new to it.

`FederatedRelay` is the promise: per message a request that opens and is kept or
undone, per server and message an offer that is made at most once, while the request
is open, and ends stored or lost. `Federation` defines `RelayedAtMostOnce` as
`FederatedRelay`'s `Spec` under a refinement mapping.

### DirectSessions

`identity`, `preKey` and `session` are what IndexedDB holds per device, `bundle` and `setup`
what the server publishes. A key pair is a generation (`Pair`): the identity key and the
signed pre-key that one run of `bootstrapDeviceKeys` makes. A session key is the record of
what enters the Diffie-Hellman computations, so two sides agree exactly if they used the
same halves; the one that an initiator derives and the one that a responder mirrors are
built from different variables. `boot`, `send` and `reader` are stages. An answer is a step
apart from the use made of it (`BundlesFetched`/`InitiatorDerives`,
`SetupFetched`/`ResponderDerives`). A failing request is `...Fails`, before or after it was
served; `Reload` ends whatever a page was doing, after which the history is read again
through the same code (`Received`, with the plaintext cache, which has kept any of the texts
shown before, for the puts are not awaited). A participant may have several devices:
`BundlesFetched` takes any one of the other's bundles, since the code takes the first and
the query orders none. A request of a page that is gone is not served afterwards. The two
reads of a device's own keys (identity, pre-key) are one step.

### ChatTimeline

The server has `post` (a row and its transaction), `version`, and `changing` (edits
and deletions published but not committed); a message is the rank of its
`created_at`, the start of its transaction, so it may be published and committed
after a later one. The tab has `list`, `exists` (the store has a list for the
channel), `hasMore`, pushed messages in `decrypting`, own ones in `awaited`, and per
slot a load with its stage. `PageShown` replaces the list, `MoreShown` prepends to it,
`AddMessage` appends unless the id is there, `ChangeReceived` edits or removes at
once. `MoreBegins` has the button's condition, and the refusal of a `created_at` that
came with a push: its `+00:00` is put into the URL as it is (`MessageList.tsx:77`,
`chatStore.ts:172`). A change that is published is committed (`ChangeCommitted`) or rolled back
(`ChangeUndone`).

What an entry shows is a version of the text or a placeholder (`Unreadable`). Messages in
`Sealed` are sent encrypted. A pushed one is decrypted, or not; an entry of a page
(`EntryDecrypted`, one after the other, each an await) takes the text that the browser's
cache has under the message's id (`cached`), whatever the row has by now, and decrypts only
if there is none, which fails when the row has the plain text of an edit. `CachePut` is a
put that nobody waits for, of this tab or of another one.

Six histories name what the properties except: `crossed`, `misled`, `late`, `lost`, `raced`,
`outdated`. A message leaves `misled` (its event met no socket, or its change was rolled back)
when a page is read that makes up for it (`Caught`): without that the exception would cover
all of the history. `outdated` has the edited messages of which a page showed the cached text.

### Conversations and Attachments

A request goes through the client's call (`Calls`), the handler, and the answer
(`...Answered`, `Fail`). `create_dm` and `add_member` publish `channel.new` before they
commit, so they are `NewDM` or `AddMember` (rows flushed), `Announce`, and `Commit` or
`Rollback`; the other handlers have nothing between their last check and their commit
that anybody could tell apart and are one step. Inserts of one membership wait for each
other (`RowFree`). Each user has one tab: `list` counts how often a channel is in it,
`inbox` holds `channel.new` on its way, `heard` what its socket is subscribed to.
`CreateAnswered` appends, `LoadAnswered` replaces, `Receive` and `DMAnswered` look
first and subscribe. When a socket drops, its endpoint has yet to sweep its user out
(`closing`). `Sweep` may come after `Reconnect`, and then takes some, all or none of what
the new endpoint has subscribed, of the user's own topic too (`deaf`): the race that
`ConnectionManager_membership` shows step by step. `silent` records the channels.

`Attachments` has files (`upload`, `home`, `link`) and the requests that send a message
with files: `PostMessage` flushes, selects the files that belong to no message and
publishes; `LinkFiles` is the flush of their rows, `CommitMessage` the commit. A request
that failed, or whose answer was lost, is sent once more as plaintext with the same
files (`FailedAs`), unless the rate limit refused it (`LimitMessage`). Deletions cascade
to the rows of the files, not to the disk.

Histories: `overlapped`, `stirred`, `contended` name the overlaps that break uniqueness;
`lost`, `gone`, `silent`, `crossed` say per user what his tab could not know.

### Administration

A superadmin's request selects its actor (`Begin`), then its subject (`ReadUser`,
`ReadSetting`), deletes the cached configuration if it updates a setting
(`Invalidate`), and writes everything at its commit. The database is at READ COMMITTED,
so others commit in between; the ORM writes a column only if it was given another value
than it had read, refuses an UPDATE that finds no row, and lets a DELETE find none. The
entry of the audit log refers to its actor's row, which both lets a commit fail and
protects the actor from deletion. `Start` is the start of the process with
`ensure_default_admin`. A page loads the configuration (`ConfigHit`, or `ConfigRead` and
`ConfigFill`), and `Expire` is the cache's 60 s. The registration mode stands for all
settings: they take the same path, and it is the one that a handler reads.

Histories: `crossed` (requests about whose subject somebody else has committed),
`overlapped` (subjects such a request has then written), `excused` (the cached value may
be older).

## 3. Runs

| Run | Instance | Properties |
|---|---|---|
| `ConnectionManager_reconnect` | alice with two sockets, two channels, two losses of the connection or commands that raise | `TrackedIsServed`, `LeftoverHasCause`, `PresenceHasCause` |
| `ConnectionManager_membership` | alice with two sockets, bob with one, one channel, no loss | violates `MembershipSubscribed` |
| `Delivery_tab` | alice and bob in one tab, in turn or over each other, carol from elsewhere, two sockets, two calls, one event, three deeds, fairness | `DeliveryTypeOK`, `OneLiveSocket`, `QuietAfterLogout`, `DeliveredOnce`, `Reconnects` |
| `Sessions_tab` | one tab, two requests, two rows, three tokens | `RedeemedStaysDead`, `DeadTokenHasCause`, `BannedSessionHasCause`, `RevokedStaysRevoked` |
| `Sessions_logout` | same | violates `LogoutRevokes` |
| `SenderKeys_writer` | one device writes, another reads, two messages, one fault | `TypeOK`, `ReadersNeverAhead`, `ChainsAgree`, `ReadIsCached`, `ReuseHasCause` |
| `SenderKeys_tabs` | two tabs of one device write, two messages, no fault | violates `MessageKeysUnique` |
| `Federation_relay` | two servers, one invite, one message of the inviter, two keys of the guest, one fault, fairness | `TypeOK`, `InvitedOrFailed`, `RelayedAtMostOnce`, `RequestsEnd`, `DropHasCause`, `KeyNeverOlder` |
| `DirectSessions_pair` | two participants, a device and a tab each, three key generations, two handshakes, two messages, two faults | `TypeOK`, `PublishedIsStored`, `HandshakeIsOfSession`, `WrongKeyHasCause` |
| `ChatTimeline_pages` | one encrypted message and one plain, pages of one, two loads in two slots, one change, one fault | `TimelineTypeOK`, `ListedOnce`, `ShownIsCurrent`, `ShownOrReachable` |
| `Attachments_chats` | two users, two channels, two requests, one file, two messages, four deeds | `TypeOK`, `OneDirectChannel`, `ListAgrees`, `HeardHasCause`, `AnnouncedIsLinked` |
| `Administration_roles` | three rows of two usernames, two requests at once, three requests of superadmins, two starts, fairness | `AuditTellsHistory`, `ConfigStaleHasCause`, `SuperadminRemains`, `SettingTakesEffect` |

The type invariants of `ConnectionManager`, `Sessions` and `Administration`, and three
more properties (`NoGhostSocket`, `TokenNamesOneSession`, `RegisteredWhileOpen`), are in
no run any more: they are proved for all constants (section 5).

Why the bounds suffice. The races of the connection manager take two coroutines; two
sockets of one user give the reconnect, and two channels let one rebuild interleave with
another channel's subscribe. That a second user keeps the topic in use was checked too
(three sockets, one channel, no loss: 2.8 million states), and the three properties are
proved for any number.
Two requests in one tab give the parallel 401s, and with the administrator, the device
and the clock every pair of handlers that touches one row; three tokens allow two
rotations. Two messages are the least at which an order can be wrong. In `Federation_relay`
the inviter's message and the guest's keys cross, so that each server may wait for the
other; two keys are the least with an older and a newer one. `DropHasCause` is checked with
two servers, where the founder and his guest are all the members, and was looked at with
three; its proof is for any number.

The sender keys take two tabs for what they share and two devices for what they send each
other. `MessageKeysUnique`, which the docs claim of every device, fails with two tabs of one
(`SenderKeys_tabs`); `ReuseHasCause` says that nothing else breaks it. In
`SenderKeys_writer`, where each device has one tab, its exception never applies, and it is
`MessageKeysUnique` itself; with two tabs and one fault it was checked as well, and it is
proved for any number of tabs. `PublishedIsStored` and `WrongKeyHasCause` are claimed for
devices used in one tab each; that `HandshakeIsOfSession` needs no such hypothesis is what
its proof shows. Three generations let one device publish twice, two handshakes let both
begin or one begin again. `DirectSessions_pair` has no further device, so `Elsewhere`, one
of the causes that `WrongKeyHasCause` names, never applies in it. With a third device, two
handshakes and one message the four properties hold too (3.6 million states, too slow to be
kept as a run); the proof is for any number of devices, and section 4 says what a further
one does.

Pages of one make two messages two pages, and of two loads one can cross the other. Three
loads, the least with which the button is pressed twice, were checked with plain messages
(2.7 million states). So were three messages and two loads, once without faults (14 million
states) and once without changes (1.7 million), before texts and rollbacks were part of the
model; the third message did matter, and showed the last cause that `ShownOrReachable`
names.

`MaxDeeds` is one budget for everything that need not happen, so that a behaviour may
spend it on whatever it needs: in `Delivery` the logins, failed requests, lost
connections, reloads, moves of others and publications, in `Attachments` the calls,
departures, deletions, uploads and failures (the messages are bounded by their set).
Sockets and calls of `connect` are used again once nobody knows them, which is why two
suffice: the second is the one that is opened beside the first. Two accounts are the
least with a next user of the tab. Four deeds let both users make a channel, be told of
it, lose the socket and have a request fail; two channels are the two DMs of one pair.
`Conversations` alone holds with five deeds as well (2.4 million states). In
`Administration` three requests are two that cross and one that comes after, three rows
a superadmin, another user, and a second registration of one name, and two starts a
server that comes up again without a superadmin.

Symmetry is used where the permuted values occur in no distinguishing constant and
the properties are safety properties: rows, tokens, requests of one tab, chains, the tabs
of one device, key generations, the two participants of a direct channel, who do the same, and
users, channels, requests and messages of `Attachments`. Runs with a liveness property
have none.

Deadlock checking is off in all runs: sockets are used once, and messages, rows,
tokens, events and deeds are bounded, so every behaviour of an instance may come to rest.

Commits and answers. The models send an answer after the commit. The commit is the code
after the `yield` of `get_db` (`database.py:42`), and which of the two comes first is
FastAPI's choice: `pyproject.toml` asks for `fastapi>=0.115.0`, and from 0.118 on a
dependency's exit code runs when the answer has been sent. There a client could go on
before its own transaction is committed, or be told of success and lose it. The properties
are claimed for versions before that. What the handlers publish or relay before the commit
does not depend on it, and is modelled.

Fairness. Three specifications assume weak fairness:

- `Federation!FairSpec`: of the steps of the requests taken together. It is what the
  event loop and the `timeout=15.0` of the HTTP client give: a waiting request can always
  take a step of its own (`Answered` or `TimesOut`), it never needs one of another server
  or of Redis. That is why mutual waiting of two servers cannot block, which
  `RequestsEnd` states.
- `Delivery!FairSpec`: of the answer to a ticket request, of the refusal that a request
  without a token always gets, of the timer, of the browser's reports on its sockets and
  of the endpoint's steps. Users, other users, faults and publishers need never act, and
  no request need fail. `Reconnects` is about a tab whose user stays logged in.
- `Administration!FairSpec`: of `Expire`, since `setex` always sets 60 s, and of `Load`,
  since pages are opened again and again; not of any request. `SettingTakesEffect` is
  therefore about a mode that stays.

## 4. Disagreements found

Kept as runs, with the quotation in `PROJECT.json`:

- a user who reconnects while his last socket is being disconnected is swept out of
  his channels (`manager.py:90`);
- a logout after a refresh presents the token of login, and the session survives
  (`authStore.ts:108`);
- two tabs of one device that send at once use one message key twice (`senderKey.ts:82`,
  against `docs/encryption.md:42`).

Seen while modelling, part of the models, and not runs of their own.

Sessions. A refresh token exchanged twice by overlapping refreshes (`auth.py:150`, see
`RefreshRead`); a session committed by a login that overlapped a ban (`raced`); a newer
suspension lifted by a login that had read an older one (`LoginCommit`).

Connections. A disconnect whose `redis_client.delete` raises leaves the user's presence, his
topic and his entries in every channel for good, though he is gone from the registry
(`ClearPresenceFails`, `manager.py:79`; `skipped`). A listener that has ended is rebuilt only
when the next subscription asks for it (`ListenerEnds`, `manager.py:172`): until then those who
are connected hear nothing.

Keys. A message is sealed for one device of the recipient, the first that the server lists:
a further device of either participant derives another key, or none, and cannot read what
is written (`encrypt.ts:113`, against "DM messages are encrypted once per recipient device"
in `docs/encryption.md:32`; `Elsewhere`); a message that was shown and can never be read
again, because the put of its text was cut short by a reload or failed
(`useWebSocket.ts:58`, `chatStore.ts:222`; `unkept`); a plaintext fallback
(`PlaintextPosted`); the echo of an own
message decrypted before its plaintext is cached, although `senderKey.ts:152` expects it
to be (`MessagePosted`, `SendDone`); both participants of a direct channel beginning the
session, each with a key of his own for good (`Contested`); a device interrupted between
`saveIdentityKeyPair` and `saveSignedPreKey`, which `bootstrap.ts:28` takes for "Already
bootstrapped" and which can respond to no handshake (`PreKeySaved`); published keys that
were never saved (`Orphaned`).

Federation. The first message of an invited user can overtake the commit of his
membership at the inviting server and is dropped (`handlers.py:80`, against
`README.md:257`; one of the causes that `DropHasCause` names); a new sender key of a
device taken for a duplicate (`relay.py:119`, `Id`); a repeated invite answered as a
duplicate though the first one failed (`inbox.py:98`); an event let in for want of Redis
and refused for the same reason (`Publishes`); a leave that is never relayed (`Leave`);
members whose messages another server drops for good, because nobody told it of them: an
invite names the inviter and the invited, and the inviter becomes a member only where it
creates the channel (`handlers.py:162`), so that of the members at home the others, and
whoever invites a second time, are strangers there (`Plan`, `told`).

Timeline. History that `has_more` announces and the button does not get, when a push came
before the first page (`MoreBegins`) or when all that was listed has been deleted; older
messages that a push behind the newest has cut off (`late`); messages that nobody asks for after a
lost connection (`misled`); a deleted message that comes back because it was being
decrypted when the deletion came (`raced`); an edited message that a page shows in the text
the cache has from before the edit (`chatStore.ts:76`, `outdated`); an edit or a deletion that
tabs have applied and the server has rolled back (`ChangeUndone`, `misled`).

WebSocket. After a login over a live session the next user goes on with the socket of the
user before, and gets his events (`authStore.ts:90`, `ws.ts:17`; `swapped`, `Inherited`); a
`connect` in flight at a logout opens a socket nevertheless, with which the
next user of the tab goes on (`Answer`, `strayed`); a ticket request that fails after a
logout sets the timer, and then retries for ever without a token (`Refuse`); `onerror`
closes `this.ws`, which may be another socket than its own (`Broken`); a set that changes
size under the listener's loop costs everybody who comes later the event (`Abort`,
`manager.py:159`).

Channels. `createChannel`, `joinChannel` and `loadChannels` never subscribe the socket
(`silent`); nobody is told of a leave or a deletion (`gone`); `channel.new` comes before
the commit, so a channel that is rolled back stays listed, and a list that was read
before the commit removes one that is not (`lost`); one pair can get two DMs, for nothing
in the schema keeps it unique (`overlapped`); a DM can be joined by anybody, and is then
not found (`stirred`). A message whose answer was lost is sent again with files that
already belong to the first, and is announced without them; files outlive their rows.

Administration. Two superadmins who demote each other leave none
(`SuperadminRemains`). `ensure_default_admin` then inserts a user named "admin", and if
somebody has the name, the insert violates `uq_user_domain` and the server does not start
(`Start`; `main.py:48`). The cache is deleted before the commit (`Invalidate`;
`admin.py:602`), and `create_setting` does not delete it at all. A user who is deleted
twice at once is logged twice (`CommitDelete`).

## 5. Proofs

All are checked by TLAPS for any sets of constants, finite or not, that satisfy the named
assumptions of their modules (`ConfigAssumption`, `SessionsAssumption`,
`ClientAssumption` and `DeliveryAssumption`, `SenderKeysAssumption`,
`FederationAssumption`, `DirectSessionsAssumption` with `NoneAssumption`,
`ConversationsAssumption` and `AttachmentsAssumption`, `AdministrationAssumption`). These
say what the constants are, and that a placeholder is none of the values it stands in
for. `DeliveryAssumption` adds that the users and sockets of an instance are finitely many,
for `Delivery` compares the sizes of sets as Python does. `ChatTimelineAssumption` says that
a page holds something and that the bounds are numbers. Nothing else is assumed but, where
the statement says so:

- `OneTabEach`: no device is used in two tabs, in `PublishedAlwaysIsStored` and
  `WrongKeyAlwaysHasCause`. Two tabs of a new device both publish, so that the keys of one
  are published and those of the other stored.

Each theorem has its invariant, which is inductive together with the module's type
invariant.

`ConnectionManagerProofs`

- `TypeInvariant`: `TypeOK` is inductive.
- `TrackedIsAlwaysServed`, with `ServedInv`: type correctness, "nothing is tracked
  before there is a connection", and the property. The second part is needed where
  the first coroutine creates the connection: it snapshots what is tracked.
- `NeverGhostSocket`, `PresenceAlwaysHasCause`, with `RegistryInv`, which adds that a
  coroutine past `connect` and not leaving is registered or was dropped, and that a
  user's entry holds only his own sockets. Without them a disconnect could empty an
  entry while another socket of the same user relied on it.
  A disconnect whose delete raises makes its user `skipped`, which both this property and the
  next one name.
- `LeftoverAlwaysHasCause`, with `LeftoverInv`: `RegistryInv`, "who is listed is
  listed under a key" (a sweep visits keys), and the property. When a socket goes, each
  entry of its user is handed to another socket or to the sweep in progress.

`TabProofs`, of `WsClient` and `Delivery`

- `OneLiveSocketAlways`, `QuietAfterLogoutAlways`, with `ClientInv`, an invariant of
  `WsClient`: without an overlap there is one live socket or one request for a ticket, not
  both (`OneLine`); without a stray call either, the socket is `this.ws`, it is the
  session's and a request carries the session's token unless a login over the session left
  them behind (`swapped`), and without a session nothing is left that could connect, the
  timer included (`Followed`).
- `DeliveryImplementsClient`: the composition implements `WsClient`. What the listener does
  to the registry when a send fails is its `Forget`; everything else it does is a stutter.
  This is how the two theorems above come to hold of `Delivery`.
- `DeliveryTypeInvariant`.
- `DeliveredOnceAlways`, an action property, with `SteadyInv`: as long as no set has
  drifted under the loops, their sizes are what they were when the loops began, and of the
  sockets served since the publication those that were passed have the event once and those
  to come not yet (`Got`). When the loops end, the sizes agree with what was seen, so nobody
  is left.

`TabProofs`, of `ChatTimeline`

- `TimelineTypeInvariant`, with `PagesInv`: a page is in ascending order and older than what
  was asked for, and a load that is not under way holds none.
- `ListedOnceAlways`, with `OnceInv`: without crossed loads one is under way at a time, each
  entry of the list is newer than all before it or `late`, and an older page is asked for
  below all that is listed (`MoreBelow`). So a page that is put in front has nothing in common
  with the list, and a push that is put behind is newer or is recorded.
- `ShownAlwaysCurrent`, with `CurrentInv`. Of a message of none of whose changes the tab was
  misled or which raced none, either the notice of its last change is still in the socket, or
  every copy the tab has, in the list or in a page, has it already and no other copy is to come
  (`CopiesCurrent`); a copy in the text of before an edit is `outdated`, as the cached text that a
  page takes is when the row has been edited. A notice tells what the server has, has under way,
  or has rolled back (`NoticesTrue`), a change under way has its notice before it (`ChangesMade`),
  and the notice of a message precedes those of its changes (`NewFirst`), so that when a deletion
  arrives nothing can bring the message back but what `raced` names. A load that finds out about a
  message takes it off `misled`, and the page it brings is what the server has. Only an encrypted
  message is ever shown as a placeholder (`OthersReadable`).
- `ShownAlwaysReachable`, with `ReachInv`: for each message the server has and each load under
  way, a push will list it, or it is listed, or that load brings it or leaves the button that
  leads to it (`Brought`). Each load alone must promise this, for it may replace the list. It
  rests on `OnceInv`, for an older page must lie below the list, and on `NoticesTrue`, for a
  deletion that arrives must be of a message that is gone.

`SessionsProofs`

- `TypeInvariant`.
- `TokensInvariant`, and from it `TokenAlwaysNamesOneSession`, `RedeemedAlwaysStaysDead`
  and `DeadTokenAlwaysHasCause`: a live row holds an issued token; a token generated
  but not committed is nowhere and no two requests have the same one; a request's
  token belonged to its row; and every token in a browser, or in an answer on its
  way there, has a live row or a fate.
- `RevokedAlwaysStaysRevoked`, an action property; it needs that a row a login is about
  to insert is unused.
- `BannedSessionAlwaysHasCause`, with the invariant that ties `raced` to a login in
  progress.

`SenderKeysProofs`

- `SenderKeysTypeInvariant`, with `TypeInv`: what a stage works with is still what it was
  when the stage began, because the log only grows and a position is never taken away.
- `ReadIsAlwaysCached`, with `ReadInv`: a text that is opened and not yet shown
  (`OpenedKept`), or that a load has and is about to hand over (`ResultKnown`), is in the cache
  of its device, on its way there, or its put was cut short, as that of a text that is shown.
- `ChainsAlwaysAgree`, with `AgreeInv`: every copy of a chain, stored, fetched, or held by
  a tab between its read and its write, is of the chain that the server has, unless the
  device had replaced it.
- `ReuseAlwaysHasCause`, `ReadersAlwaysNeverAhead`, for any number of tabs, with `KeysInv`: a
  chain has one owner (`ChainsOwned`). A device that was never `overlapped` has one tab between
  the test for a key and the POST at a time (`OneTurn`); what that tab has read is what the
  device still has (`OwnKnown`); the messages of the device are in its chain and not past its
  position, and the one that is about to be posted is the first at that position
  (`LogKnown`), because the position is written before the message is posted; and no reader is
  past the owner (`Behind`, `OthersRead`), because it gets there only by a message.

`FederationProofs`, for any number of servers

- `FederationTypeInvariant`, with `TypeInv`: every event on its way, at a handler or undone
  was issued, to a user of the server it came from.
- `FederationImplementsRelay`: `Federation` implements `FederatedRelay` under the mapping
  that `RelayedAtMostOnce` is made of. A request for a message opens (`Begin` is `Open`) and
  is kept (`Commit` is `Keep`) or undone (a rollback is `Undo`); a POST is an `Offer`, a
  commit of its handler is `Store`; a POST that is lost, let in twice, refused or of no
  effect is `Lose`; everything else is a stutter. `RelayInv` has what this needs: the POSTs
  of a request are not made yet, on the wire, at one handler, or on record as failed, one of
  these for each server (`PostsInv`); and a message that is still to be stored somewhere is
  not stored there (`StoredInv`).
- `KeyIsNeverOlder`, an action property, with `KeysInv`: unless the deduplication was
  bypassed, one key of a device is at a server's handlers at a time, and an older one that
  is still on the wire finds its id marked when it arrives. The mark is the one the newer
  key set, since both have the same id: the divergence that loses new keys (section 4) is
  also what keeps old ones from winning.
- `GuestsAlwaysInvited`, with `GuestsInv`: an invite goes to the home of the user it is
  about and is made before its request can be committed, so a member whose home does not
  know the channel has an invite on its way, at a handler, or failed.
- `DropAlwaysHasCause`, an action property, with `ToldInv`: whom a server was told of is a
  member there, or his invite is not committed, or was undone (`ToldListed`); who brings the
  channel in a handler will be a member with it (`ChannelBrings`); and a message is relayed
  only to servers that know the channel or were sent an invite (`MessagesReach`). It was
  claimed for two servers before, and the proof showed what it lacks for more: members that
  a server was not told of.

`DirectSessionsProofs`

- `DirectSessionsTypeInvariant`.
- `PublishedAlwaysIsStored`, assuming `OneTabEach`: `PublishedInv` follows a bootstrap
  through its stages. Until it saves the identity key the device has none (nobody else
  bootstraps it), after the upload the bundle is its own, and the pre-key comes after
  the identity key.
- `HandshakeAlwaysIsOfSession`, for any number of tabs and devices: `HandshakeInv` says that
  a session, or a message sealed with one, goes back to an initiator that has a session
  (`Rooted`), so a second initiator is noticed; while there is one only, the setup that the
  server has is of his session or of the one he is about to save.
- `WrongKeyAlwaysHasCause`, for any number of devices, assuming `OneTabEach`: `WrongKeyInv`
  says that a key pair has one device for ever (`PairsOwned`), that every other session is
  the mirror image of the only initiator's, made with pairs its device still has
  (`Mirrored`), that the initiator's is made for the keys of another device (`ForeignKnown`),
  that a message is sealed with the session of the device it is from (`Sealed`), and that
  whoever has read a message with a wrong key has a session that is not the message's key
  (`WrongKnown`). Then the initiator's was made for pairs that nobody has, or for those of a
  device that is not the reader or not the writer.

`AttachmentsProofs`, of the composition with `Conversations`

- `AttachmentsTypeInvariant`.
- `OneDirectChannelAlways`, with `Pairs`: without an overlap the direct channels of a pair
  and those its requests have flushed are at most one together.
- `ListAgreesAlways`, with `Explained`, `Arriving`, `Covered` and `Twice`: what a tab lists
  was its user's; what was announced to it, or what its user is a member of, is listed, or
  is on its way in a push, an answer or a list under way that already knows of it, or is on
  record as lost; and twice only after `crossed`. A list that is replaced is the hard case:
  it must bring whatever was taken off since it was read.
- `HeardHasCauseAlways`, with `Heard`: what a connected tab lists it hears of, or will when
  the push that is on its way arrives, unless the sweep of a former socket took it away, which
  `silent` records.
- `AnnouncedIsLinkedAlways`, with `FileInv`: a file is taken by one message, or gone, or
  contended.

`AdministrationProofs`

- `TypeInvariant`, `ConfigStaleAlwaysHasCause`, with `AdminInv`: type correctness; a
  request about a user is about another one than its actor (`RequestKnown`); a
  registration under way finds the mode open or is crossed (`LetIn`); between an update's
  deletion of the cache and its commit nothing is cached, or what is has an excuse
  (`WindowKnown`); and the property. `WindowKnown` is what the commit of the update
  needs: the mode it writes may differ from whatever is cached by then.
- `SuperadminAlwaysRemains`, an action property. Only the commit of a promotion or of a
  deletion takes a superadmin's role, and it leaves its actor alone (`RequestKnown`): so
  if none is left, the actor was none any more.
- `RegisteredAlwaysWhileOpen`: nobody is registered while registration is closed, but by
  a request that was under way when it was closed, from `LetIn`.
- `AuditAlwaysTellsHistory`, with `HistoryInv`: a request that nobody has crossed began
  after the last entry about its subject and has read what the subject still is
  (`Uncrossed`), so the entry it writes continues the last one. The log is a set of entries
  with the order of their requests, so no induction over it is needed.

Only model-checked: the liveness properties `RequestsEnd`, `Reconnects` and
`SettingTakesEffect`, which need fairness and ENABLED and are outside TLAPS here. Every other
property of a passing run is proved.

What no proof says: that a page that is asked for can be read. `Ascending` is the set of the
sequences that enumerate a set in ascending order, and every member of it is what the proofs
say; that there is one for each finite set is an induction over data, which the installed
provers cannot do. TLC finds one in every state of the run.

## 6. What the mutants show

Each property of a passing run is broken by one plausible slip in the code, stated as an
operator beside the definition it mutates and marked `Mutant`: a rebuild that forgets
what was tracked, a user's entries that are not swept, a presence key that is kept; a
refresh that does not rotate or that inserts instead of updating, a ban that keeps
sessions; a sender chain saved unratcheted, keys that overwrite positions, an upload that
inserts, a sent message that is not cached; members relayed to instead of their servers,
a POST that is retried, an inbox that does not look at its marker, a handler that takes
guests' messages only, an invite that is not sent; a bundle or a handshake that is
inserted and not replaced, a session key that is not saved; a list that is appended to
without a look, a deletion that is not published, a page that does not look beyond
itself; a `connect` that does not look at its socket, a `disconnect` that leaves the
timer, a timer that connects only once, an exception of a send that is not caught; a DM
that is never looked for, a `channel.new` that is appended unchecked or does not
subscribe, a select without `message_id IS NULL`; an update that leaves the cache, a log
with swapped values, a superadmin who may name himself, a cache without a lifetime.

## 7. Plan

1. `ConnectionManager`, `Sessions`, `Administration`, `SenderKeys`, `Federation` with
`FederatedRelay`, `WsClient` with `Delivery`, `Conversations` with `Attachments`,
`DirectSessions`, `ChatTimeline`: modelled and checked; every safety property of the runs is
proved. 2. To add: properties of the snippets that replies show of an edited message; and
`Delivery` in the place of `ChatTimeline`'s socket, which brings every event once and in
order.

Abstract specifications worth stating besides `FederatedRelay`: a registry of
connected users for the manager, and for the timeline the set of messages the server
has, minus what is in flight.

## 8. Not modelled

- `websocket/router.py` typing events (stateless), and the lookup of a ticket in Redis:
  a ticket is answered or refused, and may have expired (`Rejected`).
- Rate limiting: a counter per address whose expiry is set in a second command. What it
  does to others is modelled: a request it refuses (`LimitMessage`, `PostLost`).
- In `Administration` the other settings and `create_setting`, statistics and lists,
  `update_profile`. Bans and suspensions are in `Sessions`. What deletion of a user does
  to his devices and messages is a cascade.
- In `Conversations` `update_channel` and the lists of members, which change nothing the
  rest depends on. Remote members are `Federation`'s.
- One-time pre-keys: clients discard them, and the server's pop of one from a plain JSON
  column is never written. `SenderKeys` without `loadMoreMessages`; messages of remote
  users in the client; and key rotation, which `docs/encryption.md` describes and no code
  implements.
- Federation: discovery, signatures and key pinning (no state of the events), the
  inbox's rate limit (a lost POST), deletion of channels, and the handlers of events no
  code sends.
- Attachments: thumbnails, downloads and avatars: one file of one user each. Cryptographic
  primitives: injective functions. User interface: presentation.
- Concurrent inserts of one sender key at the server: `KeyUploaded` is one upsert.
