---------------------------- MODULE Conversations ----------------------------
(***************************************************************************)
(* Channels and direct messages (backend app/routers/channels.py, and the  *)
(* administrators' delete_channel of admin.py) and the list of channels    *)
(* that a user's tab keeps of them (frontend store/chatStore.ts, channel.new *)
(* in hooks/useWebSocket.ts).                                              *)
(*                                                                         *)
(* A request is the client's call, the handler's transaction and the       *)
(* answer.  create_dm and add_member publish channel.new before they       *)
(* commit; the two publications of create_dm are one step.  A handler      *)
(* whose last check and commit nothing else can tell apart is one step:    *)
(* an insert that meets a row inserted meanwhile fails as the check does.  *)
(***************************************************************************)
EXTENDS Naturals, FiniteSets

CONSTANTS
    User,      \* each has one tab
    Channel,   \* ids of channels
    Request,
    None,
    MaxDeeds   \* bound: calls, departures, deletions and failures in a behaviour

ASSUME ConversationsAssumption ==
    /\ None \notin User \cup Channel
    /\ MaxDeeds \in Nat

VARIABLES
    kind,       \* what became of each id
    members,    \* the committed rows of channel_members
    request,
    list,       \* channels of the store: how often each is in it
    inbox,      \* channel.new on its way to a tab
    heard,      \* channels the tab's socket is subscribed to
    connected,  \* users whose tab has its socket
    closing,    \* how many endpoints of his have yet to sweep him out
    deaf,       \* users swept out of their own topic since they connected
    overlapped, \* history: a DM was looked for while its twin was being made
    stirred,    \* history: somebody joined or left a DM
    lost,       \* history: channels of a user that his tab was not to hear of
    gone,       \* history: channels a user left, or that were taken from him
    silent,     \* history: channels that a tab came to list without subscribing,
                \* or that it does not hear of because its user was swept out
    crossed,    \* history: users whose own channel was listed before its answer
    deeds

server  == <<kind, members>>
sockets == <<connected, closing, deaf>>
tabs    == <<list, inbox, heard, sockets>>
causes  == <<overlapped, stirred, lost, gone, silent, crossed>>
chatVars == <<server, request, tabs, causes, deeds>>

\* "void": the id was announced and rolled back, or its channel deleted.
Kind == {"none", "room", "dm", "void"}

\* Stages of a request: sent; its rows flushed; announced; answered.
Stage == {"idle", "sent", "open", "told", "done"}

\* view: the channels a list_channels read; since: those that were listed, or
\* announced and not committed, between its read and its answer.
Requests == [stage : Stage, op : {"create", "dm", "add", "join", "load"},
             by : User \cup {None}, ch : Channel \cup {None},
             whom : User \cup {None},
             view : SUBSET Channel, since : SUBSET Channel]

Idle == [stage |-> "idle", op |-> "load", by |-> None, ch |-> None,
         whom |-> None, view |-> {}, since |-> {}]

ChatTypeOK ==
    /\ kind \in [Channel -> Kind]
    /\ members \in [Channel -> SUBSET User]
    /\ request \in [Request -> Requests]
    /\ list \in [User -> [Channel -> 0..2]]
    /\ inbox \in [User -> SUBSET Channel]
    /\ heard \in [User -> SUBSET Channel]
    /\ connected \in SUBSET User
    /\ closing \in [User -> Nat]
    /\ deaf \in SUBSET User
    /\ overlapped \in BOOLEAN
    /\ stirred \in BOOLEAN
    /\ lost \in [User -> SUBSET Channel]
    /\ gone \in [User -> SUBSET Channel]
    /\ silent \in [User -> SUBSET Channel]
    /\ crossed \in SUBSET User
    /\ deeds \in 0..MaxDeeds

ChatInit ==
    /\ kind = [ch \in Channel |-> "none"]
    /\ members = [ch \in Channel |-> {}]
    /\ request = [r \in Request |-> Idle]
    /\ list = [u \in User |-> [ch \in Channel |-> 0]]
    /\ inbox = [u \in User |-> {}]
    /\ heard = [u \in User |-> {}]
    /\ connected = User
    /\ closing = [u \in User |-> 0]
    /\ deaf = {}
    /\ overlapped = FALSE
    /\ stirred = FALSE
    /\ lost = [u \in User |-> {}]
    /\ gone = [u \in User |-> {}]
    /\ silent = [u \in User |-> {}]
    /\ crossed = {}
    /\ deeds = 0

Deed == /\ deeds < MaxDeeds
        /\ deeds' = deeds + 1

\* Requests whose rows are flushed and not committed.
Flushed == {r \in Request : request[r].stage \in {"open", "told"}}

\* Whom the announcement of request q goes to.
Told(q) == IF q.op = "dm" THEN {q.by, q.whom} ELSE {q.whom}

Exists(ch) == kind[ch] \in {"room", "dm"}

\* An id nobody has got from the generator yet.
Unborn(ch) == kind[ch] = "none" /\ \A r \in Flushed : request[r].ch # ch

Mine(u) == {ch \in Channel : u \in members[ch]}

-----------------------------------------------------------------------------
(***************************************************************************)
(* The calls of the store                                                  *)
(***************************************************************************)

Call(r, u, op, ch, v) ==
    /\ request[r] = Idle
    /\ Deed
    /\ request' = [request EXCEPT ![r] =
          [Idle EXCEPT !.stage = "sent", !.op = op, !.by = u, !.ch = ch, !.whom = v]]
    /\ UNCHANGED <<server, tabs, causes>>

Calls(r, u) ==
    \/ Call(r, u, "create", None, None)
    \/ Call(r, u, "load", None, None)
    \/ \E v \in User \ {u} : Call(r, u, "dm", None, v)
    \/ \E ch \in Channel : Exists(ch) /\ Call(r, u, "join", ch, None)
    \/ \E ch \in Channel, v \in User \ {u} :
          list[u][ch] > 0 /\ Call(r, u, "add", ch, v)

-----------------------------------------------------------------------------
(***************************************************************************)
(* The handlers                                                            *)
(***************************************************************************)

Reaches(r, op) == request[r].stage = "sent" /\ request[r].op = op

Becomes(r, st) == request' = [request EXCEPT ![r].stage = st]

\* The handler raises; the call of the store rejects.
Rejects(r) ==
    /\ request' = [request EXCEPT ![r] = Idle]
    /\ UNCHANGED <<server, tabs, causes, deeds>>

CreateChannel(r, ch) ==
    /\ Reaches(r, "create")
    /\ Unborn(ch)
    /\ kind' = [kind EXCEPT ![ch] = "room"]
    /\ members' = [members EXCEPT ![ch] = {request[r].by}]
    /\ request' = [request EXCEPT ![r].stage = "done", ![r].ch = ch]
    /\ UNCHANGED <<tabs, causes, deeds>>

ListChannels(r) ==
    LET u == request[r].by
    IN /\ Reaches(r, "load")
       /\ request' = [request EXCEPT
             ![r].stage = "done", ![r].view = Mine(u),
             ![r].since = {request[q].ch : q \in {p \in Flushed : u \in Told(request[p])}}]
       /\ UNCHANGED <<server, tabs, causes, deeds>>

\* An insert waits for an uncommitted one of the same row.
RowFree(ch, u) ==
    \A q \in Flushed : request[q].op = "add" => request[q].ch # ch \/ request[q].whom # u

\* join_channel; joinChannel of the store then loads the list.
JoinChannel(r) ==
    LET u == request[r].by  ch == request[r].ch
    IN /\ Reaches(r, "join")
       /\ RowFree(ch, u)
       /\ IF Exists(ch)
          THEN /\ members' = [members EXCEPT ![ch] = @ \cup {u}]
               /\ gone' = [gone EXCEPT ![u] = @ \ {ch}]
               /\ stirred' = (stirred \/ (kind[ch] = "dm" /\ u \notin members[ch]))
               /\ silent' = [silent EXCEPT ![u] = @ \cup ({ch} \ heard[u])]
               /\ request' = [request EXCEPT ![r].op = "load"]
               /\ UNCHANGED <<kind, tabs, overlapped, lost, crossed, deeds>>
          ELSE Rejects(r)

\* add_member up to its flush
AddMember(r) ==
    LET u == request[r].by  ch == request[r].ch  v == request[r].whom
    IN /\ Reaches(r, "add")
       /\ RowFree(ch, v)
       /\ IF kind[ch] = "room" /\ u \in members[ch] /\ v \notin members[ch]
          THEN /\ Becomes(r, "open")
               /\ UNCHANGED <<server, tabs, causes, deeds>>
          ELSE Rejects(r)

\* The DMs of exactly u and v
Direct(u, v) == {ch \in Channel : kind[ch] = "dm" /\ members[ch] = {u, v}}

\* Some other request is about to commit a DM of u and v.
Twin(r, u, v) ==
    \E q \in Flushed \ {r} : request[q].op = "dm" /\ Told(request[q]) = {u, v}

\* Mutant: the set of members is compared with the other user only.
NewDMAlways(r, ch) ==
    LET u == request[r].by  v == request[r].whom
    IN /\ Reaches(r, "dm")
       /\ Unborn(ch)
       /\ request' = [request EXCEPT ![r].stage = "open", ![r].ch = ch]
       /\ overlapped' = (overlapped \/ Twin(r, u, v))
       /\ UNCHANGED <<server, tabs, stirred, lost, gone, silent, crossed, deeds>>

\* create_dm up to its last flush, when it finds no DM ...
NewDM(r, ch) ==
    LET u == request[r].by  v == request[r].whom
    IN /\ Reaches(r, "dm")
       /\ Direct(u, v) = {}
       /\ Unborn(ch)
       /\ request' = [request EXCEPT ![r].stage = "open", ![r].ch = ch]
       /\ overlapped' = (overlapped \/ Twin(r, u, v))
       /\ UNCHANGED <<server, tabs, stirred, lost, gone, silent, crossed, deeds>>

\* ... and when it finds one.
FindDM(r, ch) ==
    /\ Reaches(r, "dm")
    /\ ch \in Direct(request[r].by, request[r].whom)
    /\ request' = [request EXCEPT ![r].stage = "done", ![r].ch = ch]
    /\ UNCHANGED <<server, tabs, causes, deeds>>

\* channel.new to everybody concerned; a tab without socket misses it, and one
\* whose user was swept out of his topic.
Announce(r) ==
    LET q == request[r]  reached == Told(q) \cap (connected \ deaf)
    IN /\ q.stage = "open"
       /\ Becomes(r, "told")
       /\ inbox' = [u \in User |-> IF u \in reached
                                   THEN inbox[u] \cup {q.ch} ELSE inbox[u]]
       /\ lost' = [u \in User |-> IF u \in Told(q) \ reached
                                  THEN lost[u] \cup {q.ch} ELSE lost[u]]
       /\ silent' = [u \in User |-> IF u \in Told(q) \cap deaf
                                    THEN silent[u] \cup {q.ch} ELSE silent[u]]
       /\ UNCHANGED <<server, list, heard, sockets,
                      overlapped, stirred, gone, crossed, deeds>>

Commit(r) ==
    LET q == request[r]
    IN /\ q.stage = "told"
       /\ Becomes(r, "done")
       /\ kind' = IF q.op = "dm" THEN [kind EXCEPT ![q.ch] = "dm"] ELSE kind
       /\ members' = [members EXCEPT ![q.ch] = @ \cup Told(q)]
       /\ gone' = [u \in User |-> IF u \in Told(q) THEN gone[u] \ {q.ch} ELSE gone[u]]
       /\ UNCHANGED <<tabs, overlapped, stirred, lost, silent, crossed, deeds>>

\* The transaction fails, after its announcement or before.
Rollback(r) ==
    LET q == request[r]
    IN /\ r \in Flushed
       /\ Deed
       /\ request' = [request EXCEPT ![r] = Idle]
       /\ kind' = IF q.op = "dm" /\ q.stage = "told"
                  THEN [kind EXCEPT ![q.ch] = "void"] ELSE kind
       /\ gone' = [u \in User |-> IF u \in Told(q) THEN gone[u] \cup {q.ch} ELSE gone[u]]
       /\ UNCHANGED <<members, tabs, overlapped, stirred, lost, silent, crossed>>

\* leave_channel, called from elsewhere: no part of the frontend calls it.
Leave(u, ch) ==
    /\ u \in members[ch]
    /\ Deed
    /\ members' = [members EXCEPT ![ch] = @ \ {u}]
    /\ gone' = [gone EXCEPT ![u] = @ \cup {ch}]
    /\ stirred' = (stirred \/ kind[ch] = "dm")
    /\ UNCHANGED <<kind, request, tabs, overlapped, lost, silent, crossed>>

\* delete_channel, by an administrator or an owner; nobody is told.  A flushed
\* member holds the channel's row.
DeleteChannel(ch) ==
    /\ Exists(ch)
    /\ \A r \in Flushed : request[r].ch # ch
    /\ Deed
    /\ kind' = [kind EXCEPT ![ch] = "void"]
    /\ members' = [members EXCEPT ![ch] = {}]
    /\ gone' = [u \in User |-> IF u \in members[ch] THEN gone[u] \cup {ch} ELSE gone[u]]
    /\ UNCHANGED <<request, tabs, overlapped, stirred, lost, silent, crossed>>

-----------------------------------------------------------------------------
(***************************************************************************)
(* The tabs                                                                *)
(***************************************************************************)

\* The channels chs were listed by the tab of u: what its lists that are on
\* their way may overwrite, and what its own creations will list again.
Noted(u, chs, requests) ==
    [r \in Request |->
        IF requests[r].by = u /\ requests[r].op = "load" /\ requests[r].stage = "done"
        THEN [requests[r] EXCEPT !.since = @ \cup chs] ELSE requests[r]]

Crossing(u, chs) ==
    crossed \cup {v \in {u} : \E r \in Request :
                     /\ request[r].by = u
                     /\ request[r].op = "create"
                     /\ request[r].stage = "done"
                     /\ request[r].ch \in chs}

Append1(u, ch) == [list EXCEPT ![u][ch] = IF @ = 0 THEN 1 ELSE 2]

\* The answer of createChannel is appended; the socket is not subscribed.
CreateAnswered(r) ==
    LET u == request[r].by  ch == request[r].ch
    IN /\ request[r].stage = "done"
       /\ request[r].op = "create"
       /\ list' = Append1(u, ch)
       /\ request' = Noted(u, {ch}, [request EXCEPT ![r] = Idle])
       /\ lost' = [lost EXCEPT ![u] = @ \ {ch}]
       /\ silent' = [silent EXCEPT ![u] = @ \cup ({ch} \ heard[u])]
       /\ UNCHANGED <<server, inbox, heard, sockets, overlapped, stirred, gone,
                      crossed, deeds>>

\* Mutant: the socket is not subscribed.
ListOnly(u, ch) ==
    /\ list' = [list EXCEPT ![u][ch] = IF @ = 0 THEN 1 ELSE @]
    /\ lost' = [lost EXCEPT ![u] = @ \ {ch}]
    /\ crossed' = Crossing(u, {ch})
    /\ UNCHANGED <<heard, silent>>

\* A channel is listed once and its socket subscribed: by channel.new, and by
\* the answer of createDM, which cannot subscribe without a socket.
ListAndSubscribe(u, ch) ==
    /\ list' = [list EXCEPT ![u][ch] = IF @ = 0 THEN 1 ELSE @]
    /\ heard' = IF u \in connected THEN [heard EXCEPT ![u] = @ \cup {ch}] ELSE heard
    /\ lost' = [lost EXCEPT ![u] = @ \ {ch}]
    /\ silent' = IF u \in connected THEN [silent EXCEPT ![u] = @ \ {ch}] ELSE silent
    /\ crossed' = Crossing(u, {ch})

DMAnswered(r) ==
    LET u == request[r].by  ch == request[r].ch
    IN /\ request[r].stage = "done"
       /\ request[r].op = "dm"
       /\ ListAndSubscribe(u, ch)
       /\ request' = Noted(u, {ch}, [request EXCEPT ![r] = Idle])
       /\ UNCHANGED <<server, inbox, sockets, overlapped, stirred, gone, deeds>>

\* Mutant: the list is appended to without looking whether it has the channel.
ReceiveAlways(u, ch) ==
    /\ ch \in inbox[u]
    /\ inbox' = [inbox EXCEPT ![u] = @ \ {ch}]
    /\ list' = Append1(u, ch)
    /\ heard' = [heard EXCEPT ![u] = @ \cup {ch}]
    /\ request' = Noted(u, {ch}, request)
    /\ UNCHANGED <<server, sockets, overlapped, stirred, gone, lost, silent,
                   crossed, deeds>>

Receive(u, ch) ==
    /\ ch \in inbox[u]
    /\ inbox' = [inbox EXCEPT ![u] = @ \ {ch}]
    /\ ListAndSubscribe(u, ch)
    /\ request' = Noted(u, {ch}, request)
    /\ UNCHANGED <<server, sockets, overlapped, stirred, gone, deeds>>

\* addMember then loads the members, which are not modelled.
AddAnswered(r) ==
    /\ request[r].stage = "done"
    /\ request[r].op = "add"
    /\ request' = [request EXCEPT ![r] = Idle]
    /\ UNCHANGED <<server, tabs, causes, deeds>>

\* loadChannels replaces the list.
LoadAnswered(r) ==
    LET u == request[r].by  view == request[r].view
    IN /\ request[r].stage = "done"
       /\ request[r].op = "load"
       /\ list' = [list EXCEPT ![u] = [ch \in Channel |-> IF ch \in view THEN 1 ELSE 0]]
       /\ request' = Noted(u, view, [request EXCEPT ![r] = Idle])
       /\ lost' = [lost EXCEPT ![u] = (@ \cup request[r].since) \ view]
       /\ silent' = [silent EXCEPT ![u] = @ \cup (view \ heard[u])]
       /\ crossed' = Crossing(u, view)
       /\ UNCHANGED <<server, inbox, heard, sockets, overlapped, stirred, gone, deeds>>

\* A request or its answer is lost.
Fail(r) ==
    LET q == request[r]
    IN /\ q.stage \in {"sent", "done"}
       /\ Deed
       /\ request' = [request EXCEPT ![r] = Idle]
       /\ lost' = IF q.op = "add" \/ q.ch = None THEN lost
                  ELSE [lost EXCEPT ![q.by] = @ \cup {q.ch}]
       /\ UNCHANGED <<server, tabs, overlapped, stirred, gone, silent, crossed>>

\* The tab's socket drops; its endpoint has yet to sweep the user out.
Disconnect(u) ==
    /\ u \in connected
    /\ Deed
    /\ connected' = connected \ {u}
    /\ closing' = [closing EXCEPT ![u] = @ + 1]
    /\ lost' = [lost EXCEPT ![u] = @ \cup inbox[u]]
    /\ inbox' = [inbox EXCEPT ![u] = {}]
    /\ heard' = [heard EXCEPT ![u] = {}]
    /\ UNCHANGED <<server, request, list, deaf, overlapped, stirred, gone, silent,
                   crossed>>

\* The endpoint subscribes the new socket to the channels the user is a member
\* of by now; the store loads nothing.
Reconnect(u) ==
    /\ u \notin connected
    /\ connected' = connected \cup {u}
    /\ deaf' = deaf \ {u}
    /\ heard' = [heard EXCEPT ![u] = Mine(u)]
    /\ silent' = [silent EXCEPT ![u] =
          {request[r].ch : r \in {q \in Flushed : u \in Told(request[q])}}]
    /\ UNCHANGED <<server, request, list, inbox, closing, overlapped, stirred, lost,
                   gone, crossed, deeds>>

\* A former socket's endpoint sweeps the user out of the channels chs, and out
\* of his own topic when topic is TRUE.  It awaits Redis all along: when he has
\* connected again it takes some, all or none of what the new endpoint did.
Sweep(u, chs, topic) ==
    /\ closing[u] > 0
    /\ chs \subseteq heard[u]
    /\ topic => u \in connected
    /\ closing' = [closing EXCEPT ![u] = @ - 1]
    /\ deaf' = IF topic THEN deaf \cup {u} ELSE deaf
    /\ heard' = [heard EXCEPT ![u] = @ \ chs]
    /\ silent' = [silent EXCEPT ![u] = @ \cup chs]
    /\ UNCHANGED <<server, request, list, inbox, connected, overlapped, stirred, lost,
                   gone, crossed, deeds>>

-----------------------------------------------------------------------------
ChatStep ==
    \/ \E r \in Request :
          \/ \E u \in User : Calls(r, u)
          \/ \E ch \in Channel : \/ CreateChannel(r, ch)
                                 \/ NewDM(r, ch)
                                 \/ FindDM(r, ch)
          \/ ListChannels(r)
          \/ JoinChannel(r)
          \/ AddMember(r)
          \/ Announce(r)
          \/ Commit(r)
          \/ Rollback(r)
          \/ CreateAnswered(r)
          \/ DMAnswered(r)
          \/ AddAnswered(r)
          \/ LoadAnswered(r)
          \/ Fail(r)
    \/ \E u \in User, ch \in Channel : Receive(u, ch) \/ Leave(u, ch)
    \/ \E u \in User : \/ Disconnect(u)
                       \/ Reconnect(u)
                       \/ \E chs \in SUBSET Channel, topic \in BOOLEAN :
                             Sweep(u, chs, topic)

ChatNext == ChatStep \/ \E ch \in Channel : DeleteChannel(ch)

ChatSpec == ChatInit /\ [][ChatNext]_chatVars

-----------------------------------------------------------------------------
(***************************************************************************)
(* Two users have one direct channel, in which both write, unless both     *)
(* looked for it before either had made it (nothing in the schema keeps    *)
(* the pair unique), or somebody left or joined a DM: join_channel admits  *)
(* a third user, and then create_dm does not find it.                      *)
(***************************************************************************)
OneDirectChannel ==
    \A u, v \in User :
        u # v => overlapped \/ stirred \/ Cardinality(Direct(u, v)) <= 1

\* Nothing that concerns the list of u is under way.
AtRest(u) ==
    /\ inbox[u] = {}
    /\ \A r \in Request : u \notin {request[r].by, request[r].whom}

(***************************************************************************)
(* A tab lists the channels its user is a member of, each once.  Otherwise *)
(* he left or the channel was deleted (nobody is told), or its             *)
(* announcement was rolled back; or its announcement or answer met no      *)
(* socket, or a list read before it was committed replaced one that had    *)
(* it; or it was listed before the answer of its creation came.            *)
(***************************************************************************)
ListAgrees ==
    \A u \in User, ch \in Channel :
        AtRest(u) =>
            \/ list[u][ch] = IF u \in members[ch] THEN 1 ELSE 0
            \/ list[u][ch] = 0 /\ ch \in lost[u]
            \/ list[u][ch] > 0 /\ ch \in gone[u]
            \/ list[u][ch] = 2 /\ u \in crossed

(***************************************************************************)
(* A connected tab's socket is subscribed to the channels of its user that *)
(* it lists.  Otherwise he created or joined the channel or the tab loaded *)
(* its list, none of which subscribes, or it connected again between the   *)
(* announcement and the commit, or before the endpoint of its former       *)
(* socket had swept the user out, of the channel or of his own topic.      *)
(***************************************************************************)
HeardHasCause ==
    \A u \in connected, ch \in Channel :
        AtRest(u) /\ u \in members[ch] /\ list[u][ch] > 0 =>
            ch \in heard[u] \cup silent[u]
==============================================================================
