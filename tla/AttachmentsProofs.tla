-------------------------- MODULE AttachmentsProofs --------------------------
(***************************************************************************)
(* Proofs about channels, the tabs' lists of them and the files sent with  *)
(* messages, for any users, channels, requests, files and messages.        *)
(***************************************************************************)
EXTENDS Attachments, FiniteSetTheorems, TLAPS

\* What a request carries at each stage.
Formed(q) ==
    /\ q.stage = "idle" => q = Idle
    /\ q.stage # "idle" => q.by \in User
    /\ q.stage # "idle" /\ q.op \in {"dm", "add"} => q.whom \in User
    /\ q.stage # "idle" /\ q.op \in {"add", "join"} => q.ch \in Channel
    /\ q.stage \in {"open", "told", "done"} /\ q.op \in {"create", "dm"} => q.ch \in Channel
    /\ q.stage \in {"open", "told"} => q.op \in {"dm", "add"}
    /\ q.stage = "sent" /\ q.op \in {"create", "dm"} => q.ch = None
    /\ q.op = "join" => q.stage = "sent"

RequestsFormed == \A r \in Request : Formed(request[r])

\* A channel has members while it exists; the ids of flushed DMs are their own,
\* and a flushed member holds the room.
Rooms ==
    /\ \A ch \in Channel : kind[ch] \in {"none", "void"} => members[ch] = {}
    /\ \A r \in Flushed :
          kind[request[r].ch] = IF request[r].op = "dm" THEN "none" ELSE "room"
    /\ \A r, q \in Flushed :
          /\ request[r].op = "dm" /\ request[q].op = "dm"
          /\ request[r].ch = request[q].ch
          => r = q

\* A pair has one DM, or one that is about to be committed.
Pairs ==
    ~overlapped /\ ~stirred =>
        /\ \A u, v \in User : \A c, d \in Direct(u, v) : c = d
        /\ \A r \in Flushed, u, v \in User :
              request[r].op = "dm" /\ Told(request[r]) = {u, v} => Direct(u, v) = {}
        /\ \A r, q \in Flushed :
              /\ request[r].op = "dm" /\ request[q].op = "dm"
              /\ Told(request[r]) = Told(request[q])
              => r = q

\* The answer of request q lists channel ch in the tab of u.
Lists(q, u, ch) ==
    /\ q.by = u /\ q.stage = "done"
    /\ \/ q.op \in {"create", "dm"} /\ q.ch = ch
       \/ q.op = "load" /\ ch \in q.view

\* Request q has announced ch to u and is not committed.
Comes(q, u, ch) == q.stage = "told" /\ u \in Told(q) /\ q.ch = ch

Coming(u, ch) == \E q \in Request : Comes(request[q], u, ch)

Announced(ch) == \E u \in User : Coming(u, ch)

\* Request q has created ch for u, and the answer is on its way.
Created(q, u, ch) == q.by = u /\ q.op = "create" /\ q.stage = "done" /\ q.ch = ch

\* Nobody knows of an id before it is announced or committed.
Fresh ==
    /\ \A ch \in Channel : kind[ch] = "none" /\ ~Announced(ch) =>
          \A u \in User : /\ list[u][ch] = 0
                          /\ ch \notin inbox[u]
                          /\ \A r \in Request : ~Lists(request[r], u, ch)
    /\ \A r, q \in Request, u, v \in User, ch \in Channel :
          Created(request[r], u, ch) /\ Created(request[q], v, ch) => r = q

\* What a tab lists, or will list, was its user's.
Known(u, ch) ==
    \/ list[u][ch] > 0
    \/ ch \in inbox[u]
    \/ \E r \in Request : Lists(request[r], u, ch)

Explained ==
    \A u \in User, ch \in Channel :
        Known(u, ch) => u \in members[ch] \/ Coming(u, ch) \/ ch \in gone[u]

\* Request q is u's, about ch, and its answer will list ch.
Brings(q, u, ch) ==
    /\ q.by = u /\ q.ch = ch
    /\ \/ q.op \in {"create", "dm"} /\ q.stage = "done"
       \/ q.op = "load" /\ q.stage = "sent"
       \/ q.op = "load" /\ q.stage = "done" /\ ch \in q.view

Reads(q, u) == q.by = u /\ q.op = "load" /\ q.stage = "done"

\* What was announced to a user is in the list, or on its way there, or known to
\* be lost; and a list of his that is on its way knows of it.
Arriving ==
    \A u \in User, ch \in Channel : Coming(u, ch) /\ ch \notin inbox[u] \cup lost[u] =>
        /\ list[u][ch] > 0
        /\ \A r \in Request : Reads(request[r], u) => ch \in request[r].since

\* The same of what a user is a member of, which his requests may bring too.
Covered ==
    \A u \in User, ch \in Channel :
        /\ u \in members[ch]
        /\ ch \notin inbox[u] \cup lost[u]
        /\ \A r \in Request : ~Brings(request[r], u, ch)
        => /\ list[u][ch] > 0
           /\ \A r \in Request : Reads(request[r], u) =>
                 ch \in request[r].view \cup request[r].since

\* A channel is listed twice only if its creator's tab had it before the answer.
Twice ==
    \A u \in User, ch \in Channel :
        /\ list[u][ch] = 2 => u \in crossed
        /\ \A r \in Request :
              Created(request[r], u, ch) /\ list[u][ch] > 0 => u \in crossed

\* A connected tab hears of what it lists, or will when the announcement comes.
Heard ==
    \A u \in User, ch \in Channel :
        /\ u \in connected
        /\ u \in members[ch] \/ Coming(u, ch)
        /\ list[u][ch] > 0
        => ch \in heard[u] \cup silent[u] \cup inbox[u]

ChatInv ==
    /\ ChatTypeOK /\ RequestsFormed
    /\ Rooms /\ Pairs
    /\ Fresh /\ Explained /\ Arriving /\ Covered /\ Twice /\ Heard

\* The files a message has taken are saved, or gone since; two that took the same
\* contended for it.
Taking == {m \in Message : send[m].stage \in {"told", "linked", "committed"}}

Taken1 ==
    /\ \A m \in Message : \A f \in send[m].taken : upload[f] \in {"saved", "gone"}
    /\ \A m, n \in Taking : \A f \in send[m].taken \cap send[n].taken :
          m # n /\ upload[f] = "saved" => f \in contended

-----------------------------------------------------------------------------
(***************************************************************************)
(* Channels and tabs: the types, and what requests carry.                  *)
(***************************************************************************)
Typed == ChatTypeOK /\ RequestsFormed

LEMMA IdleFormed == Idle \in Requests /\ Formed(Idle)
  BY DEF Idle, Requests, Stage, Formed

LEMMA TypedStarts == ChatInit => Typed
<1> SUFFICES ASSUME ChatInit PROVE Typed
  OBVIOUS
<1>1. request \in [Request -> Requests] /\ RequestsFormed
  BY IdleFormed DEF ChatInit, RequestsFormed
<1>2. kind \in [Channel -> Kind] /\ list \in [User -> [Channel -> 0..2]]
  BY DEF ChatInit, Kind
<1>3. deeds \in 0..MaxDeeds
  BY ConversationsAssumption DEF ChatInit
<1>4. overlapped \in BOOLEAN /\ stirred \in BOOLEAN
  BY DEF ChatInit
<1>5. /\ members \in [Channel -> SUBSET User] /\ inbox \in [User -> SUBSET Channel]
      /\ connected \in SUBSET User /\ heard \in [User -> SUBSET Channel]
      /\ closing \in [User -> Nat] /\ deaf \in SUBSET User
      /\ lost \in [User -> SUBSET Channel] /\ gone \in [User -> SUBSET Channel]
      /\ silent \in [User -> SUBSET Channel] /\ crossed \in SUBSET User
  BY DEF ChatInit
<1> QED
  BY <1>1, <1>2, <1>3, <1>4, <1>5 DEF Typed, ChatTypeOK

\* A request is begun, changed as given, or over.
LEMMA RequestTyped ==
    ASSUME Typed, NEW r \in Request, NEW q \in Requests, Formed(q),
           request' = [request EXCEPT ![r] = q]
    PROVE  request' \in [Request -> Requests] /\ RequestsFormed'
  BY DEF Typed, ChatTypeOK, RequestsFormed

\* What the lists of a user that are on their way learn keeps the types.
LEMMA NotedTyped ==
    ASSUME Typed, NEW r \in Request, NEW u, NEW chs \in SUBSET Channel,
           request' = Noted(u, chs, [request EXCEPT ![r] = Idle])
    PROVE  request' \in [Request -> Requests] /\ RequestsFormed'
<1> DEFINE base == [request EXCEPT ![r] = Idle]
<1>1. base \in [Request -> Requests] /\ \A q \in Request : Formed(base[q])
  BY IdleFormed DEF Typed, ChatTypeOK, RequestsFormed
<1> HIDE DEF base
<1>2. ASSUME NEW q \in Request
      PROVE  request'[q] \in Requests /\ Formed(request'[q])
  <2>1. \/ request'[q] = base[q]
        \/ /\ base[q].stage = "done" /\ base[q].op = "load"
           /\ request'[q] = [base[q] EXCEPT !.since = @ \cup chs]
    BY <1>1 DEF Noted, base
  <2>2. base[q] \in Requests /\ Formed(base[q])
    BY <1>1
  <2>3. CASE /\ base[q].stage = "done" /\ base[q].op = "load"
             /\ request'[q] = [base[q] EXCEPT !.since = @ \cup chs]
    <3> DEFINE new == [base[q] EXCEPT !.since = @ \cup chs]
    <3>1. /\ new \in Requests /\ new.stage = "done" /\ new.op = "load"
          /\ new.by = base[q].by
      BY <2>2, <2>3 DEF Requests
    <3> QED
      BY <2>2, <2>3, <3>1 DEF Formed
  <2> QED
    BY <2>1, <2>2, <2>3
<1>3. request' = [q \in Request |-> request'[q]]
  BY DEF Noted
<1> QED
  BY <1>2, <1>3 DEF RequestsFormed

\* A handler, or the end of a request, leaves a request that is well-formed.
LEMMA RequestsTyped ==
    ASSUME Typed, NEW r \in Request,
           \/ \E u \in User : Calls(r, u)
           \/ \E ch \in Channel : CreateChannel(r, ch) \/ NewDM(r, ch) \/ FindDM(r, ch)
           \/ ListChannels(r) \/ JoinChannel(r) \/ AddMember(r)
           \/ Announce(r) \/ Commit(r) \/ Rollback(r)
           \/ AddAnswered(r) \/ Fail(r)
    PROVE  request' \in [Request -> Requests] /\ RequestsFormed'
<1> DEFINE q == request[r]
<1>1. q \in Requests /\ Formed(q)
  BY DEF Typed, ChatTypeOK, RequestsFormed
<1>2. ASSUME NEW u \in User, NEW op, NEW ch, NEW v, Call(r, u, op, ch, v),
             \/ op \in {"create", "load"} /\ ch = None /\ v = None
             \/ op = "dm" /\ ch = None /\ v \in User
             \/ op = "join" /\ ch \in Channel /\ v = None
             \/ op = "add" /\ ch \in Channel /\ v \in User
      PROVE  request' \in [Request -> Requests] /\ RequestsFormed'
  <2> DEFINE new == [Idle EXCEPT !.stage = "sent", !.op = op, !.by = u, !.ch = ch, !.whom = v]
  <2>1. new \in Requests
    BY <1>2 DEF Idle, Requests, Stage
  <2>2. new.stage = "sent" /\ new.op = op /\ new.by = u /\ new.ch = ch /\ new.whom = v
    BY DEF Idle
  <2>3. request' = [request EXCEPT ![r] = new]
    BY <1>2 DEF Call
  <2> HIDE DEF new
  <2>4. Formed(new)
    BY <1>2, <2>2 DEF Formed
  <2> QED
    BY <2>1, <2>3, <2>4, RequestTyped
<1>3. ASSUME NEW u \in User, Calls(r, u)
      PROVE  request' \in [Request -> Requests] /\ RequestsFormed'
  BY <1>2, <1>3 DEF Calls
<1>4. CASE \/ Rollback(r) \/ AddAnswered(r) \/ Fail(r)
           \/ /\ JoinChannel(r) \/ AddMember(r)
              /\ Rejects(r)
  BY <1>4, IdleFormed, RequestTyped DEF Rollback, AddAnswered, Fail, Rejects
<1>5. ASSUME NEW ch \in Channel, CreateChannel(r, ch) \/ FindDM(r, ch)
      PROVE  request' \in [Request -> Requests] /\ RequestsFormed'
  <2> DEFINE new == [q EXCEPT !.stage = "done", !.ch = ch]
  <2>1. request' = [request EXCEPT ![r] = new] /\ q.op \in {"create", "dm"} /\ q.stage = "sent"
    BY <1>5 DEF CreateChannel, FindDM, Reaches, Typed, ChatTypeOK
  <2>2. /\ new \in Requests /\ new.stage = "done" /\ new.ch = ch /\ new.op = q.op
        /\ new.by = q.by /\ new.whom = q.whom
    BY <1>1 DEF Requests, Stage
  <2> HIDE DEF new, q
  <2>3. Formed(new)
    BY <1>1, <2>1, <2>2 DEF Formed
  <2> QED
    BY <2>1, <2>2, <2>3, RequestTyped
<1>6. ASSUME NEW ch \in Channel, NewDM(r, ch)
      PROVE  request' \in [Request -> Requests] /\ RequestsFormed'
  <2> DEFINE new == [q EXCEPT !.stage = "open", !.ch = ch]
  <2>1. request' = [request EXCEPT ![r] = new] /\ q.op = "dm" /\ q.stage = "sent"
    BY <1>6 DEF NewDM, Reaches, Typed, ChatTypeOK
  <2>2. /\ new \in Requests /\ new.stage = "open" /\ new.ch = ch /\ new.op = q.op
        /\ new.by = q.by /\ new.whom = q.whom
    BY <1>1 DEF Requests, Stage
  <2> HIDE DEF new, q
  <2>3. Formed(new)
    BY <1>1, <2>1, <2>2 DEF Formed
  <2> QED
    BY <2>1, <2>2, <2>3, RequestTyped
<1>7. ASSUME NEW st \in Stage, request' = [request EXCEPT ![r].stage = st],
             \/ q.stage = "sent" /\ q.op = "add" /\ st = "open"
             \/ q.stage = "open" /\ st = "told"
             \/ q.stage = "told" /\ st = "done"
      PROVE  request' \in [Request -> Requests] /\ RequestsFormed'
  <2> DEFINE new == [q EXCEPT !.stage = st]
  <2>1. request' = [request EXCEPT ![r] = new]
    BY <1>7
  <2>2. /\ new \in Requests /\ new.stage = st /\ new.ch = q.ch /\ new.op = q.op
        /\ new.by = q.by /\ new.whom = q.whom
    BY <1>1 DEF Requests, Stage
  <2> HIDE DEF new, q
  <2>3. Formed(new)
    BY <1>1, <1>7, <2>2 DEF Formed
  <2> QED
    BY <2>1, <2>2, <2>3, RequestTyped
<1>8. CASE \/ Announce(r) \/ Commit(r)
           \/ AddMember(r) /\ ~Rejects(r)
  BY <1>7, <1>8 DEF Announce, Commit, AddMember, Becomes, Reaches, Stage
<1>9. CASE JoinChannel(r) /\ ~Rejects(r)
  <2> DEFINE new == [q EXCEPT !.op = "load"]
  <2>1. request' = [request EXCEPT ![r] = new] /\ q.stage = "sent"
    BY <1>9 DEF JoinChannel, Reaches
  <2>2. new \in Requests /\ new.stage = "sent" /\ new.op = "load" /\ new.by = q.by
    BY <1>1, <2>1 DEF Requests
  <2> HIDE DEF new, q
  <2>3. Formed(new)
    BY <1>1, <2>1, <2>2 DEF Formed
  <2> QED
    BY <2>1, <2>2, <2>3, RequestTyped
<1>10. CASE ListChannels(r)
  <2> DEFINE since == {request[p].ch : p \in {p \in Flushed : q.by \in Told(request[p])}}
             new == [q EXCEPT !.stage = "done", !.view = Mine(q.by), !.since = since]
  <2>1. request' = [request EXCEPT ![r] = new] /\ q.stage = "sent" /\ q.op = "load"
    BY <1>10 DEF ListChannels, Reaches
  <2>2. since \subseteq Channel
    BY DEF Flushed, Typed, RequestsFormed, Formed
  <2>3. Mine(q.by) \subseteq Channel
    BY DEF Mine
  <2> HIDE DEF since
  <2>4. new \in Requests /\ new.stage = "done" /\ new.op = "load" /\ new.by = q.by
    BY <1>1, <2>1, <2>2, <2>3 DEF Requests, Stage
  <2> HIDE DEF new, q
  <2>5. Formed(new)
    BY <1>1, <2>1, <2>4 DEF Formed
  <2> QED
    BY <2>1, <2>4, <2>5, RequestTyped
<1>11. CASE JoinChannel(r) \/ AddMember(r)
  BY <1>4, <1>8, <1>9, <1>11
<1>12. CASE \E ch \in Channel : CreateChannel(r, ch) \/ NewDM(r, ch) \/ FindDM(r, ch)
  BY <1>5, <1>6, <1>12
<1>13. CASE Rollback(r) \/ AddAnswered(r) \/ Fail(r)
  BY <1>4, <1>13
<1>14. CASE Announce(r) \/ Commit(r)
  BY <1>8, <1>14
<1>15. CASE \E u \in User : Calls(r, u)
  BY <1>3, <1>15
<1> QED
  BY <1>10, <1>11, <1>12, <1>13, <1>14, <1>15

\* How a step changes the requests: those other than r stay.
Apart(r) == \A q \in Request : q # r => request'[q] = request[q]

\* r goes on with stage st, operation op and channel ch.
Moves(r, st, op, ch) ==
    /\ Apart(r)
    /\ request'[r].stage = st /\ request'[r].op = op /\ request'[r].ch = ch
    /\ request'[r].by = request[r].by /\ request'[r].whom = request[r].whom

Ends(r) == Apart(r) /\ request'[r] = Idle

\* The lists of u that are on their way learn of chs.
Learns(q, u, chs) ==
    /\ request'[q].stage = request[q].stage /\ request'[q].op = request[q].op
    /\ request'[q].by = request[q].by /\ request'[q].ch = request[q].ch
    /\ request'[q].whom = request[q].whom /\ request'[q].view = request[q].view
    /\ request[q].since \subseteq request'[q].since
    /\ Reads(request[q], u) => chs \subseteq request'[q].since

LEMMA Called ==
    ASSUME Typed, NEW r \in Request, NEW u \in User, Calls(r, u)
    PROVE  /\ Apart(r) /\ request[r] = Idle /\ request'[r].stage = "sent"
           /\ request'[r].op = "load" => request'[r].ch = None
<1>1. PICK op, ch, v : /\ Call(r, u, op, ch, v)
                       /\ op = "load" => ch = None
  BY DEF Calls
<1> QED
  BY <1>1 DEF Call, Apart, Idle, Typed, ChatTypeOK

LEMMA Moved ==
    ASSUME Typed, NEW r \in Request
    PROVE  /\ \A ch \in Channel : CreateChannel(r, ch) => Moves(r, "done", "create", ch)
           /\ \A ch \in Channel : NewDM(r, ch) => Moves(r, "open", "dm", ch)
           /\ \A ch \in Channel : FindDM(r, ch) => Moves(r, "done", "dm", ch)
           /\ AddMember(r) => Moves(r, "open", "add", request[r].ch) \/ Ends(r)
           /\ JoinChannel(r) => \/ Exists(request[r].ch) /\ Moves(r, "sent", "load", request[r].ch)
                                \/ Ends(r)
           /\ Announce(r) => Moves(r, "told", request[r].op, request[r].ch)
           /\ Commit(r) => Moves(r, "done", request[r].op, request[r].ch)
           /\ Rollback(r) \/ AddAnswered(r) \/ Fail(r) => Ends(r)
<1>1. request \in [Request -> Requests] /\ request[r] \in Requests
  BY DEF Typed, ChatTypeOK
<1>2. ASSUME NEW st, request' = [request EXCEPT ![r].stage = st]
      PROVE  Moves(r, st, request[r].op, request[r].ch)
  BY <1>1, <1>2 DEF Moves, Apart, Requests
<1>3. ASSUME NEW st, NEW ch, request' = [request EXCEPT ![r].stage = st, ![r].ch = ch]
      PROVE  Moves(r, st, request[r].op, ch)
  BY <1>1, <1>3 DEF Moves, Apart, Requests
<1>4. ASSUME NEW op, request' = [request EXCEPT ![r].op = op]
      PROVE  Moves(r, request[r].stage, op, request[r].ch)
  BY <1>1, <1>4 DEF Moves, Apart, Requests
<1>5. ASSUME request' = [request EXCEPT ![r] = Idle] PROVE Ends(r)
  BY <1>1, <1>5 DEF Ends, Apart
<1>6. ASSUME NEW ch \in Channel
      PROVE  /\ CreateChannel(r, ch) => Moves(r, "done", "create", ch)
             /\ NewDM(r, ch) => Moves(r, "open", "dm", ch)
             /\ FindDM(r, ch) => Moves(r, "done", "dm", ch)
  BY <1>3 DEF CreateChannel, NewDM, FindDM, Reaches
<1>7. AddMember(r) => Moves(r, "open", "add", request[r].ch) \/ Ends(r)
  BY <1>2, <1>5 DEF AddMember, Reaches, Becomes, Rejects
<1>8. JoinChannel(r) => \/ Exists(request[r].ch) /\ Moves(r, "sent", "load", request[r].ch)
                        \/ Ends(r)
  BY <1>4, <1>5 DEF JoinChannel, Reaches, Rejects
<1>9. /\ Announce(r) => Moves(r, "told", request[r].op, request[r].ch)
      /\ Commit(r) => Moves(r, "done", request[r].op, request[r].ch)
  BY <1>2 DEF Announce, Commit, Becomes
<1>10. Rollback(r) \/ AddAnswered(r) \/ Fail(r) => Ends(r)
  BY <1>5 DEF Rollback, AddAnswered, Fail
<1> QED
  BY <1>6, <1>7, <1>8, <1>9, <1>10

LEMMA Listed ==
    ASSUME Typed, NEW r \in Request, ListChannels(r)
    PROVE  /\ Moves(r, "done", "load", request[r].ch)
           /\ request'[r].view = Mine(request[r].by)
           /\ request'[r].since =
                 {request[q].ch : q \in {p \in Flushed : request[r].by \in Told(request[p])}}
<1> DEFINE since == {request[p].ch : p \in {p \in Flushed : request[r].by \in Told(request[p])}}
           view == Mine(request[r].by)
<1>1. /\ request' = [request EXCEPT ![r].stage = "done", ![r].view = view, ![r].since = since]
      /\ request[r].op = "load"
  BY DEF ListChannels, Reaches
<1> HIDE DEF since, view
<1>2. request \in [Request -> Requests] /\ request[r] \in Requests
  BY DEF Typed, ChatTypeOK
<1>3. Moves(r, "done", "load", request[r].ch) /\ request'[r].view = view /\ request'[r].since = since
  BY <1>1, <1>2 DEF Moves, Apart, Requests
<1> QED
  BY <1>3 DEF since, view

LEMMA Learnt ==
    ASSUME Typed, NEW r \in Request, NEW u, NEW chs,
           request' = Noted(u, chs, [request EXCEPT ![r] = Idle])
    PROVE  /\ request'[r] = Idle
           /\ \A q \in Request : q # r => Learns(q, u, chs)
<1> DEFINE base == [request EXCEPT ![r] = Idle]
<1>1. request \in [Request -> Requests]
  BY DEF Typed, ChatTypeOK
<1>2. base[r] = Idle /\ \A q \in Request : q # r => base[q] = request[q]
  BY <1>1
<1>3. request' = Noted(u, chs, base)
  OBVIOUS
<1> HIDE DEF base
<1>4. request'[r] = Idle
  <2>1. base[r].stage # "done"
    BY <1>2 DEF Idle
  <2> QED
    BY <1>2, <1>3, <2>1 DEF Noted
<1>5. ASSUME NEW q \in Request, q # r PROVE Learns(q, u, chs)
  <2>1. request[q] \in Requests
    BY <1>1
  <2>2. request'[q] = IF Reads(request[q], u)
                      THEN [request[q] EXCEPT !.since = @ \cup chs] ELSE request[q]
    BY <1>2, <1>3, <1>5 DEF Noted, Reads
  <2>3. CASE Reads(request[q], u)
    BY ZenonT(60), <2>1, <2>2, <2>3 DEF Learns, Requests
  <2>4. CASE ~Reads(request[q], u)
    BY <2>2, <2>4 DEF Learns
  <2> QED
    BY <2>3, <2>4
<1> QED
  BY <1>4, <1>5

\* channel.new ends no request.
LEMMA LearntAll ==
    ASSUME Typed, NEW u, NEW chs, request' = Noted(u, chs, request)
    PROVE  \A q \in Request : Learns(q, u, chs)
<1> SUFFICES ASSUME NEW q \in Request PROVE Learns(q, u, chs)
  OBVIOUS
<1>1. request[q] \in Requests
  BY DEF Typed, ChatTypeOK
<1>2. request'[q] = IF Reads(request[q], u)
                    THEN [request[q] EXCEPT !.since = @ \cup chs] ELSE request[q]
  BY DEF Noted, Reads
<1>3. CASE Reads(request[q], u)
  BY <1>1, <1>2, <1>3 DEF Learns, Requests
<1>4. CASE ~Reads(request[q], u)
  BY <1>2, <1>4 DEF Learns
<1> QED
  BY <1>3, <1>4

\* What the answer of a request and channel.new do to the tab of u.
LEMMA AnswerTyped ==
    ASSUME Typed, NEW r \in Request, CreateAnswered(r) \/ DMAnswered(r) \/ LoadAnswered(r)
    PROVE  /\ request[r].by \in User /\ request[r].view \subseteq Channel
           /\ request[r].since \subseteq Channel
           /\ request[r].op # "load" => request[r].ch \in Channel
           /\ request' \in [Request -> Requests] /\ RequestsFormed'
<1>1. request[r] \in Requests /\ Formed(request[r])
  BY DEF Typed, ChatTypeOK, RequestsFormed
<1>2. /\ request[r].by \in User /\ request[r].view \subseteq Channel
      /\ request[r].since \subseteq Channel
      /\ request[r].op # "load" => request[r].ch \in Channel
  BY <1>1 DEF CreateAnswered, DMAnswered, LoadAnswered, Formed, Requests
<1>3. \E chs \in SUBSET Channel :
        request' = Noted(request[r].by, chs, [request EXCEPT ![r] = Idle])
  BY <1>2 DEF CreateAnswered, DMAnswered, LoadAnswered
<1> QED
  BY <1>2, <1>3, NotedTyped

LEMMA ListTyped ==
    ASSUME ChatTypeOK, NEW u \in User, NEW ch \in Channel
    PROVE  /\ Append1(u, ch) \in [User -> [Channel -> 0..2]]
           /\ [list EXCEPT ![u][ch] = IF @ = 0 THEN 1 ELSE @] \in [User -> [Channel -> 0..2]]
<1>1. list \in [User -> [Channel -> 0..2]] /\ list[u] \in [Channel -> 0..2]
  BY DEF ChatTypeOK
<1>2. list[u][ch] \in 0..2 /\ 1 \in 0..2 /\ 2 \in 0..2
  BY <1>1
<1> QED
  BY <1>1, <1>2 DEF Append1

\* What happens to the channels and the tabs: elsewhere, only deeds go on.
Elsewhere == UNCHANGED <<server, request, tabs, causes>> /\ deeds' \in 0..MaxDeeds

ChatMove == ChatStep \/ (\E ch \in Channel : DeleteChannel(ch)) \/ Elsewhere

LEMMA TabsTyped ==
    ASSUME Typed,
           \/ \E r \in Request : CreateAnswered(r) \/ DMAnswered(r) \/ LoadAnswered(r)
           \/ \E u \in User, ch \in Channel : Receive(u, ch)
    PROVE  Typed'
<1> USE DEF Typed
<1>1. ASSUME NEW r \in Request, CreateAnswered(r) PROVE Typed'
  <2>1. request[r].by \in User /\ request[r].ch \in Channel
    BY <1>1, AnswerTyped DEF CreateAnswered
  <2>2. list' \in [User -> [Channel -> 0..2]] /\ request' \in [Request -> Requests] /\ RequestsFormed'
    BY <1>1, <2>1, ListTyped, AnswerTyped DEF CreateAnswered
  <2>3. lost' \in [User -> SUBSET Channel] /\ silent' \in [User -> SUBSET Channel]
    BY <1>1, <2>1 DEF CreateAnswered, ChatTypeOK
  <2> QED
    BY <1>1, <2>2, <2>3 DEF CreateAnswered, ChatTypeOK, server, sockets
<1>2. ASSUME NEW u \in User, NEW ch \in Channel, ListAndSubscribe(u, ch)
      PROVE  /\ list' \in [User -> [Channel -> 0..2]] /\ heard' \in [User -> SUBSET Channel]
             /\ lost' \in [User -> SUBSET Channel] /\ silent' \in [User -> SUBSET Channel]
             /\ crossed' \in SUBSET User
  <2>1. list' \in [User -> [Channel -> 0..2]]
    BY <1>2, ListTyped DEF ListAndSubscribe
  <2>2. heard' \in [User -> SUBSET Channel] /\ silent' \in [User -> SUBSET Channel]
    BY <1>2 DEF ListAndSubscribe, ChatTypeOK
  <2>3. lost' \in [User -> SUBSET Channel] /\ crossed' \in SUBSET User
    BY <1>2 DEF ListAndSubscribe, Crossing, ChatTypeOK
  <2> QED
    BY <2>1, <2>2, <2>3
<1>3. ASSUME NEW r \in Request, DMAnswered(r) PROVE Typed'
  <2>1. request[r].by \in User /\ request[r].ch \in Channel
    BY <1>3, AnswerTyped DEF DMAnswered
  <2>2. request' \in [Request -> Requests] /\ RequestsFormed'
    BY <1>3, AnswerTyped
  <2> QED
    BY <1>2, <1>3, <2>1, <2>2 DEF DMAnswered, ChatTypeOK, server, sockets
<1>4. ASSUME NEW r \in Request, LoadAnswered(r) PROVE Typed'
  <2>1. /\ request[r].by \in User /\ request[r].view \subseteq Channel
        /\ request[r].since \subseteq Channel
        /\ request' \in [Request -> Requests] /\ RequestsFormed'
    BY <1>4, AnswerTyped
  <2>2. list' \in [User -> [Channel -> 0..2]]
    <3>1. [ch \in Channel |-> IF ch \in request[r].view THEN 1 ELSE 0] \in [Channel -> 0..2]
      OBVIOUS
    <3> QED
      BY <1>4, <2>1, <3>1 DEF LoadAnswered, ChatTypeOK
  <2>3. /\ lost' \in [User -> SUBSET Channel] /\ silent' \in [User -> SUBSET Channel]
        /\ crossed' \in SUBSET User
    BY <1>4, <2>1 DEF LoadAnswered, Crossing, ChatTypeOK
  <2> QED
    BY <1>4, <2>1, <2>2, <2>3 DEF LoadAnswered, ChatTypeOK, server, sockets
<1>5. ASSUME NEW u \in User, NEW ch \in Channel, Receive(u, ch) PROVE Typed'
  <2>1. request' \in [Request -> Requests] /\ RequestsFormed'
    <3>1. request' = Noted(u, {ch}, request)
      BY <1>5 DEF Receive
    <3>2. ASSUME NEW q \in Request PROVE request'[q] \in Requests /\ Formed(request'[q])
      <4>1. request[q] \in Requests /\ Formed(request[q])
        BY DEF ChatTypeOK, RequestsFormed
      <4>2. CASE ~Reads(request[q], u)
        BY <3>1, <4>1, <4>2 DEF Noted, Reads
      <4>3. CASE Reads(request[q], u)
        <5> DEFINE new == [request[q] EXCEPT !.since = @ \cup {ch}]
        <5>1. request'[q] = new
          BY <3>1, <4>3 DEF Noted, Reads
        <5>2. /\ new \in Requests /\ new.stage = "done" /\ new.op = "load"
              /\ new.by = request[q].by
          BY <4>1, <4>3 DEF Requests, Reads
        <5> QED
          BY <4>1, <4>3, <5>1, <5>2 DEF Formed, Reads
      <4> QED
        BY <4>2, <4>3
    <3>3. request' = [q \in Request |-> request'[q]]
      BY <3>1 DEF Noted
    <3> QED
      BY <3>2, <3>3 DEF RequestsFormed
  <2>2. inbox' \in [User -> SUBSET Channel]
    BY <1>5 DEF Receive, ChatTypeOK
  <2> QED
    BY <1>2, <1>5, <2>1, <2>2 DEF Receive, ChatTypeOK, server, sockets
<1> QED
  BY <1>1, <1>3, <1>4, <1>5

LEMMA TypedStep ==
    ASSUME Typed, ChatMove PROVE Typed'
<1> USE DEF Typed
<1>1. CASE Elsewhere
  BY <1>1 DEF Elsewhere, ChatTypeOK, RequestsFormed, server, tabs, sockets, causes
<1>2. CASE \/ \E r \in Request : CreateAnswered(r) \/ DMAnswered(r) \/ LoadAnswered(r)
           \/ \E u \in User, ch \in Channel : Receive(u, ch)
  BY <1>2, TabsTyped
<1>3. ASSUME Deed PROVE deeds' \in 0..MaxDeeds
  BY <1>3, ConversationsAssumption DEF Deed, ChatTypeOK
<1>4. ASSUME NEW ch \in Channel, DeleteChannel(ch) PROVE Typed'
  <2>1. kind' \in [Channel -> Kind]
    BY <1>4 DEF DeleteChannel, ChatTypeOK, Kind
  <2>2. members' \in [Channel -> SUBSET User]
    BY <1>4 DEF DeleteChannel, ChatTypeOK
  <2>3. gone' \in [User -> SUBSET Channel]
    BY <1>4 DEF DeleteChannel, ChatTypeOK
  <2>4. Deed /\ UNCHANGED <<request, tabs, overlapped, stirred, lost, silent, crossed>>
    BY <1>4 DEF DeleteChannel
  <2> QED
    BY <1>3, <2>1, <2>2, <2>3, <2>4 DEF ChatTypeOK, RequestsFormed, tabs, sockets
<1>5. ASSUME NEW u \in User, Disconnect(u) \/ Reconnect(u) PROVE Typed'
  <2>0. closing \in [User -> Nat] /\ closing[u] + 1 \in Nat
    BY DEF ChatTypeOK
  <2>1. connected' \in SUBSET User /\ deaf' \in SUBSET User
    BY <1>5 DEF Disconnect, Reconnect, ChatTypeOK
  <2>6. closing' = closing \/ closing' = [closing EXCEPT ![u] = closing[u] + 1]
    BY <1>5 DEF Disconnect, Reconnect
  <2>7. closing' \in [User -> Nat]
    BY <2>0, <2>6
  <2>2. {request[r].ch : r \in {q \in Flushed : u \in Told(request[q])}} \in SUBSET Channel
    BY DEF Flushed, RequestsFormed, Formed
  <2>3. Mine(u) \in SUBSET Channel
    BY DEF Mine
  <2>4. CASE Disconnect(u)
    <3>1. lost' \in [User -> SUBSET Channel] /\ inbox' \in [User -> SUBSET Channel]
      BY <2>4 DEF Disconnect, ChatTypeOK
    <3>2. heard' \in [User -> SUBSET Channel]
      BY <2>4 DEF Disconnect, ChatTypeOK
    <3>3. /\ Deed
          /\ UNCHANGED <<server, request, list, overlapped, stirred, gone, silent, crossed>>
      BY <2>4 DEF Disconnect
    <3> QED
      BY <1>3, <2>1, <2>7, <3>1, <3>2, <3>3 DEF ChatTypeOK, RequestsFormed, server
  <2>5. CASE Reconnect(u)
    <3>1. heard' \in [User -> SUBSET Channel]
      BY <2>3, <2>5 DEF Reconnect, ChatTypeOK
    <3>2. silent' \in [User -> SUBSET Channel]
      BY <2>2, <2>5 DEF Reconnect, ChatTypeOK
    <3>3. UNCHANGED <<server, request, list, inbox, overlapped, stirred, lost, gone,
                      crossed, deeds>>
      BY <2>5 DEF Reconnect
    <3> QED
      BY <2>1, <2>7, <3>1, <3>2, <3>3 DEF ChatTypeOK, RequestsFormed, server
  <2> QED
    BY <1>5, <2>4, <2>5
<1>8. ASSUME NEW u \in User, NEW chs \in SUBSET Channel, NEW topic \in BOOLEAN,
             Sweep(u, chs, topic)
      PROVE  Typed'
  <2>1. /\ closing[u] \in Nat /\ closing[u] > 0
        /\ closing' = [closing EXCEPT ![u] = closing[u] - 1]
    BY <1>8 DEF Sweep, ChatTypeOK
  <2>2. closing' \in [User -> Nat] /\ deaf' \in SUBSET User
    BY <1>8, <2>1 DEF Sweep, ChatTypeOK
  <2>3. heard' \in [User -> SUBSET Channel] /\ silent' \in [User -> SUBSET Channel]
    BY <1>8 DEF Sweep, ChatTypeOK
  <2>4. UNCHANGED <<server, request, list, inbox, connected, overlapped, stirred, lost, gone,
                    crossed, deeds>>
    BY <1>8 DEF Sweep
  <2> QED
    BY <2>2, <2>3, <2>4 DEF ChatTypeOK, RequestsFormed, server
<1>7. ASSUME NEW u \in User, NEW ch \in Channel, Leave(u, ch) PROVE Typed'
  <2>1. members' \in [Channel -> SUBSET User]
    BY <1>7 DEF Leave, ChatTypeOK
  <2>2. gone' \in [User -> SUBSET Channel]
    BY <1>7 DEF Leave, ChatTypeOK
  <2>3. stirred' \in BOOLEAN
    BY <1>7 DEF Leave, ChatTypeOK
  <2>4. Deed /\ UNCHANGED <<kind, request, tabs, overlapped, lost, silent, crossed>>
    BY <1>7 DEF Leave
  <2> QED
    BY <1>3, <2>1, <2>2, <2>3, <2>4 DEF ChatTypeOK, RequestsFormed, tabs, sockets
<1>6. ASSUME NEW r \in Request,
             \/ \E u \in User : Calls(r, u)
             \/ \E ch \in Channel : CreateChannel(r, ch) \/ NewDM(r, ch) \/ FindDM(r, ch)
             \/ ListChannels(r) \/ JoinChannel(r) \/ AddMember(r)
             \/ Announce(r) \/ Commit(r) \/ Rollback(r)
             \/ AddAnswered(r) \/ Fail(r)
      PROVE  Typed'
  <2>0. request[r] \in Requests /\ Formed(request[r])
    BY DEF ChatTypeOK, RequestsFormed
  <2>1. request' \in [Request -> Requests] /\ RequestsFormed'
    BY <1>6, RequestsTyped
  <2>2. ASSUME NEW u \in User, Calls(r, u) PROVE Typed'
    <3>1. Deed /\ UNCHANGED <<server, tabs, causes>>
      BY <2>2 DEF Calls, Call
    <3> QED
      BY <1>3, <2>1, <3>1 DEF ChatTypeOK, server, tabs, sockets, causes
  <2>3. ASSUME NEW ch \in Channel, CreateChannel(r, ch) \/ NewDM(r, ch) \/ FindDM(r, ch)
        PROVE  Typed'
    <3>1. request[r].by \in User
      BY <2>0, <2>3 DEF CreateChannel, NewDM, FindDM, Reaches, Formed
    <3>2. kind' \in [Channel -> Kind] /\ members' \in [Channel -> SUBSET User]
      <4>1. CASE CreateChannel(r, ch)
        <5>1. kind' \in [Channel -> Kind]
          BY <4>1 DEF CreateChannel, ChatTypeOK, Kind
        <5>2. members' \in [Channel -> SUBSET User]
          BY <3>1, <4>1 DEF CreateChannel, ChatTypeOK
        <5> QED
          BY <5>1, <5>2
      <4>2. CASE NewDM(r, ch) \/ FindDM(r, ch)
        BY <4>2 DEF NewDM, FindDM, ChatTypeOK, server
      <4> QED
        BY <2>3, <4>1, <4>2
    <3>3. overlapped' \in BOOLEAN
      BY <2>3 DEF CreateChannel, NewDM, FindDM, ChatTypeOK, causes
    <3>4. UNCHANGED <<tabs, stirred, lost, gone, silent, crossed, deeds>>
      BY <2>3 DEF CreateChannel, NewDM, FindDM, causes
    <3> QED
      BY <2>1, <3>2, <3>3, <3>4 DEF ChatTypeOK, tabs, sockets
  <2>4. CASE ListChannels(r) \/ AddAnswered(r) \/ AddMember(r)
    <3>1. UNCHANGED <<server, tabs, causes, deeds>>
      BY <2>4 DEF ListChannels, AddAnswered, AddMember, Rejects
    <3> QED
      BY <2>1, <3>1 DEF ChatTypeOK, server, tabs, sockets, causes
  <2>5. CASE JoinChannel(r)
    <3>1. CASE Rejects(r)
      BY <2>1, <3>1 DEF Rejects, ChatTypeOK, server, tabs, sockets, causes
    <3>2. CASE ~Rejects(r)
      <4>1. request[r].by \in User /\ request[r].ch \in Channel
        BY <2>0, <2>5 DEF JoinChannel, Reaches, Formed
      <4> DEFINE ch == request[r].ch
                 u == request[r].by
      <4>0. /\ members' = [members EXCEPT ![ch] = @ \cup {u}]
            /\ gone' = [gone EXCEPT ![u] = @ \ {ch}]
            /\ stirred' \in BOOLEAN
            /\ silent' = [silent EXCEPT ![u] = @ \cup ({ch} \ heard[u])]
        BY <2>5, <3>2 DEF JoinChannel
      <4> HIDE DEF ch, u
      <4>2. members' \in [Channel -> SUBSET User]
        BY <4>0, <4>1 DEF ChatTypeOK, u, ch
      <4>3. gone' \in [User -> SUBSET Channel]
        BY <4>0, <4>1 DEF ChatTypeOK, u, ch
      <4>5. silent' \in [User -> SUBSET Channel]
        BY <4>0, <4>1 DEF ChatTypeOK, u, ch
      <4>4. UNCHANGED <<kind, tabs, overlapped, lost, crossed, deeds>>
        BY <2>5, <3>2 DEF JoinChannel
      <4> QED
        BY <2>1, <4>0, <4>2, <4>3, <4>4, <4>5 DEF ChatTypeOK, tabs, sockets
    <3> QED
      BY <3>1, <3>2
  <2>6. CASE Announce(r)
    <3>1. request[r].ch \in Channel
      BY <2>0, <2>6 DEF Announce, Formed
    <3>2. inbox' \in [User -> SUBSET Channel] /\ lost' \in [User -> SUBSET Channel]
      BY <2>6, <3>1 DEF Announce, ChatTypeOK
    <3>3. silent' \in [User -> SUBSET Channel]
      BY <2>6, <3>1 DEF Announce, ChatTypeOK
    <3>4. UNCHANGED <<server, list, heard, sockets, overlapped, stirred, gone, crossed, deeds>>
      BY <2>6 DEF Announce
    <3> QED
      BY <2>1, <3>2, <3>3, <3>4 DEF ChatTypeOK, server, sockets
  <2>7. CASE Commit(r) \/ Rollback(r)
    <3>1. /\ request[r].ch \in Channel /\ Told(request[r]) \subseteq User
      BY <2>0, <2>7 DEF Commit, Rollback, Flushed, Formed, Told
    <3>2. kind' \in [Channel -> Kind]
      BY <2>7, <3>1 DEF Commit, Rollback, ChatTypeOK, Kind
    <3>3. members' \in [Channel -> SUBSET User]
      <4>1. members \in [Channel -> SUBSET User]
        BY DEF ChatTypeOK
      <4>2. CASE Commit(r)
        BY <3>1, <4>1, <4>2 DEF Commit
      <4>3. CASE Rollback(r)
        BY <4>1, <4>3 DEF Rollback
      <4> QED
        BY <2>7, <4>2, <4>3
    <3>4. gone' \in [User -> SUBSET Channel]
      <4>1. gone \in [User -> SUBSET Channel]
        BY DEF ChatTypeOK
      <4>2. CASE Commit(r)
        BY <4>1, <4>2 DEF Commit
      <4>3. CASE Rollback(r)
        BY <3>1, <4>1, <4>3 DEF Rollback
      <4> QED
        BY <2>7, <4>2, <4>3
    <3>5. deeds' \in 0..MaxDeeds /\ UNCHANGED <<tabs, overlapped, stirred, lost, silent, crossed>>
      BY <1>3, <2>7 DEF Commit, Rollback, ChatTypeOK
    <3> QED
      BY <2>1, <3>2, <3>3, <3>4, <3>5 DEF ChatTypeOK, tabs, sockets
  <2>8. CASE Fail(r)
    <3>1. request[r].by \in User /\ (request[r].ch # None => request[r].ch \in Channel)
      BY <2>0, <2>8 DEF Fail, Formed, Requests
    <3>2. lost' \in [User -> SUBSET Channel]
      BY <2>8, <3>1 DEF Fail, ChatTypeOK
    <3>3. Deed /\ UNCHANGED <<server, tabs, overlapped, stirred, gone, silent, crossed>>
      BY <2>8 DEF Fail
    <3> QED
      BY <1>3, <2>1, <3>2, <3>3 DEF ChatTypeOK, server, tabs, sockets
  <2> QED
    BY <1>6, <2>2, <2>3, <2>4, <2>5, <2>6, <2>7, <2>8
<1> QED
  BY <1>1, <1>2, <1>4, <1>5, <1>6, <1>7, <1>8 DEF ChatMove, ChatStep

-----------------------------------------------------------------------------
(***************************************************************************)
(* Rooms and direct messages.                                              *)
(***************************************************************************)

\* Nothing was flushed, unless it ended.
Quiet == \A q \in Flushed' :
            /\ q \in Flushed
            /\ request'[q].op = request[q].op /\ request'[q].by = request[q].by
            /\ request'[q].ch = request[q].ch /\ request'[q].whom = request[q].whom

LEMMA QuietTold ==
    ASSUME Quiet, NEW q \in Flushed' PROVE Told(request'[q]) = Told(request[q])
  BY DEF Quiet, Told

LEMMA QuietKeeps ==
    ASSUME Rooms, Pairs, Quiet, UNCHANGED <<server, overlapped, stirred>>
    PROVE  Rooms' /\ Pairs'
<1>1. kind' = kind /\ members' = members /\ \A u, v : Direct(u, v)' = Direct(u, v)
  BY DEF server, Direct
<1>2. Rooms'
  BY <1>1 DEF Rooms, Quiet
<1>3. Pairs'
  <2>1. SUFFICES ASSUME ~overlapped, ~stirred
                 PROVE  /\ \A u, v \in User : \A c, d \in Direct(u, v)' : c = d
                        /\ \A r \in Flushed', u, v \in User :
                              request'[r].op = "dm" /\ Told(request'[r]) = {u, v} =>
                                 Direct(u, v)' = {}
                        /\ \A r, q \in Flushed' :
                              /\ request'[r].op = "dm" /\ request'[q].op = "dm"
                              /\ Told(request'[r]) = Told(request'[q])
                              => r = q
    BY DEF Pairs
  <2>2. \A r \in Flushed' : /\ r \in Flushed /\ request'[r].op = request[r].op
                            /\ Told(request'[r]) = Told(request[r])
    BY QuietTold DEF Quiet
  <2> QED
    BY <1>1, <2>1, <2>2 DEF Pairs
<1> QED
  BY <1>2, <1>3

\* Steps that flush nothing.
LEMMA QuietSteps ==
    ASSUME Typed,
           \/ Elsewhere
           \/ \E r \in Request :
                 \/ \E u \in User : Calls(r, u)
                 \/ \E ch \in Channel : CreateChannel(r, ch) \/ FindDM(r, ch)
                 \/ ListChannels(r) \/ JoinChannel(r) \/ Announce(r) \/ Commit(r)
                 \/ Rollback(r) \/ CreateAnswered(r) \/ DMAnswered(r) \/ AddAnswered(r)
                 \/ LoadAnswered(r) \/ Fail(r)
                 \/ AddMember(r) /\ Rejects(r)
           \/ \E u \in User : Disconnect(u) \/ Reconnect(u)
           \/ \E u \in User, chs \in SUBSET Channel, topic \in BOOLEAN :
                 Sweep(u, chs, topic)
           \/ \E u \in User, ch \in Channel : Receive(u, ch) \/ Leave(u, ch)
           \/ \E ch \in Channel : DeleteChannel(ch)
    PROVE  Quiet
<1>1. ASSUME NEW r \in Request, Apart(r), request'[r].stage \notin {"open", "told"}
      PROVE  Quiet
  BY <1>1 DEF Apart, Quiet, Flushed
<1>2. ASSUME NEW r \in Request, Announce(r) PROVE Quiet
  <2>1. Moves(r, "told", request[r].op, request[r].ch) /\ request[r].stage = "open"
    BY <1>2, Moved DEF Announce
  <2> QED
    BY <2>1 DEF Moves, Apart, Quiet, Flushed
<1>3. ASSUME NEW r \in Request, NEW ch \in Channel, CreateChannel(r, ch) \/ FindDM(r, ch)
      PROVE  Quiet
  <2>1. Apart(r) /\ request'[r].stage = "done"
    BY <1>3, Moved DEF Moves
  <2> QED
    BY <1>1, <2>1
<1>4. ASSUME NEW r \in Request,
             \/ \E u \in User : Calls(r, u)
             \/ ListChannels(r) \/ JoinChannel(r) \/ Commit(r)
      PROVE  Quiet
  <2>1. Apart(r) /\ request'[r].stage \in {"sent", "done", "idle"}
    BY <1>4, Called, Listed, Moved DEF Moves, Ends, Idle
  <2> QED
    BY <1>1, <2>1
<1>5. ASSUME NEW r \in Request,
             \/ Rollback(r) \/ AddAnswered(r) \/ Fail(r)
             \/ AddMember(r) /\ Rejects(r)
      PROVE  Quiet
  <2>1. request' = [request EXCEPT ![r] = Idle]
    BY <1>5 DEF Rollback, AddAnswered, Fail, Rejects
  <2>2. Apart(r) /\ request'[r].stage = "idle"
    BY <2>1 DEF Apart, Idle, Typed, ChatTypeOK
  <2> QED
    BY <1>1, <2>2
<1>6. ASSUME NEW r \in Request, CreateAnswered(r) \/ DMAnswered(r) \/ LoadAnswered(r)
      PROVE  Quiet
  <2>1. PICK chs : request' = Noted(request[r].by, chs, [request EXCEPT ![r] = Idle])
    BY <1>6 DEF CreateAnswered, DMAnswered, LoadAnswered
  <2>2. /\ request'[r] = Idle
        /\ \A q \in Request : q # r => Learns(q, request[r].by, chs)
    BY <2>1, Learnt
  <2>3. request'[r].stage = "idle"
    BY <2>2 DEF Idle
  <2> QED
    BY SMTT(30), <2>2, <2>3 DEF Quiet, Flushed, Learns
<1>7. ASSUME NEW u \in User, NEW ch \in Channel, Receive(u, ch) PROVE Quiet
  <2>1. \A q \in Request : Learns(q, u, {ch})
    BY <1>7, LearntAll DEF Receive
  <2> QED
    BY <2>1 DEF Quiet, Flushed, Learns
<1>8. CASE \/ Elsewhere
           \/ \E u \in User : Disconnect(u) \/ Reconnect(u)
           \/ \E u \in User, chs \in SUBSET Channel, topic \in BOOLEAN :
                 Sweep(u, chs, topic)
           \/ \E u \in User, ch \in Channel : Leave(u, ch)
           \/ \E ch \in Channel : DeleteChannel(ch)
  <2>1. request' = request
    BY <1>8 DEF Elsewhere, Disconnect, Reconnect, Sweep, Leave, DeleteChannel
  <2> QED
    BY <2>1 DEF Quiet, Flushed
<1> QED
  BY <1>2, <1>3, <1>4, <1>5, <1>6, <1>7, <1>8

\* The steps that change what exists, or who takes part.
LEMMA RoomsStep ==
    ASSUME Typed, Rooms, ChatMove PROVE Rooms'
<1> USE DEF Rooms
<1>0. /\ kind \in [Channel -> Kind] /\ members \in [Channel -> SUBSET User]
      /\ \A r \in Flushed : /\ request[r].ch \in Channel /\ request[r].op \in {"dm", "add"}
                            /\ Told(request[r]) \subseteq User /\ r \in Request
  BY DEF Typed, ChatTypeOK, RequestsFormed, Formed, Flushed, Told
<1>1. ASSUME Quiet, UNCHANGED server PROVE Rooms'
  BY <1>1 DEF Quiet, server
<1>2. ASSUME NEW r \in Request, NEW ch \in Channel, CreateChannel(r, ch) PROVE Rooms'
  <2>1. /\ Quiet /\ \A q \in Flushed : request[q].ch # ch
        /\ kind' = [kind EXCEPT ![ch] = "room"]
        /\ members' = [members EXCEPT ![ch] = {request[r].by}]
    BY <1>2, QuietSteps DEF CreateChannel, Unborn
  <2> QED
    BY <1>0, <2>1 DEF Quiet
<1>3. ASSUME NEW r \in Request, NEW ch \in Channel, NewDM(r, ch) PROVE Rooms'
  <2>1. /\ Moves(r, "open", "dm", ch) /\ UNCHANGED server
        /\ kind[ch] = "none" /\ \A q \in Flushed : request[q].ch # ch
    BY <1>3, Moved DEF NewDM, Unborn
  <2>2. \A q \in Flushed' : \/ q = r /\ request'[q].op = "dm" /\ request'[q].ch = ch
                            \/ q \in Flushed /\ request'[q] = request[q]
    <3>1. request'[r].op = "dm" /\ request'[r].ch = ch
      BY <2>1 DEF Moves
    <3>2. ASSUME NEW q \in Flushed', q # r PROVE q \in Flushed /\ request'[q] = request[q]
      BY <2>1, <3>2 DEF Moves, Apart, Flushed
    <3> QED
      BY <3>1, <3>2
  <2> QED
    BY <1>0, <2>1, <2>2 DEF server
<1>4. ASSUME NEW r \in Request, JoinChannel(r) PROVE Rooms'
  <2>1. Quiet
    BY <1>4, QuietSteps
  <2>2. \/ UNCHANGED server
        \/ /\ kind' = kind /\ Exists(request[r].ch)
           /\ members' = [members EXCEPT ![request[r].ch] = @ \cup {request[r].by}]
    BY <1>4 DEF JoinChannel, Rejects
  <2>3. CASE UNCHANGED server
    BY <1>1, <2>1, <2>3
  <2> QED
    BY <1>0, <2>1, <2>2, <2>3 DEF Quiet, Exists
<1>5. ASSUME NEW r \in Request, AddMember(r) PROVE Rooms'
  <2>1. CASE Rejects(r)
    BY <1>1, <1>5, <2>1, QuietSteps DEF Rejects
  <2>2. CASE ~Rejects(r)
    <3>1. /\ kind[request[r].ch] = "room" /\ Becomes(r, "open")
          /\ UNCHANGED server /\ request[r].op = "add"
      BY <1>5, <2>2 DEF AddMember, Reaches
    <3>2. Moves(r, "open", "add", request[r].ch)
      <4>1. request'[r].stage = "open"
        BY <3>1 DEF Becomes, Typed, ChatTypeOK
      <4> QED
        BY <1>5, <4>1, Moved DEF Ends, Idle
    <3>3. \A q \in Flushed' : \/ /\ q = r /\ request'[q].op = "add"
                                 /\ request'[q].ch = request[r].ch
                              \/ q \in Flushed /\ request'[q] = request[q]
      <4>1. request'[r].op = "add" /\ request'[r].ch = request[r].ch
        BY <3>2 DEF Moves
      <4>2. ASSUME NEW q \in Flushed', q # r PROVE q \in Flushed /\ request'[q] = request[q]
        BY <3>2, <4>2 DEF Moves, Apart, Flushed
      <4> QED
        BY <4>1, <4>2
    <3> QED
      BY <1>0, <3>1, <3>3 DEF server
  <2> QED
    BY <2>1, <2>2
<1>6. ASSUME NEW r \in Request, Commit(r) PROVE Rooms'
  <2> DEFINE ch == request[r].ch
  <2>1. /\ Quiet /\ r \in Flushed /\ r \notin Flushed'
    BY <1>6, QuietSteps, Moved DEF Commit, Flushed, Moves
  <2>2. /\ kind' = IF request[r].op = "dm" THEN [kind EXCEPT ![ch] = "dm"] ELSE kind
        /\ members' = [members EXCEPT ![ch] = @ \cup Told(request[r])]
    BY <1>6 DEF Commit
  <2>3. kind'[ch] = IF request[r].op = "dm" THEN "dm" ELSE "room"
    BY <1>0, <2>1, <2>2
  <2>4. \A c \in Channel : c # ch => kind'[c] = kind[c] /\ members'[c] = members[c]
    BY <1>0, <2>2
  <2>5. \A q \in Flushed' : request[r].op = "dm" => request[q].ch # ch
    BY <1>0, <2>1 DEF Quiet
  <2>6. \A q \in Flushed' : kind'[request[q].ch] = kind[request[q].ch]
    BY <1>0, <2>1, <2>2, <2>5 DEF Quiet
  <2> QED
    BY <1>0, <2>1, <2>3, <2>4, <2>6 DEF Quiet
<1>7. ASSUME NEW r \in Request, Rollback(r) PROVE Rooms'
  <2> DEFINE ch == request[r].ch
  <2>1. /\ Quiet /\ r \in Flushed /\ r \notin Flushed'
    <3>1. Quiet /\ r \in Flushed /\ Ends(r)
      BY <1>7, QuietSteps, Moved DEF Rollback
    <3> QED
      BY <3>1 DEF Ends, Idle, Flushed
  <2>2. /\ \/ kind' = kind
           \/ request[r].op = "dm" /\ kind' = [kind EXCEPT ![ch] = "void"]
        /\ members' = members
    BY <1>7 DEF Rollback
  <2>3. CASE kind' = kind
    BY <1>1, <2>1, <2>2, <2>3 DEF server
  <2>4. CASE request[r].op = "dm" /\ kind' = [kind EXCEPT ![ch] = "void"]
    <3>1. members[ch] = {}
      BY <1>0, <2>1, <2>4
    <3>2. \A q \in Flushed' : request[q].ch # ch
      BY <1>0, <2>1, <2>4 DEF Quiet
    <3> QED
      BY <1>0, <2>1, <2>2, <2>4, <3>1, <3>2 DEF Quiet
  <2> QED
    BY <2>2, <2>3, <2>4
<1>8. ASSUME NEW ch \in Channel, DeleteChannel(ch) PROVE Rooms'
  <2>1. Quiet /\ \A q \in Flushed : request[q].ch # ch
    BY <1>8, QuietSteps DEF DeleteChannel
  <2>2. kind' = [kind EXCEPT ![ch] = "void"] /\ members' = [members EXCEPT ![ch] = {}]
    BY <1>8 DEF DeleteChannel
  <2> QED
    BY <1>0, <2>1, <2>2 DEF Quiet
<1>9. ASSUME NEW u \in User, NEW ch \in Channel, Leave(u, ch) PROVE Rooms'
  <2>1. Quiet /\ kind' = kind /\ members' = [members EXCEPT ![ch] = @ \ {u}]
    BY <1>9, QuietSteps DEF Leave
  <2> QED
    BY <1>0, <2>1 DEF Quiet
<1>10. CASE \/ Elsewhere
            \/ \E u \in User : Disconnect(u) \/ Reconnect(u)
            \/ \E u \in User, chs \in SUBSET Channel, topic \in BOOLEAN :
                  Sweep(u, chs, topic)
            \/ \E u \in User, ch \in Channel : Receive(u, ch)
            \/ \E r \in Request :
                 \/ \E u \in User : Calls(r, u)
                 \/ \E ch \in Channel : FindDM(r, ch)
                 \/ ListChannels(r) \/ Announce(r)
                 \/ CreateAnswered(r) \/ DMAnswered(r) \/ AddAnswered(r)
                 \/ LoadAnswered(r) \/ Fail(r)
  <2>1. Quiet
    BY <1>10, QuietSteps
  <2>2. UNCHANGED server
    BY ZenonT(60), <1>10 DEF Elsewhere, Disconnect, Reconnect, Sweep, Receive, Calls, Call,
       FindDM, ListChannels,
                Announce, CreateAnswered, DMAnswered, AddAnswered, LoadAnswered, Fail
  <2> QED
    BY <1>1, <2>1, <2>2
<1> QED
  BY <1>2, <1>3, <1>4, <1>5, <1>6, <1>7, <1>8, <1>9, <1>10 DEF ChatMove, ChatStep

\* As long as no pair gets another DM, and none is flushed.
LEMMA PairsShrink ==
    ASSUME Pairs, UNCHANGED <<overlapped, stirred>>,
           \A u, v \in User : Direct(u, v)' \subseteq Direct(u, v),
           \A q \in Flushed' : request'[q].op = "dm" =>
              q \in Flushed /\ request[q].op = "dm" /\ Told(request'[q]) = Told(request[q])
    PROVE  Pairs'
<1> SUFFICES ASSUME ~overlapped, ~stirred
             PROVE  /\ \A u, v \in User : \A c, d \in Direct(u, v)' : c = d
                    /\ \A r \in Flushed', u, v \in User :
                          request'[r].op = "dm" /\ Told(request'[r]) = {u, v} =>
                             Direct(u, v)' = {}
                    /\ \A r, q \in Flushed' :
                          /\ request'[r].op = "dm" /\ request'[q].op = "dm"
                          /\ Told(request'[r]) = Told(request'[q])
                          => r = q
  BY DEF Pairs
<1>1. ASSUME NEW u \in User, NEW v \in User, NEW c \in Direct(u, v)', NEW d \in Direct(u, v)'
      PROVE  c = d
  BY DEF Pairs
<1>2. ASSUME NEW r \in Flushed', NEW u \in User, NEW v \in User,
             request'[r].op = "dm", Told(request'[r]) = {u, v}
      PROVE  Direct(u, v)' = {}
  <2>1. Direct(u, v) = {}
    BY <1>2 DEF Pairs
  <2>2. Direct(u, v)' \subseteq Direct(u, v)
    OBVIOUS
  <2> QED
    BY <2>1, <2>2
<1>3. ASSUME NEW r \in Flushed', NEW q \in Flushed',
             request'[r].op = "dm", request'[q].op = "dm",
             Told(request'[r]) = Told(request'[q])
      PROVE  r = q
  BY <1>3 DEF Pairs
<1> QED
  BY <1>1, <1>2, <1>3

LEMMA PairsStep ==
    ASSUME Typed, Rooms, Pairs, ChatMove PROVE Pairs'
<1>0. /\ kind \in [Channel -> Kind] /\ members \in [Channel -> SUBSET User]
      /\ \A r \in Flushed : /\ request[r].ch \in Channel /\ request[r].op \in {"dm", "add"}
                            /\ Told(request[r]) \subseteq User /\ r \in Request
  BY DEF Typed, ChatTypeOK, RequestsFormed, Formed, Flushed, Told
<1>a. Quiet => \A q \in Flushed' : request'[q].op = "dm" =>
          q \in Flushed /\ request[q].op = "dm" /\ Told(request'[q]) = Told(request[q])
  BY QuietTold DEF Quiet
<1>1. ASSUME Quiet, UNCHANGED <<overlapped, stirred>>,
             \A u, v \in User : Direct(u, v)' \subseteq Direct(u, v)
      PROVE  Pairs'
  BY <1>a, <1>1, PairsShrink
<1>2. ASSUME NEW r \in Request, NEW ch \in Channel, CreateChannel(r, ch) PROVE Pairs'
  <2>1. /\ Quiet /\ UNCHANGED <<overlapped, stirred>>
        /\ kind' = [kind EXCEPT ![ch] = "room"]
        /\ members' = [members EXCEPT ![ch] = {request[r].by}]
    BY <1>2, QuietSteps DEF CreateChannel, causes
  <2>2. \A u, v \in User : Direct(u, v)' \subseteq Direct(u, v)
    BY <1>0, <2>1 DEF Direct
  <2> QED
    BY <1>1, <2>1, <2>2
<1>3. ASSUME NEW r \in Request, NEW ch \in Channel, NewDM(r, ch) PROVE Pairs'
  <2>1. /\ Moves(r, "open", "dm", ch)
        /\ Direct(request[r].by, request[r].whom) = {}
        /\ overlapped' = (overlapped \/ Twin(r, request[r].by, request[r].whom))
        /\ UNCHANGED <<server, stirred>>
        /\ request[r].op = "dm" /\ request[r].stage = "sent"
    BY <1>3, Moved DEF NewDM, Reaches
  <2>2. \A u, v : Direct(u, v)' = Direct(u, v)
    BY <2>1 DEF Direct, server
  <2>3. /\ request'[r].op = "dm"
        /\ Told(request'[r]) = {request[r].by, request[r].whom}
    BY <2>1 DEF Moves, Told
  <2>4. ASSUME NEW q \in Flushed', q # r PROVE q \in Flushed /\ request'[q] = request[q]
    BY <2>1, <2>4 DEF Moves, Apart, Flushed
  <2>5. SUFFICES ASSUME ~overlapped', ~stirred'
                 PROVE  /\ \A u, v \in User : \A c, d \in Direct(u, v)' : c = d
                        /\ \A p \in Flushed', u, v \in User :
                              request'[p].op = "dm" /\ Told(request'[p]) = {u, v} =>
                                 Direct(u, v)' = {}
                        /\ \A p, q \in Flushed' :
                              /\ request'[p].op = "dm" /\ request'[q].op = "dm"
                              /\ Told(request'[p]) = Told(request'[q])
                              => p = q
    BY DEF Pairs
  <2>6. ~overlapped /\ ~stirred /\ ~Twin(r, request[r].by, request[r].whom)
    BY <2>1, <2>5
  <2>7. \A u, v \in User : \A c, d \in Direct(u, v)' : c = d
    BY <2>2, <2>6 DEF Pairs
  <2>8. ASSUME NEW p \in Flushed', NEW u \in User, NEW v \in User,
               request'[p].op = "dm", Told(request'[p]) = {u, v}
        PROVE  Direct(u, v)' = {}
    <3>1. CASE p = r
      <4>1. {u, v} = {request[r].by, request[r].whom}
        BY <2>3, <2>8, <3>1
      <4>2. Direct(u, v) = Direct(request[r].by, request[r].whom)
        BY <4>1 DEF Direct
      <4> QED
        BY <2>1, <2>2, <4>2
    <3>2. CASE p # r
      BY <2>2, <2>4, <2>6, <2>8, <3>2 DEF Pairs
    <3> QED
      BY <3>1, <3>2
  <2>9. ASSUME NEW q \in Flushed', q # r, request'[q].op = "dm"
        PROVE  Told(request'[q]) # Told(request'[r])
    BY <2>3, <2>4, <2>6, <2>9 DEF Twin
  <2>10. ASSUME NEW p \in Flushed', NEW q \in Flushed',
                request'[p].op = "dm", request'[q].op = "dm",
                Told(request'[p]) = Told(request'[q])
         PROVE  p = q
    <3>1. CASE p = r \/ q = r
      BY <2>9, <2>10, <3>1
    <3>2. CASE p # r /\ q # r
      BY <2>4, <2>6, <2>10, <3>2 DEF Pairs
    <3> QED
      BY <3>1, <3>2
  <2> QED
    BY <2>7, <2>8, <2>10
<1>4. ASSUME NEW r \in Request, JoinChannel(r) PROVE Pairs'
  <2> DEFINE ch == request[r].ch
             u == request[r].by
  <2>1. Quiet
    BY <1>4, QuietSteps
  <2>2. CASE Rejects(r)
    BY <1>1, <2>1, <2>2 DEF Rejects, server, causes, Direct
  <2>3. CASE ~Rejects(r)
    <3>1. /\ kind' = kind /\ overlapped' = overlapped /\ Exists(ch)
          /\ members' = [members EXCEPT ![ch] = @ \cup {u}]
          /\ stirred' = (stirred \/ (kind[ch] = "dm" /\ u \notin members[ch]))
      BY <1>4, <2>3 DEF JoinChannel
    <3>2. CASE stirred'
      BY <3>2 DEF Pairs
    <3>3. CASE ~stirred'
      <4>1. stirred' = stirred /\ ~(kind[ch] = "dm" /\ u \notin members[ch])
        BY <3>1, <3>3 DEF Typed, ChatTypeOK
      <4>2. \A c \in Channel : kind[c] = "dm" => members'[c] = members[c]
        BY <1>0, <3>1, <4>1
      <4>3. \A x, y \in User : Direct(x, y)' \subseteq Direct(x, y)
        BY <3>1, <4>2 DEF Direct
      <4> QED
        BY <1>1, <2>1, <3>1, <4>1, <4>3
    <3> QED
      BY <3>2, <3>3
  <2> QED
    BY <2>2, <2>3
<1>5. ASSUME NEW r \in Request, AddMember(r) PROVE Pairs'
  <2>0. UNCHANGED <<server, overlapped, stirred>>
    BY <1>5 DEF AddMember, Rejects, causes
  <2>1. CASE Rejects(r)
    BY <1>1, <1>5, <2>0, <2>1, QuietSteps DEF server, Direct
  <2>2. CASE ~Rejects(r)
    <3>1. Moves(r, "open", "add", request[r].ch) \/ Ends(r)
      BY <1>5, Moved
    <3>2. Apart(r) /\ (request'[r].op = "add" \/ request'[r].stage = "idle")
      BY <3>1 DEF Moves, Ends, Idle
    <3>3. \A q \in Flushed' : request'[q].op = "dm" => q \in Flushed /\ request'[q] = request[q]
      BY <3>2 DEF Apart, Flushed
    <3>4. \A u, v \in User : Direct(u, v)' \subseteq Direct(u, v)
      BY <2>0 DEF server, Direct
    <3> QED
      BY <2>0, <3>3, <3>4, PairsShrink
  <2> QED
    BY <2>1, <2>2
<1>6. ASSUME NEW r \in Request, Commit(r) PROVE Pairs'
  <2> DEFINE ch == request[r].ch
  <2>1. /\ Quiet /\ r \in Flushed /\ r \notin Flushed' /\ UNCHANGED <<overlapped, stirred>>
    BY <1>6, QuietSteps, Moved DEF Commit, Flushed, Moves
  <2>2. /\ kind' = IF request[r].op = "dm" THEN [kind EXCEPT ![ch] = "dm"] ELSE kind
        /\ members' = [members EXCEPT ![ch] = @ \cup Told(request[r])]
    BY <1>6 DEF Commit
  <2>3. CASE request[r].op # "dm"
    <3>1. kind' = kind /\ kind[ch] = "room"
      BY <2>1, <2>2, <2>3 DEF Rooms
    <3>2. \A u, v \in User : Direct(u, v)' \subseteq Direct(u, v)
      BY <1>0, <2>2, <3>1 DEF Direct
    <3> QED
      BY <1>1, <2>1, <3>2
  <2>4. CASE request[r].op = "dm"
    <3>1. kind[ch] = "none" /\ members[ch] = {} /\ ch \in Channel
      BY <1>0, <2>1, <2>4 DEF Rooms
    <3>2. kind'[ch] = "dm" /\ members'[ch] = Told(request[r])
      BY <1>0, <2>2, <2>4, <3>1
    <3>3. \A c \in Channel : c # ch => kind'[c] = kind[c] /\ members'[c] = members[c]
      BY <1>0, <2>2, <2>4
    <3>4. \A u, v \in User :
             Direct(u, v)' = IF Told(request[r]) = {u, v} THEN Direct(u, v) \cup {ch}
                             ELSE Direct(u, v)
      BY <3>1, <3>2, <3>3 DEF Direct
    <3>5. SUFFICES ASSUME ~overlapped, ~stirred
                   PROVE  /\ \A u, v \in User : \A c, d \in Direct(u, v)' : c = d
                          /\ \A p \in Flushed', u, v \in User :
                                request'[p].op = "dm" /\ Told(request'[p]) = {u, v} =>
                                   Direct(u, v)' = {}
                          /\ \A p, q \in Flushed' :
                                /\ request'[p].op = "dm" /\ request'[q].op = "dm"
                                /\ Told(request'[p]) = Told(request'[q])
                                => p = q
      BY <2>1 DEF Pairs
    <3>6. \A u, v \in User : Told(request[r]) = {u, v} => Direct(u, v) = {}
      BY <2>1, <2>4, <3>5 DEF Pairs
    <3>7. \A u, v \in User : \A c, d \in Direct(u, v)' : c = d
      BY <3>4, <3>5, <3>6 DEF Pairs
    <3>8. ASSUME NEW p \in Flushed', request'[p].op = "dm"
          PROVE  /\ p \in Flushed /\ request[p].op = "dm"
                 /\ Told(request'[p]) = Told(request[p]) /\ p # r
      BY <1>a, <2>1, <3>8
    <3>9. ASSUME NEW p \in Flushed', NEW u \in User, NEW v \in User,
                 request'[p].op = "dm", Told(request'[p]) = {u, v}
          PROVE  Direct(u, v)' = {}
      <4>1. Told(request[r]) # {u, v}
        BY <2>1, <2>4, <3>5, <3>8, <3>9 DEF Pairs
      <4>2. Direct(u, v) = {}
        BY <3>5, <3>8, <3>9 DEF Pairs
      <4> QED
        BY <3>4, <4>1, <4>2
    <3>10. ASSUME NEW p \in Flushed', NEW q \in Flushed',
                  request'[p].op = "dm", request'[q].op = "dm",
                  Told(request'[p]) = Told(request'[q])
           PROVE  p = q
      BY <3>5, <3>8, <3>10 DEF Pairs
    <3> QED
      BY <3>7, <3>9, <3>10
  <2> QED
    BY <2>3, <2>4
<1>7. ASSUME NEW r \in Request, Rollback(r) PROVE Pairs'
  <2>1. /\ Quiet /\ UNCHANGED <<members, overlapped, stirred>>
        /\ kind' = kind \/ kind' = [kind EXCEPT ![request[r].ch] = "void"]
    BY <1>7, QuietSteps DEF Rollback
  <2>2. \A u, v \in User : Direct(u, v)' \subseteq Direct(u, v)
    BY <1>0, <2>1 DEF Direct
  <2> QED
    BY <1>1, <2>1, <2>2
<1>8. ASSUME NEW ch \in Channel, DeleteChannel(ch) PROVE Pairs'
  <2>1. /\ Quiet /\ UNCHANGED <<overlapped, stirred>>
        /\ kind' = [kind EXCEPT ![ch] = "void"] /\ members' = [members EXCEPT ![ch] = {}]
    BY <1>8, QuietSteps DEF DeleteChannel
  <2>2. \A u, v \in User : Direct(u, v)' \subseteq Direct(u, v)
    BY <1>0, <2>1 DEF Direct
  <2> QED
    BY <1>1, <2>1, <2>2
<1>9. ASSUME NEW u \in User, NEW ch \in Channel, Leave(u, ch) PROVE Pairs'
  <2>1. /\ Quiet /\ kind' = kind /\ members' = [members EXCEPT ![ch] = @ \ {u}]
        /\ overlapped' = overlapped /\ stirred' = (stirred \/ kind[ch] = "dm")
    BY <1>9, QuietSteps DEF Leave
  <2>2. CASE stirred'
    BY <2>2 DEF Pairs
  <2>3. CASE ~stirred'
    <3>1. stirred' = stirred /\ kind[ch] # "dm"
      BY <2>1, <2>3 DEF Typed, ChatTypeOK
    <3>2. \A x, y \in User : Direct(x, y)' \subseteq Direct(x, y)
      BY <1>0, <2>1, <3>1 DEF Direct
    <3> QED
      BY <1>1, <2>1, <3>1, <3>2
  <2> QED
    BY <2>2, <2>3
<1>10. CASE \/ Elsewhere
            \/ \E u \in User : Disconnect(u) \/ Reconnect(u)
            \/ \E u \in User, chs \in SUBSET Channel, topic \in BOOLEAN :
                  Sweep(u, chs, topic)
            \/ \E u \in User, ch \in Channel : Receive(u, ch)
            \/ \E r \in Request :
                 \/ \E u \in User : Calls(r, u)
                 \/ \E ch \in Channel : FindDM(r, ch)
                 \/ ListChannels(r) \/ Announce(r)
                 \/ CreateAnswered(r) \/ DMAnswered(r) \/ AddAnswered(r)
                 \/ LoadAnswered(r) \/ Fail(r)
  <2>1. Quiet
    BY <1>10, QuietSteps
  <2>2. UNCHANGED <<server, overlapped, stirred>>
    BY ZenonT(60), <1>10 DEF Elsewhere, Disconnect, Reconnect, Sweep, Receive, Calls, Call,
       FindDM, ListChannels,
                Announce, CreateAnswered, DMAnswered, AddAnswered, LoadAnswered, Fail, causes
  <2> QED
    BY <1>1, <2>1, <2>2 DEF server, Direct
<1> QED
  BY <1>2, <1>3, <1>4, <1>5, <1>6, <1>7, <1>8, <1>9, <1>10 DEF ChatMove, ChatStep

-----------------------------------------------------------------------------
(***************************************************************************)
(* What the requests of a tab will do to its list.                         *)
(***************************************************************************)

\* Request q is, after the step, what it was for the lists of the tabs, or has
\* learnt of a channel.
Alike(q) ==
    /\ \A u \in User, ch \in Channel :
          /\ Comes(request'[q], u, ch) <=> Comes(request[q], u, ch)
          /\ Lists(request'[q], u, ch) <=> Lists(request[q], u, ch)
          /\ Brings(request'[q], u, ch) <=> Brings(request[q], u, ch)
          /\ Created(request'[q], u, ch) <=> Created(request[q], u, ch)
    /\ \A u \in User :
          /\ Reads(request'[q], u) <=> Reads(request[q], u)
          /\ Reads(request[q], u) => /\ request'[q].view = request[q].view
                                     /\ request[q].since \subseteq request'[q].since

\* A request that no list depends on yet, or any more.
Inactive(q) ==
    \/ q.stage \in {"idle", "open"}
    \/ q.stage = "sent" /\ (q.op = "load" => q.ch = None)
    \/ q.stage = "done" /\ q.op = "add"

LEMMA ApartAlike ==
    ASSUME NEW r, Apart(r), NEW q \in Request, q # r PROVE Alike(q)
  BY DEF Apart, Alike

LEMMA LearntAlike ==
    ASSUME NEW q \in Request, NEW u, NEW chs, Learns(q, u, chs) PROVE Alike(q)
  BY DEF Learns, Alike, Comes, Told, Lists, Brings, Created, Reads

LEMMA InactiveFacts ==
    ASSUME NEW q, Inactive(q), NEW u \in User
    PROVE  /\ ~Reads(q, u)
           /\ \A ch \in Channel : /\ ~Comes(q, u, ch) /\ ~Lists(q, u, ch)
                                  /\ ~Brings(q, u, ch) /\ ~Created(q, u, ch)
  BY ConversationsAssumption DEF Inactive, Reads, Comes, Lists, Brings, Created

ListInv == Fresh /\ Explained /\ Arriving /\ Covered /\ Twice /\ Heard

\* What is said of the lists holds on as long as no request changes it.
LEMMA AlikeKeeps ==
    ASSUME ListInv, UNCHANGED <<server, tabs, lost, gone, silent, crossed>>,
           \A q \in Request : Alike(q)
    PROVE  ListInv'
<1> USE DEF ListInv
<1>1. /\ kind' = kind /\ members' = members /\ list' = list /\ inbox' = inbox
      /\ connected' = connected /\ heard' = heard /\ lost' = lost /\ gone' = gone
      /\ silent' = silent /\ crossed' = crossed
  BY DEF server, tabs, sockets
<1>2. \A u \in User, ch \in Channel : Coming(u, ch)' <=> Coming(u, ch)
  BY DEF Alike, Coming
<1>3. \A ch \in Channel : Announced(ch)' <=> Announced(ch)
  BY <1>2 DEF Announced
<1>4. Fresh'
  BY <1>1, <1>3 DEF Fresh, Alike
<1>5. Explained'
  BY <1>1, <1>2 DEF Explained, Known, Alike
<1>6. Arriving'
  BY <1>1, <1>2 DEF Arriving, Alike
<1>7. Covered'
  BY <1>1 DEF Covered, Alike
<1>8. Twice'
  BY <1>1 DEF Twice, Alike
<1>9. Heard'
  BY <1>1, <1>2 DEF Heard
<1> QED
  BY <1>4, <1>5, <1>6, <1>7, <1>8, <1>9

LEMMA ComingSame ==
    ASSUME NEW r \in Request, \A q \in Request : q # r => Alike(q),
           \A u \in User, ch \in Channel :
              Comes(request'[r], u, ch) <=> Comes(request[r], u, ch)
    PROVE  /\ \A u \in User, ch \in Channel : Coming(u, ch)' <=> Coming(u, ch)
           /\ \A ch \in Channel : Announced(ch)' <=> Announced(ch)
<1>1. \A u \in User, ch \in Channel : Coming(u, ch)' <=> Coming(u, ch)
  BY DEF Coming, Alike
<1> QED
  BY <1>1 DEF Announced

\* A room is created: its creator's answer will list it.
LEMMA CreateListed ==
    ASSUME Typed, Rooms, ListInv, NEW r \in Request, NEW c \in Channel, CreateChannel(r, c)
    PROVE  ListInv'
<1> DEFINE u0 == request[r].by
<1> USE DEF ListInv
<1>1. /\ request[r].stage = "sent" /\ request[r].op = "create" /\ Unborn(c)
      /\ kind' = [kind EXCEPT ![c] = "room"] /\ members' = [members EXCEPT ![c] = {u0}]
      /\ list' = list /\ inbox' = inbox /\ connected' = connected /\ heard' = heard
      /\ lost' = lost /\ gone' = gone /\ silent' = silent /\ crossed' = crossed
  BY DEF CreateChannel, Reaches, tabs, sockets, causes
<1>2. Moves(r, "done", "create", c)
  BY Moved
<1>3. \A q \in Request : q # r => Alike(q)
  BY <1>2, ApartAlike DEF Moves
<1>4. Inactive(request[r])
  BY <1>1 DEF Inactive
<1>5. \A u \in User, ch \in Channel :
         /\ ~Comes(request'[r], u, ch) /\ ~Reads(request'[r], u)
         /\ Lists(request'[r], u, ch) => u = u0 /\ ch = c
         /\ Created(request'[r], u, ch) => u = u0 /\ ch = c
         /\ u = u0 /\ ch = c => Brings(request'[r], u, ch)
  BY <1>2 DEF Moves, Comes, Reads, Lists, Brings, Created
<1>6. \A u \in User, ch \in Channel : Coming(u, ch)' <=> Coming(u, ch)
  BY <1>3, <1>4, <1>5, InactiveFacts, ComingSame
<1>7. \A ch \in Channel : Announced(ch)' <=> Announced(ch)
  BY <1>6 DEF Announced
<1>8. ~Announced(c) /\ kind[c] = "none"
  BY <1>1 DEF Unborn, Flushed, Announced, Coming, Comes
<1>9. \A u \in User : /\ list[u][c] = 0 /\ c \notin inbox[u]
                      /\ \A q \in Request : ~Lists(request[q], u, c)
  BY <1>8 DEF Fresh
<1>10. /\ kind'[c] = "room" /\ members'[c] = {u0}
       /\ \A ch \in Channel : ch # c => kind'[ch] = kind[ch] /\ members'[ch] = members[ch]
  BY <1>1 DEF Typed, ChatTypeOK
<1>11. \A q \in Request, u \in User : ~Created(request[q], u, c)
  BY <1>9 DEF Created, Lists
<1>12. Fresh'
  <2>1. ASSUME NEW ch \in Channel, kind'[ch] = "none", ~Announced(ch)', NEW u \in User
        PROVE  /\ list'[u][ch] = 0 /\ ch \notin inbox'[u]
               /\ \A q \in Request : ~Lists(request'[q], u, ch)
    <3>1. ch # c /\ kind[ch] = "none" /\ ~Announced(ch)
      BY <1>7, <1>10, <2>1
    <3>2. /\ list[u][ch] = 0 /\ ch \notin inbox[u]
          /\ \A q \in Request : ~Lists(request[q], u, ch)
      BY <3>1 DEF Fresh
    <3> QED
      BY <1>1, <1>3, <1>5, <3>1, <3>2 DEF Alike
  <2>2. ASSUME NEW p \in Request, NEW q \in Request, NEW u \in User, NEW v \in User,
               NEW ch \in Channel, Created(request'[p], u, ch), Created(request'[q], v, ch)
        PROVE  p = q
    <3>1. CASE ch = c
      BY <1>3, <1>11, <2>2, <3>1 DEF Alike
    <3>2. CASE ch # c
      <4>1. p # r /\ q # r
        BY <1>5, <2>2, <3>2
      <4>2. Created(request[p], u, ch) /\ Created(request[q], v, ch)
        BY <1>3, <2>2, <4>1 DEF Alike
      <4> QED
        BY <4>2 DEF Fresh
    <3> QED
      BY <3>1, <3>2
  <2> QED
    BY <2>1, <2>2 DEF Fresh
<1>13. Explained'
  <2> SUFFICES ASSUME NEW u \in User, NEW ch \in Channel, Known(u, ch)'
               PROVE  u \in members'[ch] \/ Coming(u, ch)' \/ ch \in gone'[u]
    BY DEF Explained
  <2>1. CASE ch # c
    <3>1. Known(u, ch)
      BY <1>1, <1>3, <1>5, <2>1 DEF Known, Alike
    <3> QED
      BY <1>1, <1>6, <1>10, <2>1, <3>1 DEF Explained
  <2>2. CASE ch = c
    <3>1. u = u0
      BY <1>1, <1>3, <1>5, <1>9, <2>2 DEF Known, Alike
    <3> QED
      BY <1>10, <2>2, <3>1
  <2> QED
    BY <2>1, <2>2
<1>14. Arriving'
  BY <1>1, <1>3, <1>5, <1>6 DEF Arriving, Alike
<1>15. Covered'
  <2> SUFFICES ASSUME NEW u \in User, NEW ch \in Channel, u \in members'[ch],
                      ch \notin inbox'[u] \cup lost'[u],
                      \A q \in Request : ~Brings(request'[q], u, ch)
               PROVE  /\ list'[u][ch] > 0
                      /\ \A q \in Request : Reads(request'[q], u) =>
                            ch \in request'[q].view \cup request'[q].since
    BY DEF Covered
  <2>1. ch # c
    BY <1>5, <1>10
  <2>2. \A q \in Request : ~Brings(request[q], u, ch)
    BY <1>3, <1>4, InactiveFacts DEF Alike
  <2>3. /\ list[u][ch] > 0
        /\ \A q \in Request : Reads(request[q], u) =>
              ch \in request[q].view \cup request[q].since
    BY <1>1, <1>10, <2>1, <2>2 DEF Covered
  <2> QED
    BY <1>1, <1>3, <1>5, <2>3 DEF Alike
<1>16. Twice'
  BY <1>1, <1>3, <1>5, <1>9 DEF Twice, Alike
<1>17. Heard'
  BY <1>1, <1>6, <1>9, <1>10 DEF Heard
<1> QED
  BY <1>12, <1>13, <1>14, <1>15, <1>16, <1>17

\* create_dm finds the channel: the answer will list it.
LEMMA FindListed ==
    ASSUME Typed, Rooms, ListInv, NEW r \in Request, NEW c \in Channel, FindDM(r, c)
    PROVE  ListInv'
<1> DEFINE u0 == request[r].by
<1> USE DEF ListInv
<1>1. /\ request[r].stage = "sent" /\ request[r].op = "dm"
      /\ kind[c] = "dm" /\ u0 \in members[c]
      /\ kind' = kind /\ members' = members
      /\ list' = list /\ inbox' = inbox /\ connected' = connected /\ heard' = heard
      /\ lost' = lost /\ gone' = gone /\ silent' = silent /\ crossed' = crossed
  BY DEF FindDM, Reaches, Direct, server, tabs, sockets, causes
<1>2. Moves(r, "done", "dm", c)
  BY Moved
<1>3. \A q \in Request : q # r => Alike(q)
  BY <1>2, ApartAlike DEF Moves
<1>4. Inactive(request[r])
  BY <1>1 DEF Inactive
<1>5. \A u \in User, ch \in Channel :
         /\ ~Comes(request'[r], u, ch) /\ ~Reads(request'[r], u) /\ ~Created(request'[r], u, ch)
         /\ Lists(request'[r], u, ch) => u = u0 /\ ch = c
  BY <1>2 DEF Moves, Comes, Reads, Lists, Created
<1>6. /\ \A u \in User, ch \in Channel : Coming(u, ch)' <=> Coming(u, ch)
      /\ \A ch \in Channel : Announced(ch)' <=> Announced(ch)
  BY <1>3, <1>4, <1>5, InactiveFacts, ComingSame
<1>7. \A q \in Request, u \in User, ch \in Channel :
         Brings(request[q], u, ch) => Brings(request'[q], u, ch)
  BY <1>3, <1>4, InactiveFacts DEF Alike
<1>8. Fresh'
  BY <1>1, <1>3, <1>5, <1>6 DEF Fresh, Alike
<1>9. Explained'
  BY <1>1, <1>3, <1>5, <1>6 DEF Explained, Known, Alike
<1>10. Arriving'
  BY <1>1, <1>3, <1>5, <1>6 DEF Arriving, Alike
<1>11. Covered'
  BY <1>1, <1>3, <1>5, <1>7 DEF Covered, Alike
<1>12. Twice'
  BY <1>1, <1>3, <1>5 DEF Twice, Alike
<1>13. Heard'
  BY <1>1, <1>6 DEF Heard
<1> QED
  BY <1>8, <1>9, <1>10, <1>11, <1>12, <1>13

\* list_channels is read: what was announced before is remembered with it.
LEMMA ReadListed ==
    ASSUME Typed, Rooms, ListInv, NEW r \in Request, ListChannels(r)
    PROVE  ListInv'
<1> DEFINE u0 == request[r].by
<1> USE DEF ListInv
<1>1. /\ request[r].stage = "sent" /\ request[r].op = "load"
      /\ kind' = kind /\ members' = members
      /\ list' = list /\ inbox' = inbox /\ connected' = connected /\ heard' = heard
      /\ lost' = lost /\ gone' = gone /\ silent' = silent /\ crossed' = crossed
  BY DEF ListChannels, Reaches, server, tabs, sockets, causes
<1>2. /\ Moves(r, "done", "load", request[r].ch)
      /\ request'[r].view = Mine(u0)
      /\ request'[r].since = {request[q].ch : q \in {p \in Flushed : u0 \in Told(request[p])}}
  BY Listed
<1>3. \A q \in Request : q # r => Alike(q)
  BY <1>2, ApartAlike DEF Moves
<1>4. \A u \in User, ch \in Channel :
         /\ ~Comes(request[r], u, ch) /\ ~Comes(request'[r], u, ch)
         /\ ~Created(request'[r], u, ch)
         /\ Lists(request'[r], u, ch) => u = u0 /\ u \in members[ch]
         /\ Brings(request[r], u, ch) /\ u \in members[ch] => Brings(request'[r], u, ch)
         /\ Reads(request'[r], u) /\ u \in members[ch] => ch \in request'[r].view
  BY <1>1, <1>2 DEF Moves, Comes, Reads, Lists, Brings, Created, Mine
<1>5. /\ \A u \in User, ch \in Channel : Coming(u, ch)' <=> Coming(u, ch)
      /\ \A ch \in Channel : Announced(ch)' <=> Announced(ch)
  BY <1>3, <1>4, ComingSame
<1>6. ASSUME NEW u \in User, NEW ch \in Channel, Coming(u, ch), Reads(request'[r], u)
      PROVE  ch \in request'[r].since
  <2>1. u = u0
    BY <1>2, <1>6 DEF Moves, Reads
  <2>2. PICK q \in Request : Comes(request[q], u, ch)
    BY <1>6 DEF Coming
  <2>3. q \in Flushed /\ u0 \in Told(request[q]) /\ request[q].ch = ch
    BY <2>1, <2>2 DEF Comes, Flushed
  <2> QED
    BY <1>2, <2>3
<1>7. Fresh'
  <2>1. \A ch \in Channel : kind[ch] = "none" => members[ch] = {}
    BY DEF Rooms
  <2> QED
    BY <1>1, <1>3, <1>4, <1>5, <2>1 DEF Fresh, Alike
<1>8. Explained'
  BY <1>1, <1>3, <1>4, <1>5 DEF Explained, Known, Alike
<1>9. Arriving'
  BY <1>1, <1>3, <1>5, <1>6 DEF Arriving, Alike
<1>10. Covered'
  <2> SUFFICES ASSUME NEW u \in User, NEW ch \in Channel, u \in members[ch],
                      ch \notin inbox[u] \cup lost[u],
                      \A q \in Request : ~Brings(request'[q], u, ch)
               PROVE  /\ list[u][ch] > 0
                      /\ \A q \in Request : Reads(request'[q], u) =>
                            ch \in request'[q].view \cup request'[q].since
    BY <1>1 DEF Covered
  <2>1. \A q \in Request : ~Brings(request[q], u, ch)
    BY <1>3, <1>4 DEF Alike
  <2>2. /\ list[u][ch] > 0
        /\ \A q \in Request : Reads(request[q], u) =>
              ch \in request[q].view \cup request[q].since
    BY <2>1 DEF Covered
  <2> QED
    BY <1>3, <1>4, <2>2 DEF Alike
<1>11. Twice'
  BY <1>1, <1>3, <1>4 DEF Twice, Alike
<1>12. Heard'
  BY <1>1, <1>5 DEF Heard
<1> QED
  BY <1>7, <1>8, <1>9, <1>10, <1>11, <1>12

\* A user joins: the list he loads next will have the channel.
LEMMA JoinListed ==
    ASSUME Typed, Rooms, ListInv, NEW r \in Request, JoinChannel(r), ~Rejects(r)
    PROVE  ListInv'
<1> DEFINE u0 == request[r].by
           c == request[r].ch
<1> USE DEF ListInv
<1>0. u0 \in User /\ c \in Channel
  BY DEF JoinChannel, Reaches, Typed, RequestsFormed, Formed
<1>1. /\ request[r].stage = "sent" /\ request[r].op = "join" /\ kind' = kind /\ Exists(c)
      /\ list' = list /\ inbox' = inbox /\ connected' = connected /\ heard' = heard
      /\ lost' = lost /\ crossed' = crossed
      /\ members' = [members EXCEPT ![c] = @ \cup {u0}]
      /\ gone' = [gone EXCEPT ![u0] = @ \ {c}]
      /\ silent' = [silent EXCEPT ![u0] = @ \cup ({c} \ heard[u0])]
      /\ request' = [request EXCEPT ![r].op = "load"]
  BY DEF JoinChannel, Reaches, tabs, sockets
<1>2. Moves(r, "sent", "load", c)
  <2>1. request'[r].stage = "sent"
    BY <1>1 DEF Typed, ChatTypeOK, Requests
  <2>2. ~Ends(r)
    BY <2>1 DEF Ends, Idle
  <2> QED
    BY <2>2, Moved
<1>3. \A q \in Request : q # r => Alike(q)
  BY <1>2, ApartAlike DEF Moves
<1>4. Inactive(request[r])
  BY <1>1 DEF Inactive
<1>5. \A u \in User, ch \in Channel :
         /\ ~Comes(request'[r], u, ch) /\ ~Reads(request'[r], u)
         /\ ~Created(request'[r], u, ch) /\ ~Lists(request'[r], u, ch)
         /\ u = u0 /\ ch = c => Brings(request'[r], u, ch)
  BY <1>2 DEF Moves, Comes, Reads, Lists, Created, Brings
<1>6. /\ \A u \in User, ch \in Channel : Coming(u, ch)' <=> Coming(u, ch)
      /\ \A ch \in Channel : Announced(ch)' <=> Announced(ch)
  BY <1>3, <1>4, <1>5, InactiveFacts, ComingSame
<1>7. /\ \A u \in User, ch \in Channel :
            /\ u \in members'[ch] <=> u \in members[ch] \/ (u = u0 /\ ch = c)
            /\ ch \in gone'[u] <=> ch \in gone[u] /\ ~(u = u0 /\ ch = c)
            /\ ch \in silent[u] => ch \in silent'[u]
      /\ c \in heard[u0] \cup silent'[u0]
  BY <1>0, <1>1 DEF Typed, ChatTypeOK
<1>8. \A q \in Request, u \in User, ch \in Channel :
         Brings(request[q], u, ch) => Brings(request'[q], u, ch)
  BY <1>3, <1>4, InactiveFacts DEF Alike
<1>9. Fresh'
  BY <1>1, <1>3, <1>5, <1>6 DEF Fresh, Alike
<1>10. Explained'
  BY <1>1, <1>3, <1>5, <1>6, <1>7 DEF Explained, Known, Alike
<1>11. Arriving'
  BY <1>1, <1>3, <1>5, <1>6 DEF Arriving, Alike
<1>12. Covered'
  <2> SUFFICES ASSUME NEW u \in User, NEW ch \in Channel, u \in members'[ch],
                      ch \notin inbox[u] \cup lost[u],
                      \A q \in Request : ~Brings(request'[q], u, ch)
               PROVE  /\ list[u][ch] > 0
                      /\ \A q \in Request : Reads(request'[q], u) =>
                            ch \in request'[q].view \cup request'[q].since
    BY <1>1 DEF Covered
  <2>1. u \in members[ch]
    BY <1>5, <1>7
  <2>2. /\ list[u][ch] > 0
        /\ \A q \in Request : Reads(request[q], u) =>
              ch \in request[q].view \cup request[q].since
    BY <1>8, <2>1 DEF Covered
  <2> QED
    BY <1>3, <1>5, <2>2 DEF Alike
<1>13. Twice'
  BY <1>1, <1>3, <1>5 DEF Twice, Alike
<1>14. Heard'
  BY <1>1, <1>6, <1>7 DEF Heard
<1> QED
  BY <1>9, <1>10, <1>11, <1>12, <1>13, <1>14

\* channel.new is published: it reaches the inbox, or is known to be lost.
LEMMA AnnounceListed ==
    ASSUME Typed, Rooms, ListInv, NEW r \in Request, Announce(r)
    PROVE  ListInv'
<1> DEFINE c == request[r].ch
           T == Told(request[r])
           R == T \cap (connected \ deaf)
<1> USE DEF ListInv
<1>0. c \in Channel /\ T \subseteq User /\ T # {}
  BY DEF Announce, Typed, RequestsFormed, Formed, Told
<1>1. /\ request[r].stage = "open" /\ kind' = kind /\ members' = members
      /\ list' = list /\ connected' = connected /\ heard' = heard
      /\ gone' = gone /\ crossed' = crossed
      /\ inbox' = [u \in User |-> IF u \in R
                                  THEN inbox[u] \cup {c} ELSE inbox[u]]
      /\ lost' = [u \in User |-> IF u \in T \ R THEN lost[u] \cup {c} ELSE lost[u]]
      /\ silent' = [u \in User |-> IF u \in T \cap deaf
                                   THEN silent[u] \cup {c} ELSE silent[u]]
  BY DEF Announce, server, sockets
<1>2. Moves(r, "told", request[r].op, c)
  BY Moved
<1>3. \A q \in Request : q # r => Alike(q)
  BY <1>2, ApartAlike DEF Moves
<1>4. Inactive(request[r])
  BY <1>1 DEF Inactive
<1>5. \A u \in User, ch \in Channel :
         /\ ~Reads(request'[r], u) /\ ~Brings(request'[r], u, ch)
         /\ ~Created(request'[r], u, ch) /\ ~Lists(request'[r], u, ch)
         /\ Comes(request'[r], u, ch) <=> u \in T /\ ch = c
  BY <1>2 DEF Moves, Comes, Reads, Lists, Created, Brings, Told
<1>6. \A u \in User, ch \in Channel :
         Coming(u, ch)' <=> Coming(u, ch) \/ (u \in T /\ ch = c)
  BY <1>3, <1>4, <1>5, InactiveFacts DEF Coming, Alike
<1>7. \A u \in User, ch \in Channel :
         /\ ch \in inbox'[u] <=> ch \in inbox[u] \/ (u \in R /\ ch = c)
         /\ ch \in lost'[u] <=> ch \in lost[u] \/ (u \in T \ R /\ ch = c)
         /\ ch \in silent'[u] <=> ch \in silent[u] \/ (u \in T \cap deaf /\ ch = c)
  BY <1>1
<1>8. \A q \in Request, u \in User, ch \in Channel :
         /\ Lists(request'[q], u, ch) <=> Lists(request[q], u, ch)
         /\ Brings(request'[q], u, ch) <=> Brings(request[q], u, ch)
         /\ Created(request'[q], u, ch) <=> Created(request[q], u, ch)
  BY <1>3, <1>4, <1>5, InactiveFacts DEF Alike
<1>9. Fresh'
  <2>1. \A ch \in Channel : ~Announced(ch)' => ch # c /\ ~Announced(ch)
    BY <1>0, <1>6 DEF Announced
  <2> QED
    BY <1>1, <1>7, <1>8, <2>1 DEF Fresh
<1>10. Explained'
  BY <1>1, <1>6, <1>7, <1>8 DEF Explained, Known
<1>11. Arriving'
  BY <1>1, <1>3, <1>5, <1>6, <1>7 DEF Arriving, Alike
<1>12. Covered'
  BY <1>1, <1>3, <1>5, <1>7, <1>8 DEF Covered, Alike
<1>13. Twice'
  BY <1>1, <1>8 DEF Twice
<1>14. Heard'
  BY <1>1, <1>6, <1>7 DEF Heard
<1> QED
  BY <1>9, <1>10, <1>11, <1>12, <1>13, <1>14

\* A DM or a member is committed: whoever was told is a member now.
LEMMA CommitListed ==
    ASSUME Typed, Rooms, ListInv, NEW r \in Request, Commit(r)
    PROVE  ListInv'
<1> DEFINE c == request[r].ch
           T == Told(request[r])
<1> USE DEF ListInv
<1>0. c \in Channel /\ T \subseteq User /\ r \in Flushed /\ request[r].op \in {"dm", "add"}
  BY DEF Commit, Typed, RequestsFormed, Formed, Told, Flushed
<1>1. /\ request[r].stage = "told"
      /\ kind' = IF request[r].op = "dm" THEN [kind EXCEPT ![c] = "dm"] ELSE kind
      /\ members' = [members EXCEPT ![c] = @ \cup T]
      /\ gone' = [u \in User |-> IF u \in T THEN gone[u] \ {c} ELSE gone[u]]
      /\ list' = list /\ connected' = connected /\ heard' = heard /\ inbox' = inbox
      /\ lost' = lost /\ silent' = silent /\ crossed' = crossed
  BY DEF Commit, tabs, sockets
<1>2. Moves(r, "done", request[r].op, c)
  BY Moved
<1>3. \A q \in Request : q # r => Alike(q)
  BY <1>2, ApartAlike DEF Moves
<1>5. \A u \in User, ch \in Channel :
         /\ ~Comes(request'[r], u, ch)
         /\ Comes(request[r], u, ch) <=> u \in T /\ ch = c
         /\ ~Lists(request[r], u, ch) /\ ~Brings(request[r], u, ch)
         /\ Lists(request'[r], u, ch) => u \in T /\ ch = c
         /\ ~Reads(request'[r], u) /\ ~Created(request'[r], u, ch)
  BY <1>0, <1>1, <1>2 DEF Moves, Comes, Reads, Lists, Created, Brings, Told
<1>6. \A u \in User, ch \in Channel :
         /\ Coming(u, ch)' => Coming(u, ch)
         /\ Coming(u, ch) => \/ Coming(u, ch)'
                             \/ u \in T /\ ch = c
         /\ u \in T /\ ch = c => Coming(u, ch)
  BY <1>3, <1>5 DEF Coming, Alike
<1>7. /\ \A u \in User, ch \in Channel :
            /\ u \in members'[ch] <=> u \in members[ch] \/ (u \in T /\ ch = c)
            /\ ch \in gone'[u] <=> ch \in gone[u] /\ ~(u \in T /\ ch = c)
      /\ \A ch \in Channel : ch # c => kind'[ch] = kind[ch]
      /\ kind'[c] # "none"
  <2>1. request[r].op # "dm" => kind[c] = "room"
    BY <1>0 DEF Rooms
  <2> QED
    BY <1>0, <1>1, <2>1 DEF Typed, ChatTypeOK
<1>8. Fresh'
  <2>1. ASSUME NEW ch \in Channel, kind'[ch] = "none", ~Announced(ch)'
        PROVE  ch # c /\ kind[ch] = "none" /\ ~Announced(ch)
    BY <1>6, <1>7, <2>1 DEF Announced
  <2> QED
    BY <1>1, <1>3, <1>5, <2>1 DEF Fresh, Alike
<1>9. Explained'
  <2> SUFFICES ASSUME NEW u \in User, NEW ch \in Channel, Known(u, ch)',
                      ~(u \in T /\ ch = c)
               PROVE  u \in members'[ch] \/ Coming(u, ch)' \/ ch \in gone'[u]
    BY <1>7 DEF Explained
  <2>1. Known(u, ch)
    BY <1>1, <1>3, <1>5 DEF Known, Alike
  <2> QED
    BY <1>6, <1>7, <2>1 DEF Explained
<1>10. Arriving'
  BY <1>1, <1>3, <1>5, <1>6 DEF Arriving, Alike
<1>11. Covered'
  <2> SUFFICES ASSUME NEW u \in User, NEW ch \in Channel, u \in members'[ch],
                      ch \notin inbox[u] \cup lost[u],
                      \A q \in Request : ~Brings(request'[q], u, ch)
               PROVE  /\ list[u][ch] > 0
                      /\ \A q \in Request : Reads(request'[q], u) =>
                            ch \in request'[q].view \cup request'[q].since
    BY <1>1 DEF Covered
  <2>1. CASE u \in T /\ ch = c
    <3>1. /\ list[u][ch] > 0
          /\ \A q \in Request : Reads(request[q], u) => ch \in request[q].since
      BY <1>6, <2>1 DEF Arriving
    <3> QED
      BY <1>3, <1>5, <3>1 DEF Alike
  <2>2. CASE ~(u \in T /\ ch = c)
    <3>1. u \in members[ch]
      BY <1>7, <2>2
    <3>2. \A q \in Request : ~Brings(request[q], u, ch)
      BY <1>3, <1>5 DEF Alike
    <3>3. /\ list[u][ch] > 0
          /\ \A q \in Request : Reads(request[q], u) =>
                ch \in request[q].view \cup request[q].since
      BY <3>1, <3>2 DEF Covered
    <3> QED
      BY <1>3, <1>5, <3>3 DEF Alike
  <2> QED
    BY <2>1, <2>2
<1>12. Twice'
  BY <1>1, <1>3, <1>5 DEF Twice, Alike
<1>13. Heard'
  BY <1>1, <1>6, <1>7 DEF Heard
<1> QED
  BY <1>8, <1>9, <1>10, <1>11, <1>12, <1>13

\* ... or is rolled back, and what was announced is gone.
LEMMA RollbackListed ==
    ASSUME Typed, Rooms, ListInv, NEW r \in Request, Rollback(r)
    PROVE  ListInv'
<1> DEFINE c == request[r].ch
           T == Told(request[r])
<1> USE DEF ListInv
<1>0. c \in Channel /\ T \subseteq User /\ r \in Flushed /\ request[r].op \in {"dm", "add"}
  BY DEF Rollback, Typed, RequestsFormed, Formed, Told, Flushed
<1>1. /\ request[r].stage \in {"open", "told"} /\ members' = members
      /\ kind' = IF request[r].op = "dm" /\ request[r].stage = "told"
                 THEN [kind EXCEPT ![c] = "void"] ELSE kind
      /\ gone' = [u \in User |-> IF u \in T THEN gone[u] \cup {c} ELSE gone[u]]
      /\ list' = list /\ connected' = connected /\ heard' = heard /\ inbox' = inbox
      /\ lost' = lost /\ silent' = silent /\ crossed' = crossed
  BY DEF Rollback, tabs, sockets, Flushed
<1>2. Ends(r)
  BY Moved
<1>3. \A q \in Request : q # r => Alike(q)
  BY <1>2, ApartAlike DEF Ends
<1>4. Inactive(request'[r])
  BY <1>2 DEF Inactive, Ends, Idle
<1>5. \A u \in User, ch \in Channel :
         /\ Comes(request[r], u, ch) => u \in T /\ ch = c /\ request[r].stage = "told"
         /\ ~Lists(request[r], u, ch) /\ ~Brings(request[r], u, ch)
  BY <1>1 DEF Comes, Lists, Brings
<1>6. \A u \in User, ch \in Channel :
         /\ Coming(u, ch)' => Coming(u, ch)
         /\ Coming(u, ch) => \/ Coming(u, ch)'
                             \/ u \in T /\ ch = c /\ request[r].stage = "told"
  BY <1>3, <1>4, <1>5, InactiveFacts DEF Coming, Alike
<1>7. /\ \A u \in User, ch \in Channel :
            ch \in gone'[u] <=> ch \in gone[u] \/ (u \in T /\ ch = c)
      /\ \A ch \in Channel : ch # c => kind'[ch] = kind[ch]
      /\ request[r].stage = "told" => kind'[c] # "none"
      /\ request[r].stage = "open" => kind' = kind
  <2>1. request[r].op # "dm" => kind[c] = "room"
    BY <1>0 DEF Rooms
  <2> QED
    BY <1>0, <1>1, <2>1 DEF Typed, ChatTypeOK
<1>a. \A q \in Request, u \in User, ch \in Channel :
         /\ Lists(request'[q], u, ch) => Lists(request[q], u, ch)
         /\ Created(request'[q], u, ch) => Created(request[q], u, ch)
         /\ Brings(request[q], u, ch) => Brings(request'[q], u, ch)
         /\ Reads(request'[q], u) => q # r
  BY <1>3, <1>4, <1>5, InactiveFacts DEF Alike
<1>8. Fresh'
  <2>1. ASSUME NEW ch \in Channel, kind'[ch] = "none", ~Announced(ch)'
        PROVE  kind[ch] = "none" /\ ~Announced(ch)
    BY <1>1, <1>6, <1>7, <2>1 DEF Announced
  <2> QED
    BY <1>1, <1>a, <2>1 DEF Fresh
<1>9. Explained'
  BY <1>1, <1>6, <1>7, <1>a DEF Explained, Known
<1>10. Arriving'
  BY <1>1, <1>3, <1>6, <1>a DEF Arriving, Alike
<1>11. Covered'
  BY <1>1, <1>3, <1>a DEF Covered, Alike
<1>12. Twice'
  BY <1>1, <1>a DEF Twice
<1>13. Heard'
  BY <1>1, <1>6 DEF Heard
<1> QED
  BY <1>8, <1>9, <1>10, <1>11, <1>12, <1>13

\* The answer of createChannel appends the channel.
LEMMA CreationListed ==
    ASSUME Typed, Rooms, ListInv, NEW r \in Request, CreateAnswered(r)
    PROVE  ListInv'
<1> DEFINE u0 == request[r].by
           c == request[r].ch
<1> USE DEF ListInv
<1>0. u0 \in User /\ c \in Channel
  BY AnswerTyped DEF CreateAnswered
<1>1. /\ request[r].stage = "done" /\ request[r].op = "create"
      /\ kind' = kind /\ members' = members /\ inbox' = inbox /\ connected' = connected
      /\ heard' = heard /\ gone' = gone /\ crossed' = crossed
      /\ list' = [list EXCEPT ![u0][c] = IF @ = 0 THEN 1 ELSE 2]
      /\ lost' = [lost EXCEPT ![u0] = @ \ {c}]
      /\ silent' = [silent EXCEPT ![u0] = @ \cup ({c} \ heard[u0])]
  BY DEF CreateAnswered, Append1, server, sockets
<1>2. request'[r] = Idle /\ \A q \in Request : q # r => Learns(q, u0, {c})
  <2>1. request' = Noted(u0, {c}, [request EXCEPT ![r] = Idle])
    BY DEF CreateAnswered
  <2> HIDE DEF u0, c
  <2> QED
    BY <2>1, Learnt
<1>3. \A q \in Request : q # r =>
         /\ Alike(q)
         /\ Reads(request[q], u0) => c \in request'[q].since
  <2>1. \A q \in Request : q # r => Alike(q)
    BY <1>2, LearntAlike
  <2> QED
    BY <1>2, <2>1 DEF Learns
<1>4. Inactive(request'[r])
  BY <1>2 DEF Inactive, Idle
<1>5. \A u \in User, ch \in Channel :
         /\ ~Comes(request[r], u, ch) /\ ~Reads(request[r], u)
         /\ Brings(request[r], u, ch) => u = u0 /\ ch = c
         /\ Lists(request[r], u0, c) /\ Created(request[r], u0, c)
  BY <1>0, <1>1 DEF Comes, Reads, Lists, Created, Brings
<1>6. /\ \A u \in User, ch \in Channel : Coming(u, ch)' <=> Coming(u, ch)
      /\ \A ch \in Channel : Announced(ch)' <=> Announced(ch)
  BY <1>3, <1>4, <1>5, InactiveFacts, ComingSame
<1>7. \A u \in User, ch \in Channel :
         /\ ~(u = u0 /\ ch = c) => list'[u][ch] = list[u][ch]
         /\ ch \in lost'[u] <=> ch \in lost[u] /\ ~(u = u0 /\ ch = c)
         /\ ch \in silent[u] => ch \in silent'[u]
  BY <1>0, <1>1 DEF Typed, ChatTypeOK
<1>8. /\ c \in heard[u0] \cup silent'[u0]
      /\ list'[u0][c] > 0 /\ (list'[u0][c] = 2 => list[u0][c] > 0)
  <2>1. list'[u0][c] = IF list[u0][c] = 0 THEN 1 ELSE 2
    BY <1>0, <1>1 DEF Typed, ChatTypeOK
  <2>2. list[u0][c] \in 0..2
    BY <1>0 DEF Typed, ChatTypeOK
  <2>3. c \in heard[u0] \cup silent'[u0]
    BY <1>0, <1>1 DEF Typed, ChatTypeOK
  <2> QED
    BY <2>1, <2>2, <2>3
<1>9. \A q \in Request, u \in User, ch \in Channel :
         /\ Lists(request'[q], u, ch) => Lists(request[q], u, ch)
         /\ Created(request'[q], u, ch) => q # r /\ Created(request[q], u, ch)
         /\ Brings(request[q], u, ch) => Brings(request'[q], u, ch) \/ (u = u0 /\ ch = c)
         /\ Reads(request'[q], u) =>
               /\ Reads(request[q], u) /\ request'[q].view = request[q].view
               /\ request[q].since \subseteq request'[q].since
               /\ u = u0 => c \in request'[q].since
  BY <1>3, <1>4, <1>5, InactiveFacts DEF Alike
<1>10. Fresh'
  <2>1. \A ch \in Channel : kind[ch] = "none" /\ ~Announced(ch) => ch # c
    BY <1>0, <1>5 DEF Fresh
  <2>2. \A ch \in Channel : kind'[ch] = "none" /\ ~Announced(ch)' =>
          \A u \in User : /\ list'[u][ch] = 0
                          /\ ch \notin inbox'[u]
                          /\ \A q \in Request : ~Lists(request'[q], u, ch)
    BY <1>1, <1>6, <1>7, <1>9, <2>1 DEF Fresh
  <2>3. \A p, q \in Request, u, v \in User, ch \in Channel :
          Created(request'[p], u, ch) /\ Created(request'[q], v, ch) => p = q
    BY <1>9 DEF Fresh
  <2> QED
    BY <2>2, <2>3 DEF Fresh
<1>11. Explained'
  <2> SUFFICES ASSUME NEW u \in User, NEW ch \in Channel, Known(u, ch)'
               PROVE  u \in members[ch] \/ Coming(u, ch) \/ ch \in gone[u]
    BY <1>1, <1>6 DEF Explained
  <2>1. Known(u, ch)
    BY <1>1, <1>5, <1>7, <1>9 DEF Known
  <2> QED
    BY <2>1 DEF Explained
<1>12. Arriving'
  BY <1>1, <1>6, <1>7, <1>8, <1>9 DEF Arriving
<1>13. Covered'
  BY <1>1, <1>7, <1>8, <1>9 DEF Covered
<1>14. Twice'
  <2>1. ASSUME NEW u \in User, NEW ch \in Channel, list'[u][ch] = 2 PROVE u \in crossed
    BY <1>5, <1>7, <1>8, <2>1 DEF Twice
  <2>2. ASSUME NEW u \in User, NEW ch \in Channel, NEW q \in Request,
               Created(request'[q], u, ch), list'[u][ch] > 0
        PROVE  u \in crossed
    <3>1. q # r /\ Created(request[q], u, ch)
      BY <1>9, <2>2
    <3>2. ~(u = u0 /\ ch = c)
      BY <1>0, <1>5, <3>1 DEF Fresh
    <3> QED
      BY <1>7, <2>2, <3>1, <3>2 DEF Twice
  <2> QED
    BY <1>1, <2>1, <2>2 DEF Twice
<1>15. Heard'
  BY <1>1, <1>6, <1>7, <1>8 DEF Heard
<1> QED
  BY <1>10, <1>11, <1>12, <1>13, <1>14, <1>15

\* Request q may end with c in the list of u; otherwise it learns of c there.
Subsides(q, u, c) ==
    /\ \A v \in User, ch \in Channel :
          /\ Comes(request'[q], v, ch) <=> Comes(request[q], v, ch)
          /\ Lists(request'[q], v, ch) => Lists(request[q], v, ch)
          /\ Created(request'[q], v, ch) => Created(request[q], v, ch)
          /\ Brings(request[q], v, ch) =>
                \/ Brings(request'[q], v, ch)
                \/ v = u /\ ch = c
    /\ \A v \in User : Reads(request'[q], v) =>
          /\ Reads(request[q], v) /\ request'[q].view = request[q].view
          /\ request[q].since \subseteq request'[q].since
          /\ v = u => c \in request'[q].since

\* The tab of u lists c, if it has not, and subscribes if it has a socket.
LEMMA SubscribeListed ==
    ASSUME Typed, ListInv, NEW u0 \in User, NEW c \in Channel,
           ListAndSubscribe(u0, c), Known(u0, c),
           UNCHANGED <<server, connected, gone>>,
           \A u \in User, ch \in Channel :
              /\ ch \in inbox'[u] => ch \in inbox[u]
              /\ ch \in inbox[u] => ch \in inbox'[u] \/ (u = u0 /\ ch = c),
           \A q \in Request : Subsides(q, u0, c)
    PROVE  ListInv'
<1> USE DEF ListInv
<1>1. /\ kind' = kind /\ members' = members /\ connected' = connected /\ gone' = gone
      /\ list' = [list EXCEPT ![u0][c] = IF @ = 0 THEN 1 ELSE @]
      /\ heard' = IF u0 \in connected THEN [heard EXCEPT ![u0] = @ \cup {c}] ELSE heard
      /\ lost' = [lost EXCEPT ![u0] = @ \ {c}]
      /\ silent' = IF u0 \in connected THEN [silent EXCEPT ![u0] = @ \ {c}] ELSE silent
      /\ crossed' = Crossing(u0, {c})
  BY DEF ListAndSubscribe, server
<1>2. \A u \in User, ch \in Channel :
         /\ ~(u = u0 /\ ch = c) => list'[u][ch] = list[u][ch]
         /\ ch \in lost'[u] <=> ch \in lost[u] /\ ~(u = u0 /\ ch = c)
         /\ ch \in heard[u] => ch \in heard'[u]
         /\ ch \in silent[u] => ch \in heard'[u] \cup silent'[u]
  BY <1>1 DEF Typed, ChatTypeOK
<1>3. u0 \in connected => c \in heard'[u0]
  BY <1>1 DEF Typed, ChatTypeOK
<1>4. list'[u0][c] > 0 /\ (list'[u0][c] = 2 => list[u0][c] = 2)
  <2>1. list'[u0][c] = IF list[u0][c] = 0 THEN 1 ELSE list[u0][c]
    BY <1>1 DEF Typed, ChatTypeOK
  <2>2. list[u0][c] \in 0..2
    BY DEF Typed, ChatTypeOK
  <2> QED
    BY <2>1, <2>2
<1>5. /\ crossed \subseteq crossed'
      /\ \A q \in Request : Created(request[q], u0, c) => u0 \in crossed'
  BY <1>1 DEF Crossing, Created
<1>6. /\ \A u \in User, ch \in Channel : Coming(u, ch)' <=> Coming(u, ch)
      /\ \A ch \in Channel : Announced(ch)' <=> Announced(ch)
  <2>1. \A u \in User, ch \in Channel : Coming(u, ch)' <=> Coming(u, ch)
    BY DEF Coming, Subsides
  <2> QED
    BY <2>1 DEF Announced
<1>7. Fresh'
  <2>1. \A ch \in Channel : kind[ch] = "none" /\ ~Announced(ch) => ch # c
    <3>1. SUFFICES ASSUME kind[c] = "none", ~Announced(c) PROVE FALSE
      OBVIOUS
    <3>2. /\ list[u0][c] = 0 /\ c \notin inbox[u0]
          /\ \A q \in Request : ~Lists(request[q], u0, c)
      BY <3>1 DEF Fresh
    <3> QED
      BY <3>2 DEF Known
  <2>2. \A ch \in Channel : kind'[ch] = "none" /\ ~Announced(ch)' =>
          \A u \in User : /\ list'[u][ch] = 0
                          /\ ch \notin inbox'[u]
                          /\ \A q \in Request : ~Lists(request'[q], u, ch)
    BY <1>1, <1>2, <1>6, <2>1 DEF Fresh, Subsides
  <2>3. \A p, q \in Request, u, v \in User, ch \in Channel :
          Created(request'[p], u, ch) /\ Created(request'[q], v, ch) => p = q
    BY DEF Fresh, Subsides
  <2> QED
    BY <2>2, <2>3 DEF Fresh
<1>8. Explained'
  <2> SUFFICES ASSUME NEW u \in User, NEW ch \in Channel, Known(u, ch)'
               PROVE  u \in members[ch] \/ Coming(u, ch) \/ ch \in gone[u]
    BY <1>1, <1>6 DEF Explained
  <2>1. Known(u, ch)
    BY <1>2 DEF Known, Subsides
  <2> QED
    BY <2>1 DEF Explained
<1>9. Arriving'
  BY <1>2, <1>4, <1>6 DEF Arriving, Subsides
<1>10. Covered'
  <2> SUFFICES ASSUME NEW u \in User, NEW ch \in Channel, u \in members[ch],
                      ch \notin inbox'[u] \cup lost'[u],
                      \A q \in Request : ~Brings(request'[q], u, ch)
               PROVE  /\ list'[u][ch] > 0
                      /\ \A q \in Request : Reads(request'[q], u) =>
                            ch \in request'[q].view \cup request'[q].since
    BY <1>1 DEF Covered
  <2>1. CASE u = u0 /\ ch = c
    BY <1>4, <2>1 DEF Subsides
  <2>2. CASE ~(u = u0 /\ ch = c)
    <3>1. /\ ch \notin inbox[u] \cup lost[u]
          /\ \A q \in Request : ~Brings(request[q], u, ch)
      BY <1>2, <2>2 DEF Subsides
    <3>2. /\ list[u][ch] > 0
          /\ \A q \in Request : Reads(request[q], u) =>
                ch \in request[q].view \cup request[q].since
      BY <3>1 DEF Covered
    <3> QED
      BY <1>2, <2>2, <3>2 DEF Subsides
  <2> QED
    BY <2>1, <2>2
<1>11. Twice'
  <2>1. ASSUME NEW u \in User, NEW ch \in Channel, list'[u][ch] = 2 PROVE u \in crossed'
    BY <1>2, <1>4, <1>5, <2>1 DEF Twice
  <2>2. ASSUME NEW u \in User, NEW ch \in Channel, NEW q \in Request,
               Created(request'[q], u, ch), list'[u][ch] > 0
        PROVE  u \in crossed'
    <3>1. Created(request[q], u, ch)
      BY <2>2 DEF Subsides
    <3>2. CASE u = u0 /\ ch = c
      BY <1>5, <3>1, <3>2
    <3>3. CASE ~(u = u0 /\ ch = c)
      BY <1>2, <1>5, <2>2, <3>1, <3>3 DEF Twice
    <3> QED
      BY <3>2, <3>3
  <2> QED
    BY <2>1, <2>2 DEF Twice
<1>12. Heard'
  BY <1>1, <1>2, <1>3, <1>6 DEF Heard
<1> QED
  BY <1>7, <1>8, <1>9, <1>10, <1>11, <1>12

\* The answer of createDM, and channel.new.
LEMMA DMListed ==
    ASSUME Typed, ListInv, NEW r \in Request, DMAnswered(r) PROVE ListInv'
<1> DEFINE u0 == request[r].by
           c == request[r].ch
<1>0. u0 \in User /\ c \in Channel
  BY AnswerTyped DEF DMAnswered
<1>1. /\ request[r].stage = "done" /\ request[r].op = "dm" /\ ListAndSubscribe(u0, c)
      /\ UNCHANGED <<server, connected, gone>> /\ inbox' = inbox
      /\ request' = Noted(u0, {c}, [request EXCEPT ![r] = Idle])
  BY DEF DMAnswered, sockets
<1>2. Known(u0, c)
  BY <1>1 DEF Known, Lists
<1> HIDE DEF u0, c
<1>3. request'[r] = Idle /\ \A q \in Request : q # r => Learns(q, u0, {c})
  BY <1>1, Learnt
<1>4. Subsides(r, u0, c)
  <2>1. Inactive(request'[r])
    BY <1>3 DEF Inactive, Idle
  <2>2. \A u \in User, ch \in Channel :
           /\ ~Comes(request[r], u, ch)
           /\ Brings(request[r], u, ch) => u = u0 /\ ch = c
    BY <1>1 DEF Comes, Brings, u0, c
  <2> QED
    BY <2>1, <2>2, InactiveFacts DEF Subsides
<1>5. ASSUME NEW q \in Request, q # r PROVE Subsides(q, u0, c)
  <2>1. Learns(q, u0, {c}) /\ Alike(q)
    BY <1>3, <1>5, LearntAlike
  <2> QED
    BY <2>1 DEF Learns, Alike, Subsides
<1> QED
  BY <1>0, <1>1, <1>2, <1>4, <1>5, SubscribeListed

LEMMA ReceiveListed ==
    ASSUME Typed, ListInv, NEW u \in User, NEW c \in Channel, Receive(u, c) PROVE ListInv'
<1>1. /\ c \in inbox[u] /\ ListAndSubscribe(u, c)
      /\ inbox' = [inbox EXCEPT ![u] = @ \ {c}]
      /\ UNCHANGED <<server, connected, gone>> /\ request' = Noted(u, {c}, request)
  BY DEF Receive, sockets
<1>2. Known(u, c)
  BY <1>1 DEF Known
<1>3. \A v \in User, ch \in Channel :
         /\ ch \in inbox'[v] => ch \in inbox[v]
         /\ ch \in inbox[v] => ch \in inbox'[v] \/ (v = u /\ ch = c)
  BY <1>1 DEF Typed, ChatTypeOK
<1>4. ASSUME NEW q \in Request PROVE Subsides(q, u, c)
  <2>1. Learns(q, u, {c})
    BY <1>1, LearntAll
  <2>2. Alike(q)
    BY <2>1, LearntAlike
  <2> QED
    BY <2>1, <2>2 DEF Learns, Alike, Subsides
<1> QED
  BY <1>1, <1>2, <1>3, <1>4, SubscribeListed

\* The answer of loadChannels replaces the list.
LEMMA LoadListed ==
    ASSUME Typed, Rooms, ListInv, NEW r \in Request, LoadAnswered(r)
    PROVE  ListInv'
<1> DEFINE u0 == request[r].by
           view == request[r].view
           since == request[r].since
<1> USE DEF ListInv
<1>0. u0 \in User /\ view \subseteq Channel /\ since \subseteq Channel
  BY AnswerTyped DEF LoadAnswered
<1>1. /\ request[r].stage = "done" /\ request[r].op = "load"
      /\ kind' = kind /\ members' = members /\ inbox' = inbox /\ connected' = connected
      /\ heard' = heard /\ gone' = gone
      /\ list' = [list EXCEPT ![u0] = [ch \in Channel |-> IF ch \in view THEN 1 ELSE 0]]
      /\ request' = Noted(u0, view, [request EXCEPT ![r] = Idle])
      /\ lost' = [lost EXCEPT ![u0] = (@ \cup since) \ view]
      /\ silent' = [silent EXCEPT ![u0] = @ \cup (view \ heard[u0])]
      /\ crossed' = Crossing(u0, view)
  BY DEF LoadAnswered, server, sockets
<1>2. \A u \in User, ch \in Channel :
         /\ u # u0 => list'[u][ch] = list[u][ch]
         /\ list'[u0][ch] = IF ch \in view THEN 1 ELSE 0
         /\ u # u0 => (ch \in lost'[u] <=> ch \in lost[u])
         /\ ch \in lost'[u0] <=> ch \in lost[u0] \cup since /\ ch \notin view
         /\ ch \in silent[u] => ch \in silent'[u]
         /\ ch \in view => ch \in heard[u0] \cup silent'[u0]
  BY <1>0, <1>1 DEF Typed, ChatTypeOK
<1>3. /\ \A u \in User : u \in crossed => u \in crossed'
      /\ \A q \in Request, ch \in Channel :
            Created(request[q], u0, ch) /\ ch \in view => u0 \in crossed'
  BY <1>1 DEF Crossing, Created
<1>4. request'[r] = Idle /\ \A q \in Request : q # r => Learns(q, u0, view)
  <2>1. request' = Noted(u0, view, [request EXCEPT ![r] = Idle])
    BY <1>1
  <2> HIDE DEF u0, view
  <2> QED
    BY <2>1, Learnt
<1>5. /\ Reads(request[r], u0)
      /\ \A u \in User, ch \in Channel :
           /\ ~Comes(request[r], u, ch) /\ ~Created(request[r], u, ch)
           /\ Lists(request[r], u, ch) <=> u = u0 /\ ch \in view
           /\ Brings(request[r], u, ch) => u = u0 /\ ch \in view
  BY <1>1 DEF Comes, Reads, Lists, Created, Brings
<1> HIDE DEF u0, view, since
<1>6. \A q \in Request : q # r =>
         /\ Alike(q)
         /\ Reads(request[q], u0) => view \subseteq request'[q].since
  <2>1. \A q \in Request : q # r => Alike(q)
    BY <1>4, LearntAlike
  <2> QED
    BY <1>4, <2>1 DEF Learns
<1>7. Inactive(request'[r])
  BY <1>4 DEF Inactive, Idle
<1>8. /\ \A u \in User, ch \in Channel : Coming(u, ch)' <=> Coming(u, ch)
      /\ \A ch \in Channel : Announced(ch)' <=> Announced(ch)
  BY <1>5, <1>6, <1>7, InactiveFacts, ComingSame
<1>9. \A q \in Request, u \in User, ch \in Channel :
         /\ Lists(request'[q], u, ch) => Lists(request[q], u, ch)
         /\ Created(request'[q], u, ch) => Created(request[q], u, ch)
         /\ Brings(request[q], u, ch) => Brings(request'[q], u, ch) \/ (u = u0 /\ ch \in view)
         /\ Reads(request'[q], u) =>
               /\ Reads(request[q], u) /\ request'[q].view = request[q].view
               /\ request[q].since \subseteq request'[q].since
               /\ u = u0 => view \subseteq request'[q].since
  BY <1>5, <1>6, <1>7, InactiveFacts DEF Alike
<1>10. Fresh'
  <2>1. ASSUME NEW ch \in Channel, kind'[ch] = "none", ~Announced(ch)', NEW u \in User
        PROVE  /\ list'[u][ch] = 0 /\ ch \notin inbox'[u]
               /\ \A q \in Request : ~Lists(request'[q], u, ch)
    <3>1. \A v \in User : /\ list[v][ch] = 0 /\ ch \notin inbox[v]
                          /\ \A q \in Request : ~Lists(request[q], v, ch)
      BY <1>1, <1>8, <2>1 DEF Fresh
    <3>2. ch \notin view
      BY <1>0, <1>5, <3>1
    <3>3. list'[u][ch] = 0
      BY <1>2, <3>1, <3>2
    <3> QED
      BY <1>1, <1>9, <3>1, <3>3
  <2>2. \A p, q \in Request, u, v \in User, ch \in Channel :
          Created(request'[p], u, ch) /\ Created(request'[q], v, ch) => p = q
    BY <1>9 DEF Fresh
  <2> QED
    BY <2>1, <2>2 DEF Fresh
<1>11. Explained'
  <2> SUFFICES ASSUME NEW u \in User, NEW ch \in Channel, Known(u, ch)'
               PROVE  u \in members[ch] \/ Coming(u, ch) \/ ch \in gone[u]
    BY <1>1, <1>8 DEF Explained
  <2>1. list'[u][ch] > 0 => list[u][ch] > 0 \/ Lists(request[r], u, ch)
    BY <1>0, <1>2, <1>5
  <2>2. Known(u, ch)
    BY <1>1, <1>9, <2>1 DEF Known
  <2> QED
    BY <2>2 DEF Explained
<1>12. Arriving'
  <2> SUFFICES ASSUME NEW u \in User, NEW ch \in Channel, Coming(u, ch),
                      ch \notin inbox[u] \cup lost'[u]
               PROVE  /\ list'[u][ch] > 0
                      /\ \A q \in Request : Reads(request'[q], u) => ch \in request'[q].since
    BY <1>1, <1>8 DEF Arriving
  <2>1. CASE u = u0
    <3>1. ch \in view
      BY <1>2, <1>5, <2>1 DEF Arriving, since
    <3> QED
      BY <1>2, <1>9, <2>1, <3>1
  <2>2. CASE u # u0
    <3>1. /\ list[u][ch] > 0
          /\ \A q \in Request : Reads(request[q], u) => ch \in request[q].since
      BY <1>2, <2>2 DEF Arriving
    <3> QED
      BY <1>2, <1>9, <2>2, <3>1
  <2> QED
    BY <2>1, <2>2
<1>13. Covered'
  <2> SUFFICES ASSUME NEW u \in User, NEW ch \in Channel, u \in members[ch],
                      ch \notin inbox[u] \cup lost'[u],
                      \A q \in Request : ~Brings(request'[q], u, ch)
               PROVE  /\ list'[u][ch] > 0
                      /\ \A q \in Request : Reads(request'[q], u) =>
                            ch \in request'[q].view \cup request'[q].since
    BY <1>1 DEF Covered
  <2>1. CASE u = u0 /\ ch \in view
    BY <1>2, <1>9, <2>1
  <2>2. CASE ~(u = u0 /\ ch \in view)
    <3>1. /\ ch \notin inbox[u] \cup lost[u]
          /\ \A q \in Request : ~Brings(request[q], u, ch)
      BY <1>2, <1>9, <2>2
    <3>2. /\ list[u][ch] > 0
          /\ \A q \in Request : Reads(request[q], u) =>
                ch \in request[q].view \cup request[q].since
      BY <3>1 DEF Covered
    <3>3. u # u0
      BY <1>2, <1>5, <2>2, <3>2 DEF view, since
    <3> QED
      BY <1>2, <1>9, <3>2, <3>3
  <2> QED
    BY <2>1, <2>2
<1>14. Twice'
  <2>1. ASSUME NEW u \in User, NEW ch \in Channel, list'[u][ch] = 2 PROVE u \in crossed'
    <3>1. u # u0
      BY <1>2, <2>1
    <3> QED
      BY <1>2, <1>3, <2>1, <3>1 DEF Twice
  <2>2. ASSUME NEW u \in User, NEW ch \in Channel, NEW q \in Request,
               Created(request'[q], u, ch), list'[u][ch] > 0
        PROVE  u \in crossed'
    <3>1. Created(request[q], u, ch)
      BY <1>9, <2>2
    <3>2. CASE u = u0
      <4>1. ch \in view
        BY <1>2, <2>2, <3>2
      <4> QED
        BY <1>3, <3>1, <3>2, <4>1
    <3>3. CASE u # u0
      BY <1>2, <1>3, <2>2, <3>1, <3>3 DEF Twice
    <3> QED
      BY <3>2, <3>3
  <2> QED
    BY <2>1, <2>2 DEF Twice
<1>15. Heard'
  <2> SUFFICES ASSUME NEW u \in User, NEW ch \in Channel, u \in connected,
                      u \in members[ch] \/ Coming(u, ch), list'[u][ch] > 0
               PROVE  ch \in heard[u] \cup silent'[u] \cup inbox[u]
    BY <1>1, <1>8 DEF Heard
  <2>1. CASE u = u0
    <3>1. ch \in view
      BY <1>2, <2>1
    <3> QED
      BY <1>2, <2>1, <3>1
  <2>2. CASE u # u0
    BY <1>2, <2>2 DEF Heard
  <2> QED
    BY <2>1, <2>2
<1> QED
  BY <1>10, <1>11, <1>12, <1>13, <1>14, <1>15

\* A call that fails: what its answer would have brought is lost.
LEMMA FailListed ==
    ASSUME Typed, Rooms, ListInv, NEW r \in Request, Fail(r) PROVE ListInv'
<1> DEFINE u0 == request[r].by
           c == request[r].ch
<1> USE DEF ListInv
<1>0. u0 \in User
  BY DEF Fail, Typed, RequestsFormed, Formed
<1>1. /\ request[r].stage \in {"sent", "done"}
      /\ kind' = kind /\ members' = members /\ list' = list /\ inbox' = inbox
      /\ connected' = connected /\ heard' = heard /\ gone' = gone
      /\ silent' = silent /\ crossed' = crossed
      /\ lost' = IF request[r].op = "add" \/ c = None THEN lost
                 ELSE [lost EXCEPT ![u0] = @ \cup {c}]
  BY DEF Fail, server, tabs, sockets
<1>2. Ends(r)
  BY Moved
<1>3. \A q \in Request : q # r => Alike(q)
  BY <1>2, ApartAlike DEF Ends
<1>4. Inactive(request'[r])
  BY <1>2 DEF Ends, Inactive, Idle
<1>5. \A u \in User, ch \in Channel :
         /\ ch \in lost[u] => ch \in lost'[u]
         /\ Brings(request[r], u, ch) => ch \in lost'[u]
         /\ ~Comes(request[r], u, ch)
  <2>1. \A u \in User, ch \in Channel :
           Brings(request[r], u, ch) => /\ u = u0 /\ ch = c
                                        /\ ~(request[r].op = "add" \/ c = None)
    BY ConversationsAssumption DEF Brings
  <2>2. \A u \in User, ch \in Channel : ~Comes(request[r], u, ch)
    BY <1>1 DEF Comes
  <2>3. \A u \in User, ch \in Channel :
           /\ ch \in lost[u] => ch \in lost'[u]
           /\ ~(request[r].op = "add" \/ c = None) => c \in lost'[u0]
    BY <1>0, <1>1 DEF Typed, ChatTypeOK
  <2> QED
    BY <2>1, <2>2, <2>3
<1>6. /\ \A u \in User, ch \in Channel : Coming(u, ch)' <=> Coming(u, ch)
      /\ \A ch \in Channel : Announced(ch)' <=> Announced(ch)
  BY <1>3, <1>4, <1>5, InactiveFacts, ComingSame
<1>7. \A q \in Request, u \in User, ch \in Channel :
         /\ Lists(request'[q], u, ch) => Lists(request[q], u, ch)
         /\ Created(request'[q], u, ch) => Created(request[q], u, ch)
         /\ Brings(request[q], u, ch) => Brings(request'[q], u, ch) \/ ch \in lost'[u]
         /\ Reads(request'[q], u) =>
               /\ Reads(request[q], u) /\ request'[q].view = request[q].view
               /\ request[q].since \subseteq request'[q].since
  BY <1>3, <1>4, <1>5, InactiveFacts DEF Alike
<1>8. Fresh'
  BY <1>1, <1>6, <1>7 DEF Fresh
<1>9. Explained'
  BY <1>1, <1>6, <1>7 DEF Explained, Known
<1>10. Arriving'
  BY <1>1, <1>5, <1>6, <1>7 DEF Arriving
<1>11. Covered'
  BY <1>1, <1>5, <1>7 DEF Covered
<1>12. Twice'
  BY <1>1, <1>7 DEF Twice
<1>13. Heard'
  BY <1>1, <1>6 DEF Heard
<1> QED
  BY <1>8, <1>9, <1>10, <1>11, <1>12, <1>13

\* A member leaves, or a channel is deleted.
LEMMA ShrinkListed ==
    ASSUME Typed, Rooms, ListInv,
           \/ \E u \in User, ch \in Channel : Leave(u, ch)
           \/ \E ch \in Channel : DeleteChannel(ch)
    PROVE  ListInv'
<1> USE DEF ListInv
<1>1. /\ list' = list /\ inbox' = inbox /\ connected' = connected /\ heard' = heard
      /\ lost' = lost /\ silent' = silent /\ crossed' = crossed /\ request' = request
  BY DEF Leave, DeleteChannel, tabs, sockets
<1>2. \A u \in User, ch \in Channel :
         /\ u \in members'[ch] => u \in members[ch]
         /\ u \in members[ch] => u \in members'[ch] \/ ch \in gone'[u]
         /\ ch \in gone[u] => ch \in gone'[u]
         /\ kind'[ch] = "none" => kind[ch] = "none"
  <2>1. ASSUME NEW v \in User, NEW c \in Channel, Leave(v, c), NEW u \in User, NEW ch \in Channel
        PROVE  /\ u \in members'[ch] => u \in members[ch]
               /\ u \in members[ch] => u \in members'[ch] \/ ch \in gone'[u]
               /\ ch \in gone[u] => ch \in gone'[u]
               /\ kind'[ch] = "none" => kind[ch] = "none"
    BY <2>1 DEF Leave, Typed, ChatTypeOK
  <2>2. ASSUME NEW c \in Channel, DeleteChannel(c), NEW u \in User, NEW ch \in Channel
        PROVE  /\ u \in members'[ch] => u \in members[ch]
               /\ u \in members[ch] => u \in members'[ch] \/ ch \in gone'[u]
               /\ ch \in gone[u] => ch \in gone'[u]
               /\ kind'[ch] = "none" => kind[ch] = "none"
    BY <2>2 DEF DeleteChannel, Typed, ChatTypeOK
  <2> QED
    BY <2>1, <2>2
<1>3. /\ \A u \in User, ch \in Channel : Coming(u, ch)' <=> Coming(u, ch)
      /\ \A ch \in Channel : Announced(ch)' <=> Announced(ch)
  BY <1>1 DEF Coming, Announced
<1>4. Fresh'
  BY <1>1, <1>2, <1>3 DEF Fresh
<1>5. Explained'
  BY <1>1, <1>2, <1>3 DEF Explained, Known
<1>6. Arriving'
  BY <1>1, <1>3 DEF Arriving
<1>7. Covered'
  BY <1>1, <1>2 DEF Covered
<1>8. Twice'
  BY <1>1 DEF Twice
<1>9. Heard'
  BY <1>1, <1>2, <1>3 DEF Heard
<1> QED
  BY <1>4, <1>5, <1>6, <1>7, <1>8, <1>9

\* A socket is lost, and what was on its way to it.
LEMMA DisconnectListed ==
    ASSUME Typed, Rooms, ListInv, NEW u0 \in User, Disconnect(u0) PROVE ListInv'
<1> USE DEF ListInv
<1>1. /\ kind' = kind /\ members' = members /\ list' = list /\ request' = request
      /\ gone' = gone /\ silent' = silent /\ crossed' = crossed
      /\ connected' = connected \ {u0}
      /\ lost' = [lost EXCEPT ![u0] = @ \cup inbox[u0]]
      /\ inbox' = [inbox EXCEPT ![u0] = {}]
      /\ heard' = [heard EXCEPT ![u0] = {}]
  BY DEF Disconnect, server
<1>2. \A u \in User, ch \in Channel :
         /\ ch \in inbox'[u] => ch \in inbox[u]
         /\ ch \in inbox[u] \cup lost[u] => ch \in inbox'[u] \cup lost'[u]
         /\ u # u0 => heard'[u] = heard[u] /\ inbox'[u] = inbox[u]
  BY <1>1 DEF Typed, ChatTypeOK
<1>3. /\ \A u \in User, ch \in Channel : Coming(u, ch)' <=> Coming(u, ch)
      /\ \A ch \in Channel : Announced(ch)' <=> Announced(ch)
  BY <1>1 DEF Coming, Announced
<1>4. Fresh'
  BY <1>1, <1>2, <1>3 DEF Fresh
<1>5. Explained'
  BY <1>1, <1>2, <1>3 DEF Explained, Known
<1>6. Arriving'
  BY <1>1, <1>2, <1>3 DEF Arriving
<1>7. Covered'
  BY <1>1, <1>2 DEF Covered
<1>8. Twice'
  BY <1>1 DEF Twice
<1>9. Heard'
  BY <1>1, <1>2, <1>3 DEF Heard
<1> QED
  BY <1>4, <1>5, <1>6, <1>7, <1>8, <1>9

\* A new socket is subscribed to what its user is a member of by now.
LEMMA ReconnectListed ==
    ASSUME Typed, Rooms, ListInv, NEW u0 \in User, Reconnect(u0) PROVE ListInv'
<1> USE DEF ListInv
<1>1. /\ kind' = kind /\ members' = members /\ list' = list /\ request' = request
      /\ inbox' = inbox /\ gone' = gone /\ lost' = lost /\ crossed' = crossed
      /\ connected' = connected \cup {u0}
      /\ heard' = [heard EXCEPT ![u0] = Mine(u0)]
      /\ silent' = [silent EXCEPT ![u0] =
            {request[r].ch : r \in {q \in Flushed : u0 \in Told(request[q])}}]
  BY DEF Reconnect, server
<1>2. /\ heard'[u0] = Mine(u0)
      /\ silent'[u0] = {request[r].ch : r \in {q \in Flushed : u0 \in Told(request[q])}}
      /\ \A u \in User : u # u0 => heard'[u] = heard[u] /\ silent'[u] = silent[u]
  BY <1>1 DEF Typed, ChatTypeOK
<1>3. \A ch \in Channel :
         /\ u0 \in members[ch] => ch \in heard'[u0]
         /\ Coming(u0, ch) => ch \in silent'[u0]
  <2>1. ASSUME NEW ch \in Channel, Coming(u0, ch) PROVE ch \in silent'[u0]
    <3>1. PICK q \in Request : Comes(request[q], u0, ch)
      BY <2>1 DEF Coming
    <3>2. q \in Flushed /\ u0 \in Told(request[q]) /\ request[q].ch = ch
      BY <3>1 DEF Comes, Flushed
    <3> QED
      BY <1>2, <3>2
  <2> QED
    BY <1>2, <2>1 DEF Mine
<1>4. /\ \A u \in User, ch \in Channel : Coming(u, ch)' <=> Coming(u, ch)
      /\ \A ch \in Channel : Announced(ch)' <=> Announced(ch)
  BY <1>1 DEF Coming, Announced
<1>5. Fresh'
  BY <1>1, <1>4 DEF Fresh
<1>6. Explained'
  BY <1>1, <1>4 DEF Explained, Known
<1>7. Arriving'
  BY <1>1, <1>4 DEF Arriving
<1>8. Covered'
  BY <1>1 DEF Covered
<1>9. Twice'
  BY <1>1 DEF Twice
<1>10. Heard'
  <2> SUFFICES ASSUME NEW u \in User, NEW ch \in Channel, u \in connected',
                      u \in members[ch] \/ Coming(u, ch), list[u][ch] > 0
               PROVE  ch \in heard'[u] \cup silent'[u] \cup inbox[u]
    BY <1>1, <1>4 DEF Heard
  <2>1. CASE u = u0
    BY <1>3, <2>1
  <2>2. CASE u # u0
    BY <1>1, <1>2, <2>2 DEF Heard
  <2> QED
    BY <2>1, <2>2
<1> QED
  BY <1>5, <1>6, <1>7, <1>8, <1>9, <1>10

\* A former socket's endpoint sweeps the user out, which is known of each channel.
LEMMA SweepListed ==
    ASSUME Typed, ListInv, NEW u0 \in User, NEW chs \in SUBSET Channel, NEW topic,
           Sweep(u0, chs, topic)
    PROVE  ListInv'
<1> USE DEF ListInv
<1>1. /\ kind' = kind /\ members' = members /\ list' = list /\ request' = request
      /\ inbox' = inbox /\ gone' = gone /\ lost' = lost /\ crossed' = crossed
      /\ connected' = connected
      /\ heard' = [heard EXCEPT ![u0] = @ \ chs]
      /\ silent' = [silent EXCEPT ![u0] = @ \cup chs]
  BY DEF Sweep, server
<1>2. \A u \in User : heard[u] \cup silent[u] \subseteq heard'[u] \cup silent'[u]
  BY <1>1 DEF Typed, ChatTypeOK
<1>3. /\ \A u \in User, ch \in Channel : Coming(u, ch)' <=> Coming(u, ch)
      /\ \A ch \in Channel : Announced(ch)' <=> Announced(ch)
  BY <1>1 DEF Coming, Announced
<1>4. Fresh'
  BY <1>1, <1>3 DEF Fresh
<1>5. Explained'
  BY <1>1, <1>3 DEF Explained, Known
<1>6. Arriving'
  BY <1>1, <1>3 DEF Arriving
<1>7. Covered'
  BY <1>1 DEF Covered
<1>8. Twice'
  BY <1>1 DEF Twice
<1>9. Heard'
  BY <1>1, <1>2, <1>3 DEF Heard
<1> QED
  BY <1>4, <1>5, <1>6, <1>7, <1>8, <1>9

LEMMA ListStep ==
    ASSUME Typed, Rooms, ListInv, ChatMove PROVE ListInv'
<1>1. ASSUME NEW r \in Request, Apart(r), Inactive(request[r]), Inactive(request'[r]),
             UNCHANGED <<server, tabs, lost, gone, silent, crossed>>
      PROVE  ListInv'
  <2>1. Alike(r)
    BY <1>1, InactiveFacts, ApartAlike DEF Alike
  <2>2. \A q \in Request : Alike(q)
    BY <1>1, <2>1, ApartAlike
  <2> QED
    BY <1>1, <2>2, AlikeKeeps
<1>a. Inactive(Idle)
  BY DEF Inactive, Idle
<1>2. CASE Elsewhere
  <2>1. request' = request /\ UNCHANGED <<server, tabs, lost, gone, silent, crossed>>
    BY <1>2 DEF Elsewhere, causes
  <2>2. \A q \in Request : Alike(q)
    BY <2>1 DEF Alike
  <2> QED
    BY <2>1, <2>2, AlikeKeeps
<1>3. ASSUME NEW r \in Request, NEW u \in User, Calls(r, u) PROVE ListInv'
  <2>1. UNCHANGED <<server, tabs, lost, gone, silent, crossed>>
    BY <1>3 DEF Calls, Call, causes
  <2>2. /\ Apart(r) /\ request[r] = Idle /\ request'[r].stage = "sent"
        /\ request'[r].op = "load" => request'[r].ch = None
    BY <1>3, Called
  <2> QED
    BY <1>1, <1>a, <2>1, <2>2 DEF Inactive
<1>4. ASSUME NEW r \in Request, JoinChannel(r), Rejects(r) PROVE ListInv'
  <2>1. UNCHANGED <<server, tabs, lost, gone, silent, crossed>> /\ Inactive(request[r])
    BY <1>4 DEF JoinChannel, Rejects, Reaches, causes, Inactive
  <2>2. Apart(r) /\ request'[r] = Idle
    BY <1>4 DEF Rejects, Apart, Typed, ChatTypeOK
  <2> QED
    BY <1>1, <1>a, <2>1, <2>2
<1>5. ASSUME NEW r \in Request, AddMember(r) PROVE ListInv'
  <2>1. UNCHANGED <<server, tabs, lost, gone, silent, crossed>> /\ Inactive(request[r])
    BY <1>5 DEF AddMember, Rejects, Reaches, causes, Inactive
  <2>2. Moves(r, "open", "add", request[r].ch) \/ Ends(r)
    BY <1>5, Moved
  <2>3. Apart(r) /\ Inactive(request'[r])
    BY <1>a, <2>2 DEF Moves, Ends, Inactive
  <2> QED
    BY <1>1, <2>1, <2>3
<1>6. ASSUME NEW r \in Request, AddAnswered(r) PROVE ListInv'
  <2>1. UNCHANGED <<server, tabs, lost, gone, silent, crossed>> /\ Inactive(request[r])
    BY <1>6 DEF AddAnswered, causes, Inactive
  <2>2. Apart(r) /\ request'[r] = Idle
    BY <1>6, Moved DEF Ends
  <2> QED
    BY <1>1, <1>a, <2>1, <2>2
<1>7. ASSUME NEW r \in Request, NEW ch \in Channel, NewDM(r, ch) PROVE ListInv'
  <2>1. UNCHANGED <<server, tabs, lost, gone, silent, crossed>> /\ Inactive(request[r])
    BY <1>7 DEF NewDM, Reaches, Inactive
  <2>2. Apart(r) /\ Inactive(request'[r])
    BY <1>7, Moved DEF Moves, Inactive
  <2> QED
    BY <1>1, <2>1, <2>2
<1>8. CASE \E r \in Request :
             \/ \E ch \in Channel : CreateChannel(r, ch) \/ FindDM(r, ch)
             \/ ListChannels(r) \/ (JoinChannel(r) /\ ~Rejects(r))
             \/ Announce(r) \/ Commit(r) \/ Rollback(r)
             \/ CreateAnswered(r) \/ DMAnswered(r) \/ LoadAnswered(r) \/ Fail(r)
  BY <1>8, CreateListed, FindListed, ReadListed, JoinListed, AnnounceListed, CommitListed,
     RollbackListed, CreationListed, DMListed, LoadListed, FailListed
<1>9. CASE \/ \E u \in User, ch \in Channel : Receive(u, ch) \/ Leave(u, ch)
           \/ \E u \in User : Disconnect(u) \/ Reconnect(u)
           \/ \E ch \in Channel : DeleteChannel(ch)
  BY <1>9, ReceiveListed, ShrinkListed, DisconnectListed, ReconnectListed
<1>10. CASE \E u \in User, chs \in SUBSET Channel, topic \in BOOLEAN : Sweep(u, chs, topic)
  BY <1>10, SweepListed
<1> QED
  BY <1>2, <1>3, <1>4, <1>5, <1>6, <1>7, <1>8, <1>9, <1>10 DEF ChatMove, ChatStep

LEMMA ChatStarts == ChatInit => ChatInv
<1> SUFFICES ASSUME ChatInit PROVE ChatInv
  OBVIOUS
<1>1. Typed
  BY TypedStarts
<1>2. /\ \A r \in Request : request[r].stage = "idle"
      /\ \A u \in User, ch \in Channel : list[u][ch] = 0 /\ inbox[u] = {}
      /\ \A ch \in Channel : members[ch] = {}
  BY DEF ChatInit, Idle
<1>3. /\ \A ch \in Channel : kind[ch] = "none"
      /\ Flushed = {}
  BY <1>2 DEF ChatInit, Flushed
<1>4. Rooms
  BY <1>2, <1>3 DEF Rooms
<1>5. Pairs
  BY <1>3 DEF Pairs, Direct
<1>6. \A r \in Request, u \in User, ch \in Channel :
         /\ ~Comes(request[r], u, ch) /\ ~Lists(request[r], u, ch)
         /\ ~Created(request[r], u, ch)
  BY <1>2 DEF Comes, Lists, Created
<1>7. Fresh /\ Explained
  BY <1>2, <1>6 DEF Fresh, Explained, Known
<1>8. Arriving /\ Covered /\ Twice /\ Heard
  BY <1>2, <1>6 DEF Arriving, Covered, Twice, Heard, Coming
<1> QED
  BY <1>1, <1>4, <1>5, <1>7, <1>8 DEF ChatInv, Typed

LEMMA ChatKeeps == ChatInv /\ ChatMove => ChatInv'
<1> SUFFICES ASSUME ChatInv, ChatMove PROVE ChatInv'
  OBVIOUS
<1>1. Typed /\ Rooms /\ Pairs /\ ListInv
  BY DEF ChatInv, Typed, ListInv
<1>2. Typed' /\ Rooms' /\ Pairs' /\ ListInv'
  BY <1>1, TypedStep, RoomsStep, PairsStep, ListStep
<1> QED
  BY <1>2 DEF ChatInv, Typed, ListInv

-----------------------------------------------------------------------------
(***************************************************************************)
(* Files and the messages they are sent with.                              *)
(***************************************************************************)
FileTypeOK ==
    /\ upload \in [File -> UploadStage]
    /\ home \in [File -> Channel \cup {None}]
    /\ link \in [File -> Message \cup {None}]
    /\ send \in [Message -> Sends]
    /\ contended \in SUBSET File

FileInv == FileTypeOK /\ Taken1 /\ AnnouncedIsLinked

\* Every step of this module is one of the channels, or leaves them alone.
LEMMA NextMoves ==
    ASSUME ChatTypeOK, Next PROVE ChatMove
<1>1. deeds \in 0..MaxDeeds /\ MaxDeeds \in Nat
  BY ConversationsAssumption DEF ChatTypeOK
<1>2. Deed => deeds' \in 0..MaxDeeds
  BY <1>1 DEF Deed
<1>3. UNCHANGED chatVars => Elsewhere
  BY <1>1 DEF chatVars, Elsewhere, server, tabs, sockets, causes
<1>4. Deed /\ UNCHANGED <<server, request, tabs, causes>> => Elsewhere
  BY <1>2 DEF Elsewhere
<1>5. ASSUME NEW f \in File, \/ \E u \in User, ch \in Channel : Upload(f, u, ch)
                             \/ Save(f) \/ LoseUpload(f)
      PROVE  Elsewhere
  <2>1. Save(f) => Elsewhere
    BY <1>3 DEF Save
  <2>2. ASSUME NEW u \in User, NEW ch \in Channel, Upload(f, u, ch) PROVE Elsewhere
    BY <1>4, <2>2 DEF Upload
  <2>3. LoseUpload(f) => Elsewhere
    BY <1>4 DEF LoseUpload
  <2> QED
    BY <1>5, <2>1, <2>2, <2>3
<1>6. ASSUME NEW m \in Message,
             \/ \E u \in User, ch \in Channel, ids \in SUBSET File : SendMessage(m, u, ch, ids)
             \/ PostMessage(m) \/ LinkFiles(m) \/ CommitMessage(m)
             \/ \E n \in Message \ {m} : RefuseMessage(m, n)
      PROVE  Elsewhere
  BY <1>3, <1>6 DEF SendMessage, PostMessage, LinkFiles, CommitMessage, RefuseMessage
<1>7. ASSUME NEW m \in Message,
             \/ LimitMessage(m) \/ DeleteMessage(m)
             \/ \E n \in Message \ {m} : FailMessage(m, n)
      PROVE  Elsewhere
  BY <1>4, <1>7 DEF LimitMessage, DeleteMessage, FailMessage
<1>8. ASSUME NEW ch \in Channel, DeleteChannelAndFiles(ch) PROVE DeleteChannel(ch)
  BY <1>8 DEF DeleteChannelAndFiles
<1> QED
  BY <1>5, <1>6, <1>7, <1>8 DEF Next, ChatMove

\* What a file and a message become, as far as types go.
LEMMA SendTyped ==
    ASSUME FileTypeOK, NEW m \in Message, NEW st \in SendStage
    PROVE  /\ [send EXCEPT ![m].stage = st] \in [Message -> Sends]
           /\ [send[m] EXCEPT !.stage = st] \in Sends
  BY DEF FileTypeOK, Sends

LEMMA CascadeTyped ==
    ASSUME FileTypeOK, NEW fs, Cascade(fs)
    PROVE  upload' \in [File -> UploadStage] /\ link' \in [File -> Message \cup {None}]
  BY DEF FileTypeOK, Cascade, UploadStage

LEMMA FailedTyped ==
    ASSUME FileTypeOK, NEW m \in Message, NEW n \in Message, NEW st \in SendStage,
           FailedAs(m, st, n)
    PROVE  FileTypeOK'
<1>1. send[m] \in Sends
  BY DEF FileTypeOK
<1>2. [send[m] EXCEPT !.stage = st] \in Sends
  BY SendTyped
<1>3. [send[m] EXCEPT !.stage = "sent", !.taken = {}, !.first = FALSE] \in Sends
  BY <1>1 DEF Sends, SendStage
<1>4. send' \in [Message -> Sends]
  BY <1>2, <1>3 DEF FailedAs, FileTypeOK
<1> QED
  BY <1>4 DEF FailedAs, FileTypeOK

LEMMA FileTypeStep ==
    ASSUME FileTypeOK, Next \/ UNCHANGED vars PROVE FileTypeOK'
<1>1. CASE UNCHANGED fileVars
  BY <1>1 DEF fileVars, FileTypeOK
<1>2. ASSUME NEW f \in File, \/ \E u \in User, ch \in Channel : Upload(f, u, ch)
                             \/ Save(f) \/ LoseUpload(f)
      PROVE  FileTypeOK'
  BY <1>2 DEF Upload, Save, LoseUpload, FileTypeOK, UploadStage
<1>3. ASSUME NEW ch \in Channel, DeleteChannelAndFiles(ch) PROVE FileTypeOK'
  <2>1. upload' \in [File -> UploadStage] /\ link' \in [File -> Message \cup {None}]
    BY <1>3, CascadeTyped DEF DeleteChannelAndFiles
  <2>2. \A m \in Message : [send[m] EXCEPT !.stage = "void"] \in Sends
    BY SendTyped DEF SendStage
  <2>3. send' \in [Message -> Sends]
    BY <1>3, <2>2 DEF DeleteChannelAndFiles, FileTypeOK
  <2> QED
    BY <1>3, <2>1, <2>3 DEF DeleteChannelAndFiles, FileTypeOK
<1>4. ASSUME NEW m \in Message, NEW u \in User, NEW ch \in Channel, NEW ids \in SUBSET File,
             SendMessage(m, u, ch, ids)
      PROVE  FileTypeOK'
  <2>1. [NoSend EXCEPT !.stage = "sent", !.by = u, !.ch = ch, !.ids = ids] \in Sends
    BY DEF NoSend, Sends, SendStage
  <2>2. send' \in [Message -> Sends]
    BY <1>4, <2>1 DEF SendMessage, FileTypeOK
  <2> QED
    BY <1>4, <2>2 DEF SendMessage, FileTypeOK
<1>5. ASSUME NEW m \in Message, PostMessage(m) PROVE FileTypeOK'
  <2> DEFINE taken == Taken(m)
  <2>1. taken \in SUBSET File /\ send[m] \in Sends
    BY DEF Taken, FileTypeOK, Sends
  <2>2. /\ send' = [send EXCEPT ![m].stage = "told", ![m].taken = taken]
        /\ contended' = contended \cup
             {f \in taken : \E n \in Uncommitted : f \in send[n].taken}
        /\ UNCHANGED <<upload, home, link>>
    BY <1>5 DEF PostMessage
  <2> HIDE DEF taken
  <2>3. send' \in [Message -> Sends]
    BY <2>1, <2>2 DEF FileTypeOK, Sends, SendStage
  <2> QED
    BY <2>1, <2>2, <2>3 DEF FileTypeOK
<1>6. ASSUME NEW m \in Message, LinkFiles(m) \/ CommitMessage(m) \/ LimitMessage(m)
      PROVE  FileTypeOK'
  <2>1. send' \in [Message -> Sends]
    BY ZenonT(60), <1>6, SendTyped DEF LinkFiles, CommitMessage, LimitMessage, SendStage
  <2> QED
    BY <1>6, <2>1 DEF LinkFiles, CommitMessage, LimitMessage, FileTypeOK
<1>7. ASSUME NEW m \in Message, NEW n \in Message, RefuseMessage(m, n) \/ FailMessage(m, n)
      PROVE  FileTypeOK'
  BY <1>7, FailedTyped DEF RefuseMessage, FailMessage, SendStage
<1>8. ASSUME NEW m \in Message, DeleteMessage(m) PROVE FileTypeOK'
  <2>1. upload' \in [File -> UploadStage] /\ link' \in [File -> Message \cup {None}]
    BY <1>8, CascadeTyped DEF DeleteMessage
  <2>2. send' \in [Message -> Sends]
    BY <1>8, SendTyped DEF DeleteMessage, SendStage
  <2> QED
    BY <1>8, <2>1, <2>2 DEF DeleteMessage, FileTypeOK
<1> QED
  BY <1>1, <1>2, <1>3, <1>4, <1>5, <1>6, <1>7, <1>8 DEF Next, vars

\* Files stay as they are, or go with their rows; messages take no more.
LEMMA FilesKeep ==
    ASSUME Taken1, AnnouncedIsLinked, contended' = contended,
           \A m \in Message :
              /\ send'[m].taken \subseteq send[m].taken
              /\ send'[m].stage \in {"told", "linked", "committed"} => m \in Taking
              /\ send'[m].stage = "committed" => send[m].stage = "committed",
           \A f \in File : upload[f] \in {"saved", "gone"} =>
              /\ upload'[f] \in {"saved", "gone"}
              /\ upload'[f] = "saved" => upload[f] = "saved" /\ link'[f] = link[f],
           \A m \in Message : send[m].taken \subseteq File
    PROVE  Taken1' /\ AnnouncedIsLinked'
<1>1. \A m \in Message : \A f \in send'[m].taken : upload'[f] \in {"saved", "gone"}
  BY DEF Taken1
<1>2. \A m, n \in Taking' : \A f \in send'[m].taken \cap send'[n].taken :
          m # n /\ upload'[f] = "saved" => f \in contended'
  BY DEF Taken1, Taking
<1>3. AnnouncedIsLinked'
  BY DEF Taken1, AnnouncedIsLinked
<1> QED
  BY <1>1, <1>2, <1>3 DEF Taken1

LEMMA FileStep ==
    ASSUME FileInv, Next \/ UNCHANGED vars PROVE FileInv'
<1> USE DEF FileInv
<1>0. /\ \A m \in Message : /\ send[m].taken \in SUBSET File
                            /\ send[m] \in Sends
      /\ send \in [Message -> Sends]
  BY DEF FileTypeOK, Sends
<1>1. ASSUME UNCHANGED fileVars PROVE Taken1' /\ AnnouncedIsLinked'
  <2>1. upload' = upload /\ link' = link /\ send' = send /\ contended' = contended
    BY <1>1 DEF fileVars
  <2> QED
    BY <1>0, <2>1, FilesKeep DEF Taking
<1>2. ASSUME NEW f \in File, \/ \E u \in User, ch \in Channel : Upload(f, u, ch)
                             \/ Save(f) \/ LoseUpload(f)
      PROVE  Taken1' /\ AnnouncedIsLinked'
  <2>1. /\ upload[f] \in {"unused", "written"}
        /\ send' = send /\ link' = link /\ contended' = contended
        /\ \A g \in File : g # f => upload'[g] = upload[g]
    BY <1>2 DEF Upload, Save, LoseUpload, FileTypeOK
  <2> QED
    BY <1>0, <2>1, FilesKeep DEF Taking
<1>3. ASSUME NEW ch \in Channel, DeleteChannelAndFiles(ch) PROVE Taken1' /\ AnnouncedIsLinked'
  <2>1. /\ contended' = contended
        /\ \A g \in File : \/ upload'[g] = "gone"
                           \/ upload'[g] = upload[g] /\ link'[g] = link[g]
    BY <1>3 DEF DeleteChannelAndFiles, Cascade
  <2>2. \A k \in Message :
           \/ send'[k] = send[k]
           \/ send'[k] = [send[k] EXCEPT !.stage = "void"]
    BY <1>3 DEF DeleteChannelAndFiles
  <2>3. \A k \in Message :
           /\ send'[k].taken = send[k].taken
           /\ send'[k].stage = send[k].stage \/ send'[k].stage = "void"
    BY <1>0, <2>2 DEF Sends
  <2> QED
    BY <1>0, <2>1, <2>3, FilesKeep DEF Taking
<1>4. ASSUME NEW m \in Message, NEW u \in User, NEW ch \in Channel, NEW ids \in SUBSET File,
             SendMessage(m, u, ch, ids)
      PROVE  Taken1' /\ AnnouncedIsLinked'
  <2>1. /\ send' = [send EXCEPT ![m] =
              [NoSend EXCEPT !.stage = "sent", !.by = u, !.ch = ch, !.ids = ids]]
        /\ UNCHANGED <<upload, link, contended>>
    BY <1>4 DEF SendMessage
  <2>2. /\ send'[m].taken = {} /\ send'[m].stage = "sent"
        /\ \A k \in Message : k # m => send'[k] = send[k]
    BY <1>0, <2>1 DEF NoSend
  <2> QED
    BY <1>0, <2>1, <2>2, FilesKeep DEF Taking
<1>5. ASSUME NEW m \in Message, PostMessage(m) PROVE Taken1' /\ AnnouncedIsLinked'
  <2> DEFINE taken == Taken(m)
  <2>1. /\ send' = [send EXCEPT ![m].stage = "told", ![m].taken = taken]
        /\ contended' = contended \cup
             {f \in taken : \E n \in Uncommitted : f \in send[n].taken}
        /\ UNCHANGED <<upload, home, link>>
        /\ send[m].stage = "sent"
    BY <1>5 DEF PostMessage
  <2>2. \A f \in taken : f \in File /\ upload[f] = "saved" /\ link[f] = None
    BY <1>0 DEF Taken, Sends
  <2> HIDE DEF taken
  <2>3. /\ send'[m].stage = "told" /\ send'[m].taken = taken
        /\ \A k \in Message : k # m => send'[k] = send[k]
    BY <1>0, <2>1 DEF Sends
  <2>4. ASSUME NEW n \in Taking, NEW f \in send[n].taken, f \in taken PROVE f \in contended'
    <3>1. CASE n \in Uncommitted
      BY <2>1, <2>4, <3>1
    <3>2. CASE n \notin Uncommitted
      <4>1. send[n].stage = "committed" /\ n \in Message
        BY <2>4, <3>2 DEF Taking, Uncommitted
      <4>2. upload[f] = "saved" /\ link[f] # n
        BY <2>2, <2>4, <4>1, AttachmentsAssumption
      <4> QED
        BY <2>1, <2>4, <4>1, <4>2 DEF AnnouncedIsLinked
    <3> QED
      BY <3>1, <3>2
  <2>5. \A k \in Taking' : k = m \/ k \in Taking
    BY <2>3 DEF Taking
  <2>6. \A k \in Message : \A f \in send'[k].taken : upload'[f] \in {"saved", "gone"}
    BY <2>1, <2>2, <2>3 DEF Taken1
  <2>7. ASSUME NEW k \in Taking', NEW n \in Taking', NEW f \in send'[k].taken \cap send'[n].taken,
               k # n, upload'[f] = "saved"
        PROVE  f \in contended'
    <3>1. k \in Message /\ n \in Message
      BY DEF Taking
    <3>2. CASE k = m
      BY <2>3, <2>4, <2>5, <2>7, <3>1, <3>2
    <3>3. CASE n = m
      BY <2>3, <2>4, <2>5, <2>7, <3>1, <3>3
    <3>4. CASE k # m /\ n # m
      BY <2>1, <2>3, <2>5, <2>7, <3>1, <3>4 DEF Taken1
    <3> QED
      BY <3>2, <3>3, <3>4
  <2>8. AnnouncedIsLinked'
    BY <2>1, <2>3 DEF AnnouncedIsLinked
  <2> QED
    BY <2>6, <2>7, <2>8 DEF Taken1
<1>6. ASSUME NEW m \in Message, LinkFiles(m) \/ LimitMessage(m)
      PROVE  Taken1' /\ AnnouncedIsLinked'
  <2>1. /\ UNCHANGED <<upload, link, contended>>
        /\ \/ send[m].stage = "told" /\ send' = [send EXCEPT ![m].stage = "linked"]
           \/ send' = [send EXCEPT ![m].stage = "void"]
    BY <1>6 DEF LinkFiles, LimitMessage
  <2>2. /\ send'[m].taken = send[m].taken
        /\ \/ send[m].stage = "told" /\ send'[m].stage = "linked"
           \/ send'[m].stage = "void"
        /\ \A k \in Message : k # m => send'[k] = send[k]
    BY <1>0, <2>1 DEF Sends
  <2> QED
    BY <1>0, <2>1, <2>2, FilesKeep DEF Taking
<1>7. ASSUME NEW m \in Message, CommitMessage(m) PROVE Taken1' /\ AnnouncedIsLinked'
  <2>1. /\ send[m].stage = "linked" /\ send' = [send EXCEPT ![m].stage = "committed"]
        /\ link' = [f \in File |-> IF f \in send[m].taken THEN m ELSE link[f]]
        /\ upload' = upload /\ contended' = contended
    BY <1>7 DEF CommitMessage
  <2>2. /\ send'[m].taken = send[m].taken /\ send'[m].stage = "committed"
        /\ \A k \in Message : k # m => send'[k] = send[k]
    BY <1>0, <2>1 DEF Sends
  <2>3. m \in Taking /\ Taking' = Taking
    BY <2>1, <2>2 DEF Taking
  <2>4. Taken1'
    BY <2>1, <2>2, <2>3 DEF Taken1
  <2>5. ASSUME NEW k \in Message, send'[k].stage = "committed", NEW f \in send'[k].taken,
               upload'[f] = "saved"
        PROVE  link'[f] = k \/ f \in contended'
    <3>0. f \in File /\ f \in send[k].taken
      BY <1>0, <2>2, <2>5
    <3>1. CASE k = m
      BY <2>1, <3>0, <3>1
    <3>2. CASE k # m /\ f \in send[m].taken
      <4>1. k \in Taking
        BY <2>2, <2>5, <3>2 DEF Taking
      <4> QED
        BY <2>1, <2>3, <2>5, <3>0, <3>2, <4>1 DEF Taken1
    <3>3. CASE k # m /\ f \notin send[m].taken
      BY <2>1, <2>2, <2>5, <3>0, <3>3 DEF AnnouncedIsLinked
    <3> QED
      BY <3>1, <3>2, <3>3
  <2> QED
    BY <2>4, <2>5 DEF AnnouncedIsLinked
<1>8. ASSUME NEW m \in Message, NEW n \in Message \ {m}, RefuseMessage(m, n) \/ FailMessage(m, n)
      PROVE  Taken1' /\ AnnouncedIsLinked'
  <2>1. UNCHANGED <<upload, link, contended>>
    BY <1>8 DEF RefuseMessage, FailMessage, FailedAs
  <2>2. PICK st : /\ st = "void" \/ (st = "committed" /\ send[m].stage = "committed")
                  /\ FailedAs(m, st, n)
    BY <1>8 DEF RefuseMessage, FailMessage
  <2>3. send'[m] = [send[m] EXCEPT !.stage = st]
    BY <2>2 DEF FailedAs
  <2>4. send'[m].taken = send[m].taken /\ send'[m].stage = st
    BY <1>0, <2>3 DEF Sends
  <2>5. /\ \/ send'[n] = send[n]
           \/ send'[n] = [send[m] EXCEPT !.stage = "sent", !.taken = {}, !.first = FALSE]
        /\ \A k \in Message : k # m /\ k # n => send'[k] = send[k]
    BY <2>2 DEF FailedAs
  <2>6. send'[n] = send[n] \/ (send'[n].taken = {} /\ send'[n].stage = "sent")
    BY <1>0, <2>5 DEF Sends
  <2>7. \A k \in Message :
           /\ send'[k].taken \subseteq send[k].taken
           /\ send'[k].stage \in {"told", "linked", "committed"} => k \in Taking
           /\ send'[k].stage = "committed" => send[k].stage = "committed"
    BY <2>2, <2>4, <2>5, <2>6 DEF Taking
  <2> QED
    BY <1>0, <2>1, <2>7, FilesKeep
<1>9. ASSUME NEW m \in Message, DeleteMessage(m) PROVE Taken1' /\ AnnouncedIsLinked'
  <2>1. /\ contended' = contended /\ send' = [send EXCEPT ![m].stage = "void"]
        /\ \A g \in File : \/ upload'[g] = "gone"
                           \/ upload'[g] = upload[g] /\ link'[g] = link[g]
    BY <1>9 DEF DeleteMessage, Cascade
  <2>2. /\ send'[m].taken = send[m].taken /\ send'[m].stage = "void"
        /\ \A k \in Message : k # m => send'[k] = send[k]
    BY <1>0, <2>1 DEF Sends
  <2> QED
    BY <1>0, <2>1, <2>2, FilesKeep DEF Taking
<1>10. FileTypeOK'
  BY FileTypeStep
<1>11. Taken1' /\ AnnouncedIsLinked'
  BY <1>1, <1>2, <1>3, <1>4, <1>5, <1>6, <1>7, <1>8, <1>9 DEF Next, vars
<1> QED
  BY <1>10, <1>11

-----------------------------------------------------------------------------
(***************************************************************************)
(* What holds of every behaviour of the server and its tabs.               *)
(***************************************************************************)
LEMMA InvariantHolds == Spec => [](ChatInv /\ FileInv)
<1>1. Init => ChatInv /\ FileInv
  <2> SUFFICES ASSUME Init PROVE ChatInv /\ FileInv
    OBVIOUS
  <2>1. NoSend \in Sends /\ NoSend.taken = {} /\ NoSend.stage = "unused"
    BY DEF NoSend, Sends, SendStage
  <2>2. FileTypeOK
    BY <2>1 DEF Init, FileTypeOK, UploadStage
  <2>3. Taken1 /\ AnnouncedIsLinked
    BY <2>1 DEF Init, Taken1, Taking, AnnouncedIsLinked
  <2> QED
    BY <2>2, <2>3, ChatStarts DEF Init, FileInv
<1>2. ASSUME ChatInv, FileInv, [Next]_vars PROVE ChatInv' /\ FileInv'
  <2>1. ChatMove
    <3>1. Next => ChatMove
      BY <1>2, NextMoves DEF ChatInv
    <3>2. UNCHANGED vars => ChatMove
      BY <1>2 DEF ChatMove, Elsewhere, vars, chatVars, server, tabs, sockets, causes, ChatInv, ChatTypeOK
    <3> QED
      BY <1>2, <3>1, <3>2
  <2> QED
    BY <1>2, <2>1, ChatKeeps, FileStep
<1> QED
  BY <1>1, <1>2, PTL DEF Spec

\* Every variable keeps its type.
THEOREM AttachmentsTypeInvariant == Spec => []TypeOK
<1>1. ChatInv /\ FileInv => TypeOK
  BY DEF ChatInv, FileInv, FileTypeOK, TypeOK
<1> QED
  BY <1>1, InvariantHolds, PTL

\* Two users have one direct channel, unless two requests overlapped or somebody
\* joined or left one (create_dm of channels.py).
THEOREM OneDirectChannelAlways == Spec => []OneDirectChannel
<1>1. ASSUME ChatInv PROVE OneDirectChannel
  <2> SUFFICES ASSUME NEW u \in User, NEW v \in User, ~overlapped, ~stirred
               PROVE  Cardinality(Direct(u, v)) <= 1
    BY DEF OneDirectChannel
  <2>1. \A c, d \in Direct(u, v) : c = d
    BY <1>1 DEF ChatInv, Pairs
  <2>2. CASE Direct(u, v) = {}
    BY <2>2, FS_EmptySet
  <2>3. CASE Direct(u, v) # {}
    <3>1. PICK c : Direct(u, v) = {c}
      BY <2>1, <2>3
    <3>2. Cardinality(Direct(u, v)) = 1
      BY <3>1, FS_Singleton
    <3> QED
      BY <3>2
  <2> QED
    BY <2>2, <2>3
<1> QED
  BY <1>1, InvariantHolds, PTL

\* A tab at rest lists its user's channels, each once, unless one of the named
\* causes kept one from it (chatStore.ts, channels.py).
THEOREM ListAgreesAlways == Spec => []ListAgrees
<1>1. ASSUME ChatInv PROVE ListAgrees
  <2> SUFFICES ASSUME NEW u \in User, NEW ch \in Channel, AtRest(u)
               PROVE  \/ list[u][ch] = IF u \in members[ch] THEN 1 ELSE 0
                      \/ list[u][ch] = 0 /\ ch \in lost[u]
                      \/ list[u][ch] > 0 /\ ch \in gone[u]
                      \/ list[u][ch] = 2 /\ u \in crossed
    BY DEF ListAgrees
  <2>1. /\ inbox[u] = {}
        /\ \A r \in Request : u # request[r].by /\ u # request[r].whom
    BY DEF AtRest
  <2>2. /\ ~Coming(u, ch)
        /\ \A r \in Request : ~Lists(request[r], u, ch) /\ ~Brings(request[r], u, ch)
    BY <2>1 DEF Coming, Comes, Told, Lists, Brings
  <2>3. list[u][ch] > 0 => u \in members[ch] \/ ch \in gone[u]
    BY <1>1, <2>2 DEF ChatInv, Explained, Known
  <2>4. u \in members[ch] => ch \in lost[u] \/ list[u][ch] > 0
    BY <1>1, <2>1, <2>2 DEF ChatInv, Covered
  <2>5. list[u][ch] = 2 => u \in crossed
    BY <1>1 DEF ChatInv, Twice
  <2>6. list[u][ch] \in {0, 1, 2}
    BY <1>1 DEF ChatInv, ChatTypeOK
  <2>7. CASE list[u][ch] = 0
    BY <2>4, <2>7
  <2>8. CASE list[u][ch] = 1
    BY <2>3, <2>8
  <2>9. CASE list[u][ch] = 2
    BY <2>5, <2>9
  <2> QED
    BY <2>6, <2>7, <2>8, <2>9
<1> QED
  BY <1>1, InvariantHolds, PTL

\* A connected tab at rest is subscribed to what it lists of its user's, unless
\* it came to list it without subscribing, or its former socket's endpoint swept
\* the user out of it (chatStore.ts, useWebSocket.ts, manager.py).
THEOREM HeardHasCauseAlways == Spec => []HeardHasCause
<1>1. ASSUME ChatInv PROVE HeardHasCause
  <2> SUFFICES ASSUME NEW u \in connected, NEW ch \in Channel, AtRest(u),
                      u \in members[ch], list[u][ch] > 0
               PROVE  ch \in heard[u] \cup silent[u]
    BY DEF HeardHasCause
  <2>1. u \in User /\ inbox[u] = {}
    BY <1>1 DEF ChatInv, ChatTypeOK, AtRest
  <2> QED
    BY <1>1, <2>1 DEF ChatInv, Heard
<1> QED
  BY <1>1, InvariantHolds, PTL

\* The files a committed message was announced with stay its own, unless two
\* transactions had selected the same (send_message of messages.py).
THEOREM AnnouncedIsLinkedAlways == Spec => []AnnouncedIsLinked
<1>1. FileInv => AnnouncedIsLinked
  BY DEF FileInv
<1> QED
  BY <1>1, InvariantHolds, PTL
=============================================================================
