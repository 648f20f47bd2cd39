----------------------------- MODULE ChatTimeline -----------------------------
(***************************************************************************)
(* The list of messages one tab shows of one channel.  It is made of pages *)
(* that the tab requests (loadMessages, loadMoreMessages), of messages     *)
(* pushed over its socket and decrypted one by one, of its own messages'   *)
(* answers, and it is changed by pushed edits and deletions                *)
(* (store/chatStore.ts, hooks/useWebSocket.ts).  The server publishes each *)
(* change before it commits it (routers/messages.py).                      *)
(*                                                                         *)
(* A message is the rank of its created_at, which is the time its          *)
(* transaction began; no two are alike.  An edit gives it version 1, which *)
(* is plain text whatever the message was.  The browser keeps the text it  *)
(* decrypted of an encrypted message by the message's id.                  *)
(***************************************************************************)
EXTENDS Naturals, Sequences, FiniteSets

CONSTANTS
    Slot,        \* bound: loads at one time
    PageSize,    \* messages of a page (limit)
    Sealed,      \* messages sent encrypted (protocol_version 2)
    MaxMessages, \* bound: messages posted
    MaxLoads,    \* bound: loads
    MaxChanges,  \* bound: edits and deletions
    MaxFaults    \* bound: connections lost, requests that fail

ASSUME ChatTimelineAssumption ==
    /\ PageSize \in Nat \ {0}
    /\ {MaxMessages, MaxLoads, MaxChanges, MaxFaults} \subseteq Nat

VARIABLES
    post,       \* server: how far each message's transaction and row are
    version,    \* server: the version each row has
    changing,   \* server: changes published and not committed yet
    cached,     \* encrypted messages whose text is in the browser's cache
    connected,  \* the tab's socket is connected and subscribed to the channel
    events,     \* what was published and the socket has not brought yet
    decrypting, \* the messages pushed and not shown yet
    awaited,    \* own messages whose POST is not answered
    exists,     \* the store has a list for the channel
    list,       \* that list
    hasMore,    \* the store's has_more, TRUE as long as it has none
    load,       \* per slot, the stage of loadMessages or loadMoreMessages
    loads,      \* history: loads so far
    changes,    \* history: edits and deletions so far
    faults,     \* history: faults so far
    crossed,    \* history: a load began while another one was under way
    misled,     \* history: messages of which an event found no socket, or told of a
                \* change that was rolled back (but Caught)
    late,       \* history: messages added behind a newer one (Behind)
    lost,       \* history: messages listed that a page replaced
    raced,      \* history: messages changed while a copy was on its way
    outdated    \* history: edited messages of which a page showed the cached text

server == <<post, version, changing>>
socket == <<connected, events>>
store == <<exists, list, hasMore>>
causes == <<crossed, misled, late, lost, raced, outdated>>
timelineVars == <<server, cached, socket, decrypting, awaited, store, load, loads,
                  changes, faults, causes>>

Id == 1 .. MaxMessages

Unreadable == 2

\* What the list has of a message: its text or a placeholder; pushed: its created_at
\* is in the form of the event, not of an answer.
Entry == [id : Id, version : {0, 1, Unreadable}, pushed : BOOLEAN]

Kind == {"new", "edit", "delete"}
Notice == [kind : Kind, id : Id]
Change == [kind : {"edit", "delete"}, id : Id]

\* read: the entries of its page that are decrypted
NoLoad == [stage |-> "idle", kind |-> "page", before |-> 0, page |-> <<>>, read |-> 0,
           more |-> FALSE]

TimelineTypeOK ==
    /\ post \in [Id -> {"none", "open", "published", "committed", "deleted", "void"}]
    /\ version \in [Id -> {0, 1}]
    /\ changing \in SUBSET Change
    /\ cached \in SUBSET Id
    /\ connected \in BOOLEAN
    /\ events \in Seq(Notice)
    /\ events # <<>> => connected
    /\ decrypting \in SUBSET Id
    /\ awaited \in SUBSET Id
    /\ exists \in BOOLEAN
    /\ list \in Seq(Entry)
    /\ ~ exists => list = <<>>
    /\ hasMore \in BOOLEAN
    /\ load \in [Slot -> [stage : {"idle", "requested", "decrypting"},
                          kind : {"page", "more"}, before : 0 .. MaxMessages + 1,
                          page : Seq(Entry), read : Nat, more : BOOLEAN]]
    /\ loads \in 0 .. MaxLoads
    /\ changes \in 0 .. MaxChanges
    /\ faults \in 0 .. MaxFaults
    /\ crossed \in BOOLEAN
    /\ {misled, late, lost, raced, outdated} \subseteq SUBSET Id

TimelineInit ==
    /\ post = [m \in Id |-> "none"]
    /\ version = [m \in Id |-> 0]
    /\ changing = {}
    /\ cached = {}
    /\ connected = FALSE
    /\ events = <<>>
    /\ decrypting = {}
    /\ awaited = {}
    /\ exists = FALSE
    /\ list = <<>>
    /\ hasMore = TRUE
    /\ load = [s \in Slot |-> NoLoad]
    /\ loads = 0
    /\ changes = 0
    /\ faults = 0
    /\ crossed = FALSE
    /\ misled = {}
    /\ late = {}
    /\ lost = {}
    /\ raced = {}
    /\ outdated = {}

Fault == faults < MaxFaults /\ faults' = faults + 1

Ids(entries) == {entries[i].id : i \in DOMAIN entries}
Listed == Ids(list)

\* The sequences that have the numbers of a set in ascending order: there is one.
Ascending(numbers) ==
    {f \in [1 .. Cardinality(numbers) -> numbers] :
        /\ \A i, j \in DOMAIN f : i < j => f[i] < f[j]
        /\ \A n \in numbers : \E i \in DOMAIN f : f[i] = n}

-----------------------------------------------------------------------------
(***************************************************************************)
(* The server.                                                             *)
(***************************************************************************)

\* redis.publish: the event reaches the socket or nobody.
Notify(kind, m) ==
    IF connected
    THEN /\ events' = Append(events, [kind |-> kind, id |-> m])
         /\ UNCHANGED <<connected, misled>>
    ELSE /\ misled' = misled \cup {m}
         /\ UNCHANGED socket

\* The row gets the time at which its transaction began.  The tab's user sends one
\* message at a time (MessageInput).
PostBegins ==
    \E m \in Id :
        /\ post[m] = "none"
        /\ \A n \in Id : n < m => post[n] # "none"
        /\ post' = [post EXCEPT ![m] = "open"]
        /\ \/ awaited' = awaited
           \/ awaited = {} /\ awaited' = {m}
        /\ UNCHANGED <<version, changing, cached, socket, decrypting, store, load,
                       loads, changes, faults, causes>>

PostPublished(m) ==
    /\ post[m] = "open"
    /\ post' = [post EXCEPT ![m] = "published"]
    /\ Notify("new", m)
    /\ UNCHANGED <<version, changing, cached, decrypting, awaited, store, load, loads,
                   changes, faults, crossed, late, lost, raced, outdated>>

PostCommitted(m) ==
    /\ post[m] = "published"
    /\ post' = [post EXCEPT ![m] = "committed"]
    /\ UNCHANGED <<version, changing, cached, socket, decrypting, awaited, store, load,
                   loads, changes, faults, causes>>

\* What follows the publication raises: the message is rolled back.
PostUndone(m) ==
    /\ post[m] = "published"
    /\ Fault
    /\ post' = [post EXCEPT ![m] = "void"]
    /\ awaited' = awaited \ {m}
    /\ UNCHANGED <<version, changing, cached, socket, decrypting, store, load, loads,
                   changes, causes>>

\* Mutant: a deletion is not published.
ChangeKept(m, kind) ==
    /\ post[m] = "committed"
    /\ kind = "edit" => version[m] = 0
    /\ [kind |-> kind, id |-> m] \notin changing
    /\ changes < MaxChanges
    /\ changes' = changes + 1
    /\ changing' = changing \cup {[kind |-> kind, id |-> m]}
    /\ UNCHANGED <<post, version, cached, socket, decrypting, awaited, store, load,
                   loads, faults, causes>>

\* edit_message, delete_message: the row is found, and the change published.
ChangePublished(m, kind) ==
    /\ post[m] = "committed"
    /\ kind = "edit" => version[m] = 0
    /\ [kind |-> kind, id |-> m] \notin changing
    /\ changes < MaxChanges
    /\ changes' = changes + 1
    /\ changing' = changing \cup {[kind |-> kind, id |-> m]}
    /\ Notify(kind, m)
    /\ UNCHANGED <<post, version, cached, decrypting, awaited, store, load, loads,
                   faults, crossed, late, lost, raced, outdated>>

\* The commit; an edit of a row that is deleted by now is rolled back.
ChangeCommitted(m, kind) ==
    /\ [kind |-> kind, id |-> m] \in changing
    /\ changing' = changing \ {[kind |-> kind, id |-> m]}
    /\ post' = [post EXCEPT ![m] = IF kind = "delete" THEN "deleted" ELSE @]
    /\ version' = [version EXCEPT ![m] =
                     IF kind = "edit" /\ post[m] = "committed" THEN 1 ELSE @]
    /\ UNCHANGED <<cached, socket, decrypting, awaited, store, load, loads, changes,
                   faults, causes>>

\* The commit fails: the change is rolled back, whoever was told of it.
ChangeUndone(m, kind) ==
    /\ [kind |-> kind, id |-> m] \in changing
    /\ Fault
    /\ changing' = changing \ {[kind |-> kind, id |-> m]}
    /\ misled' = misled \cup {m}
    /\ UNCHANGED <<post, version, cached, socket, decrypting, awaited, store, load,
                   loads, changes, crossed, late, lost, raced, outdated>>

-----------------------------------------------------------------------------
(***************************************************************************)
(* The socket.                                                             *)
(***************************************************************************)

SocketOpens ==
    /\ ~ connected
    /\ connected' = TRUE
    /\ UNCHANGED <<server, cached, events, decrypting, awaited, store, load, loads,
                   changes, faults, causes>>

\* Mutant: the closed socket still brings what was sent to it.
SocketClosesLate ==
    /\ connected
    /\ Fault
    /\ connected' = FALSE
    /\ UNCHANGED <<server, cached, events, decrypting, awaited, store, load, loads,
                   changes, causes>>

\* Nothing asks for what was published meanwhile when the socket is back.
SocketCloses ==
    /\ connected
    /\ Fault
    /\ connected' = FALSE
    /\ events' = <<>>
    /\ misled' = misled \cup Ids(events)
    /\ UNCHANGED <<server, cached, decrypting, awaited, store, load, loads, changes,
                   crossed, late, lost, raced, outdated>>

\* The tab has, or had when it asked for older ones, a newer message at the head, or
\* its list was emptied by deletions and the older ones are still on the server.
Behind(m) ==
    \/ \E n \in Listed : n > m
    \/ exists /\ list = <<>> /\ hasMore
    \/ \E s \in Slot : load[s].kind = "more" /\ load[s].before > m

\* Mutant: addMessage without its look at what the list has.
AddTwice(entry) ==
    /\ exists' = TRUE
    /\ list' = Append(list, entry)
    /\ late' = late
    /\ UNCHANGED hasMore

AddMessage(entry) ==
    IF entry.id \in Listed
    THEN UNCHANGED <<store, late>>
    ELSE /\ exists' = TRUE
         /\ list' = Append(list, entry)
         /\ late' = IF Behind(entry.id) THEN late \cup {entry.id} ELSE late
         /\ UNCHANGED hasMore

NewReceived ==
    /\ events # <<>>
    /\ Head(events).kind = "new"
    /\ events' = Tail(events)
    /\ decrypting' = decrypting \cup {Head(events).id}
    /\ UNCHANGED <<server, cached, connected, awaited, store, load, loads, changes,
                   faults, causes>>

\* Decryption takes the time it takes, and may fail: messages are shown in any order.
Decrypted(m) ==
    /\ m \in decrypting
    /\ decrypting' = decrypting \ {m}
    /\ \E text \in IF m \in Sealed THEN {0, Unreadable} ELSE {0} :
          AddMessage([id |-> m, version |-> text, pushed |-> TRUE])
    /\ UNCHANGED <<server, cached, socket, awaited, load, loads, changes, faults,
                   crossed, misled, lost, raced, outdated>>

\* sendMessage, with the answer to its POST.
Answered(m) ==
    /\ m \in awaited
    /\ post[m] \in {"committed", "deleted"}
    /\ awaited' = awaited \ {m}
    /\ AddMessage([id |-> m, version |-> 0, pushed |-> FALSE])
    /\ UNCHANGED <<server, cached, socket, decrypting, load, loads, changes, faults,
                   crossed, misled, lost, raced, outdated>>

\* A text is put in the cache: by this tab, which does not wait for it, after a push or
\* an answer, or by another tab of the browser.
CachePut(m) ==
    /\ m \in Sealed \ cached
    /\ post[m] \notin {"none", "open"}
    /\ cached' = cached \cup {m}
    /\ UNCHANGED <<server, socket, decrypting, awaited, store, load, loads, changes,
                   faults, causes>>

\* updateMessage and removeMessage take effect at once, on the list as it is.
ChangeReceived ==
    LET kind == Head(events).kind
        m == Head(events).id
    IN /\ events # <<>>
       /\ kind # "new"
       /\ events' = Tail(events)
       /\ \/ /\ kind = "delete"
             /\ \E kept \in Ascending({i \in DOMAIN list : list[i].id # m}) :
                   list' = [i \in DOMAIN kept |-> list[kept[i]]]
          \/ /\ kind = "edit"
             /\ list' = [i \in DOMAIN list |->
                           IF list[i].id = m THEN [list[i] EXCEPT !.version = 1]
                                             ELSE list[i]]
       /\ raced' = IF \/ m \in decrypting \cup awaited
                      \/ [kind |-> kind, id |-> m] \in changing
                      \/ \E s \in Slot : load[s].stage # "idle"
                   THEN raced \cup {m} ELSE raced
       /\ UNCHANGED <<server, cached, connected, decrypting, awaited, exists, hasMore,
                      load, loads, changes, faults, crossed, misled, late, lost,
                      outdated>>

-----------------------------------------------------------------------------
(***************************************************************************)
(* Pages.                                                                  *)
(***************************************************************************)

Request(s, kind, before) ==
    /\ load[s].stage = "idle"
    /\ loads < MaxLoads
    /\ loads' = loads + 1
    /\ load' = [load EXCEPT ![s] = [NoLoad EXCEPT !.stage = "requested", !.kind = kind,
                                                  !.before = before]]
    /\ crossed' = (crossed \/ \E r \in Slot \ {s} : load[r].stage # "idle")
    /\ UNCHANGED <<server, cached, socket, decrypting, awaited, store, changes, faults,
                   misled, late, lost, raced, outdated>>

\* setActiveChannel, as often as the user clicks before there is a list.
LoadBegins(s) == ~ exists /\ Request(s, "page", MaxMessages + 1)

\* The button is there, and the server understands the time it is given.  (In the
\* form of the event it has a "+", which arrives as a blank: the request is refused.)
MoreBegins(s) ==
    /\ hasMore
    /\ list # <<>>
    /\ ~ Head(list).pushed
    /\ Request(s, "more", Head(list).id)

\* get_messages: the newest that are older, and whether there are others.
Older(s) == {m \in Id : post[m] = "committed" /\ m < load[s].before}
Newest(ids) == {m \in ids : Cardinality({n \in ids : n > m}) < PageSize}

AnswerPage(s, ids, more) ==
    load' = [load EXCEPT ![s] =
               [@ EXCEPT !.stage = "decrypting",
                         !.page = [i \in DOMAIN ids |-> [id |-> ids[i],
                                                         version |-> version[ids[i]],
                                                         pushed |-> FALSE]],
                         !.more = more]]

\* Messages about which the load finds out whatever events were missed.
Caught(s) ==
    {m \in Id : /\ post[m] \in {"committed", "deleted"}
                /\ m < load[s].before
                /\ m \notin Listed \cup Ids(events) \cup decrypting \cup awaited
                /\ ~ \E c \in changing : c.id = m
                /\ \A r \in Slot \ {s} : load[r].stage = "idle"}

\* Mutant: no message more than the page holds is asked for.
PageReadExactly(s) ==
    /\ load[s].stage = "requested"
    /\ \E ids \in Ascending(Newest(Older(s))) : AnswerPage(s, ids, FALSE)
    /\ misled' = misled \ Caught(s)
    /\ UNCHANGED <<server, cached, socket, decrypting, awaited, store, loads, changes,
                   faults, crossed, late, lost, raced, outdated>>

PageRead(s) ==
    LET page == Newest(Older(s))
    IN /\ load[s].stage = "requested"
       /\ \E ids \in Ascending(page) : AnswerPage(s, ids, page # Older(s))
       /\ misled' = misled \ Caught(s)
       /\ UNCHANGED <<server, cached, socket, decrypting, awaited, store, loads,
                      changes, faults, crossed, late, lost, raced, outdated>>

\* decryptMessage: an encrypted message's text is taken from the cache, whatever the row
\* has by now, or decrypted, which fails if the row has the plain text of an edit.
TextsOf(entry) ==
    CASE entry.id \notin Sealed -> {entry.version}
      [] entry.id \in Sealed \cap cached -> {0}
      [] entry.id \in Sealed \ cached ->
            {text \in {0, Unreadable} : text = 0 => entry.version = 0}

\* decryptMessages: one entry after the other; what is decrypted is put in the cache.
EntryDecrypted(s) ==
    LET i == load[s].read + 1
        entry == load[s].page[i]
    IN /\ load[s].stage = "decrypting"
       /\ i \in DOMAIN load[s].page
       /\ \E text \in TextsOf(entry) :
             /\ load' = [load EXCEPT ![s] =
                           [@ EXCEPT !.page[i].version = text, !.read = i]]
             /\ cached' = IF entry.id \in Sealed /\ text = 0
                          THEN cached \cup {entry.id} ELSE cached
             /\ outdated' = IF text = 0 /\ entry.version # 0
                            THEN outdated \cup {entry.id} ELSE outdated
       /\ UNCHANGED <<server, socket, decrypting, awaited, store, loads, changes,
                      faults, crossed, misled, late, lost, raced>>

IsRead(s) ==
    /\ load[s].stage = "decrypting"
    /\ load[s].read = Len(load[s].page)

\* loadMessages puts its page in the place of the list.
PageShown(s) ==
    /\ IsRead(s)
    /\ load[s].kind = "page"
    /\ exists' = TRUE
    /\ list' = load[s].page
    /\ hasMore' = load[s].more
    /\ lost' = lost \cup (Listed \ Ids(list'))
    /\ load' = [load EXCEPT ![s] = NoLoad]
    /\ UNCHANGED <<server, cached, socket, decrypting, awaited, loads, changes, faults,
                   crossed, misled, late, raced, outdated>>

\* loadMoreMessages puts it in front, whatever the list has.
MoreShown(s) ==
    /\ IsRead(s)
    /\ load[s].kind = "more"
    /\ exists' = TRUE
    /\ list' = load[s].page \o list
    /\ hasMore' = load[s].more
    /\ load' = [load EXCEPT ![s] = NoLoad]
    /\ UNCHANGED <<server, cached, socket, decrypting, awaited, loads, changes, faults,
                   causes>>

LoadFails(s) ==
    /\ load[s].stage = "requested"
    /\ Fault
    /\ load' = [load EXCEPT ![s] = NoLoad]
    /\ UNCHANGED <<server, cached, socket, decrypting, awaited, store, loads, changes,
                   causes>>

-----------------------------------------------------------------------------

Serve ==
    \/ PostBegins
    \/ \E m \in Id :
          \/ PostPublished(m)
          \/ PostCommitted(m)
          \/ PostUndone(m)
          \/ \E kind \in {"edit", "delete"} :
                \/ ChangePublished(m, kind)
                \/ ChangeCommitted(m, kind)
                \/ ChangeUndone(m, kind)

Receive ==
    \/ SocketOpens
    \/ SocketCloses
    \/ NewReceived
    \/ ChangeReceived
    \/ \E m \in Id : Decrypted(m) \/ Answered(m) \/ CachePut(m)

Load(s) ==
    \/ LoadBegins(s)
    \/ MoreBegins(s)
    \/ PageRead(s)
    \/ EntryDecrypted(s)
    \/ PageShown(s)
    \/ MoreShown(s)
    \/ LoadFails(s)

TimelineNext == Serve \/ Receive \/ \E s \in Slot : Load(s)

TimelineSpec == TimelineInit /\ [][TimelineNext]_timelineVars

-----------------------------------------------------------------------------
(***************************************************************************)
(* Properties.                                                             *)
(***************************************************************************)

\* Nothing more will happen to message m by itself.
AtRest(m) ==
    /\ post[m] # "published"
    /\ m \notin Ids(events) \cup decrypting \cup awaited
    /\ ~ \E c \in changing : c.id = m
    /\ \A s \in Slot : load[s].stage = "idle"

\* A message stands in the list once: its echo, its answer and the pages that hold it
\* add up to one entry, unless two loads crossed (nothing guards the button), or
\* it came in behind a newer one, so that the head of the list was not its oldest.
ListedOnce ==
    \A i, j \in DOMAIN list :
        list[i].id = list[j].id /\ i # j => crossed \/ list[i].id \in late

\* A message that is listed is one the server has, and shows the text its row has, or a
\* placeholder if it was encrypted.  Otherwise its change met a copy that was on its way
\* (being decrypted, in a page, in an answer, or not committed yet), or no socket, or it
\* or its change was published and then rolled back; or the text is the one the cache
\* has kept from before the edit.
ShownIsCurrent ==
    \A i \in DOMAIN list :
        LET m == list[i].id
            text == list[i].version
        IN AtRest(m) =>
              \/ /\ post[m] = "committed"
                 /\ \/ text = version[m]
                    \/ text = Unreadable /\ m \in Sealed
                    \/ text = 0 /\ m \in outdated
              \/ post[m] = "void"
              \/ m \in misled \cup raced

\* A message the server has is listed, or older than the list, and has_more says that
\* there is more.  Otherwise its event met no socket, or its deletion was rolled back, or
\* a page that was read before it was committed replaced a list that had it, or two
\* loads crossed, or an older message that came in behind, or into an emptied list, has
\* become the head, and the button asks for what is older than that one.  (That has_more
\* is set is not to say that the button helps: an empty list has none, and with a pushed
\* message at the head the request is refused, see MoreBegins.)
ShownOrReachable ==
    \A m \in Id :
        exists /\ AtRest(m) /\ post[m] = "committed" =>
            \/ m \in Listed
            \/ hasMore /\ (list = <<>> \/ m < Head(list).id)
            \/ \E n \in late : n < m
            \/ m \in misled \cup lost
            \/ crossed
=============================================================================
