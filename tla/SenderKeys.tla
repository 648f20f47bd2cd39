------------------------------ MODULE SenderKeys ------------------------------
(***************************************************************************)
(* The sender keys of one group channel: each device encrypts with a chain *)
(* key of its own that it ratchets forward message by message, and keeps   *)
(* in IndexedDB a ratchet position for every other device's chain          *)
(* (frontend/src/crypto/{encrypt,senderKey,keyStore}.ts).  Tabs of one     *)
(* device share that storage.  The server (routers/keys.py, messages.py)   *)
(* keeps one key per device and the messages; it pushes every message to   *)
(* the sockets of the channel, the sender's own included.                  *)
(*                                                                         *)
(* A step is the code between two awaits that other code can come between. *)
(* A message key is its chain and its number: a ciphertext decrypts under  *)
(* exactly the key it was made with.  A message stands for its text.       *)
(***************************************************************************)
EXTENDS Naturals, Sequences, FiniteSets

CONSTANTS
    Tab,         \* browser tabs with the channel's member logged in
    Device,
    DeviceOf,    \* DeviceOf[t]: device_id in the localStorage tab t uses
    Writer,      \* bound: the tabs whose user writes
    Listener,    \* bound: the tabs with a socket
    Chain,       \* bound: chain keys that may ever be generated
    MaxMessages, \* bound: messages posted to the channel
    MaxFaults,   \* bound: requests and puts that fail, and page reloads
    None         \* no chain

ASSUME SenderKeysAssumption ==
    /\ DeviceOf \in [Tab -> Device]
    /\ Writer \subseteq Tab
    /\ Listener \subseteq Tab
    /\ MaxMessages \in Nat
    /\ MaxFaults \in Nat
    /\ None \notin Chain

VARIABLES
    serverKey,  \* chain_key the server stores per device, at message_number 0
    log,        \* the channel's messages, in the order they are published
    ratchet,    \* IndexedDB: ratchet[d][e], where d is in the chain of e
    cache,      \* IndexedDB: per device, the messages whose plaintext it keeps
    puts,       \* per tab, those whose put into the cache nobody waits for
    shown,      \* per tab, how each message of the channel's list is shown
    send,       \* per tab, the stage of sendMessage and what it works with
    reader,     \* per tab and message, the stage of decrypting it once pushed
    pushed,     \* per tab, the last message its socket brought
    load,       \* per tab, the stage of loadMessages and what it works with
    chains,     \* history: chains generated so far
    replaced,   \* history: devices that uploaded a key over another
    overlapped, \* history: devices two of whose tabs had a message encrypted
                \* and posted at the same time
    read,       \* history: per device, the ciphertexts shown as text so far
    unkept,     \* history: per device, the messages of lost puts
    faults      \* history: how many of these there were so far

texts == <<cache, puts>>
store == <<ratchet, texts>>
keyHistory == <<chains, replaced, overlapped>>
textHistory == <<read, unkept>>
history == <<keyHistory, textHistory, faults>>
vars == <<serverKey, log, store, shown, send, reader, pushed, load, history>>

Id == 1 .. MaxMessages

\* A stored sender key: its chain and how many messages it is past.
Position == [chain : Chain, number : Nat]
Absent == [chain |-> None, number |-> 0]

Message == [from : Device, chain : Chain \cup {None}, number : Nat]

\* A plaintext message has no chain.
Encrypted(m) == log[m].chain # None

Posted == 1 .. Len(log)

IdleSend == [stage |-> "idle", key |-> Absent, id |-> 0]
IdleRead == [stage |-> "idle", key |-> Absent]
IdleLoad == [stage |-> "idle", key |-> Absent, next |-> 0, last |-> 0,
             result |-> [m \in Id |-> "absent"]]

Display == {"absent", "text", "unreadable"}

TypeOK ==
    /\ serverKey \in [Device -> Chain \cup {None}]
    /\ log \in Seq(Message)
    /\ Len(log) <= MaxMessages
    /\ ratchet \in [Device -> [Device -> Position \cup {Absent}]]
    /\ cache \in [Device -> SUBSET Id]
    /\ puts \in [Tab -> SUBSET Id]
    /\ shown \in [Tab -> [Id -> Display]]
    /\ send \in [Tab -> [stage : {"idle", "uploading", "uploaded", "reading",
                                  "encrypting", "posting", "posted", "fallback",
                                  "sent"},
                         key : Position \cup {Absent}, id : 0 .. MaxMessages]]
    /\ reader \in [Tab -> [Id -> [stage : {"idle", "fetching", "ratcheting",
                                           "opening", "opened"},
                                  key : Position \cup {Absent}]]]
    /\ pushed \in [Tab -> 0 .. MaxMessages]
    /\ load \in [Tab -> [stage : {"idle", "keys", "lookup", "fetching",
                                  "ratcheting", "opening"},
                         key : Position \cup {Absent},
                         next : 0 .. MaxMessages + 1, last : 0 .. MaxMessages,
                         result : [Id -> Display]]]
    /\ chains \in SUBSET Chain
    /\ replaced \in SUBSET Device
    /\ overlapped \in SUBSET Device
    /\ read \in [Device -> SUBSET Id]
    /\ unkept \in [Device -> SUBSET Id]
    /\ faults \in 0 .. MaxFaults

Init ==
    /\ serverKey = [d \in Device |-> None]
    /\ log = <<>>
    /\ ratchet = [d \in Device |-> [e \in Device |-> Absent]]
    /\ cache = [d \in Device |-> {}]
    /\ puts = [t \in Tab |-> {}]
    /\ shown = [t \in Tab |-> [m \in Id |-> "absent"]]
    /\ send = [t \in Tab |-> IdleSend]
    /\ reader = [t \in Tab |-> [m \in Id |-> IdleRead]]
    /\ pushed = [t \in Tab |-> 0]
    /\ load = [t \in Tab |-> IdleLoad]
    /\ chains = {}
    /\ replaced = {}
    /\ overlapped = {}
    /\ read = [d \in Device |-> {}]
    /\ unkept = [d \in Device |-> {}]
    /\ faults = 0

Own(t) == ratchet[DeviceOf[t]][DeviceOf[t]]

Fault == faults < MaxFaults /\ faults' = faults + 1

-----------------------------------------------------------------------------
(***************************************************************************)
(* Sending: sendMessage, encryptForGroup.  A tab sends one message at a    *)
(* time (MessageInput).                                                    *)
(***************************************************************************)

\* Between the test for a key and the POST a message's key is made and used up.
Turn == {"uploading", "uploaded", "reading", "encrypting", "posting"}

TurnElsewhere(t) ==
    \E u \in Tab \ {t} : DeviceOf[u] = DeviceOf[t] /\ send[u].stage \in Turn

\* ensureSenderKeyDistributed: with a key of one's own encrypting can start,
\* without one a chain is generated and uploaded.
SendBegins(t) ==
    /\ t \in Writer
    /\ send[t].stage = "idle"
    /\ Len(log) < MaxMessages
    /\ \/ /\ Own(t) # Absent
          /\ send' = [send EXCEPT ![t] = [IdleSend EXCEPT !.stage = "reading"]]
          /\ UNCHANGED chains
       \/ /\ Own(t) = Absent
          /\ \E c \in Chain \ chains :
                /\ chains' = chains \cup {c}
                /\ send' = [send EXCEPT ![t] =
                               [IdleSend EXCEPT !.stage = "uploading",
                                                !.key = [chain |-> c, number |-> 0]]]
    /\ overlapped' = IF TurnElsewhere(t) THEN overlapped \cup {DeviceOf[t]}
                     ELSE overlapped
    /\ UNCHANGED <<serverKey, log, store, shown, reader, pushed, load, replaced,
                   textHistory, faults>>

\* Mutant: a key the server has already is kept.
KeyInserted(t) ==
    LET d == DeviceOf[t]
    IN /\ send[t].stage = "uploading"
       /\ serverKey' = [serverKey EXCEPT ![d] =
                           IF @ = None THEN send[t].key.chain ELSE @]
       /\ send' = [send EXCEPT ![t].stage = "uploaded"]
       /\ UNCHANGED <<log, store, shown, reader, pushed, load, history>>

\* distribute_sender_key inserts or overwrites the device's key.
KeyUploaded(t) ==
    LET d == DeviceOf[t]
    IN /\ send[t].stage = "uploading"
       /\ serverKey' = [serverKey EXCEPT ![d] = send[t].key.chain]
       /\ replaced' = IF serverKey[d] = None THEN replaced ELSE replaced \cup {d}
       /\ send' = [send EXCEPT ![t].stage = "uploaded"]
       /\ UNCHANGED <<log, store, shown, reader, pushed, load, chains,
                      overlapped, textHistory, faults>>

\* Mutant: the chain is saved without its position.
KeySavedBare(t) ==
    LET d == DeviceOf[t]
    IN /\ send[t].stage = "uploaded"
       /\ ratchet' = [ratchet EXCEPT ![d][d] = send[t].key.chain]
       /\ send' = [send EXCEPT ![t].stage = "reading"]
       /\ UNCHANGED <<serverKey, log, texts, shown, reader, pushed, load, history>>

\* The answer is here: the key is saved locally, whatever is there by now.
KeySaved(t) ==
    LET d == DeviceOf[t]
    IN /\ send[t].stage = "uploaded"
       /\ ratchet' = [ratchet EXCEPT ![d][d] = send[t].key]
       /\ send' = [send EXCEPT ![t].stage = "reading"]
       /\ UNCHANGED <<serverKey, log, texts, shown, reader, pushed, load, history>>

\* encryptWithSenderKey reads the stored key, then derives the message key.
OwnKeyRead(t) ==
    /\ send[t].stage = "reading"
    /\ send' = [send EXCEPT ![t].stage = "encrypting", ![t].key = Own(t)]
    /\ UNCHANGED <<serverKey, log, store, shown, reader, pushed, load, history>>

\* Mutant: the ratcheted key is not saved.
OwnKeyUnratcheted(t) ==
    LET next == [send[t].key EXCEPT !.number = @ + 1]
    IN /\ send[t].stage = "encrypting"
       /\ send' = [send EXCEPT ![t].stage = "posting", ![t].key = next]
       /\ UNCHANGED <<serverKey, log, store, shown, reader, pushed, load, history>>

\* The ratcheted key is saved, and the message encrypted with the key before.
OwnKeyRatcheted(t) ==
    LET d == DeviceOf[t]
        next == [send[t].key EXCEPT !.number = @ + 1]
    IN /\ send[t].stage = "encrypting"
       /\ ratchet' = [ratchet EXCEPT ![d][d] = next]
       /\ send' = [send EXCEPT ![t].stage = "posting", ![t].key = next]
       /\ UNCHANGED <<serverKey, log, texts, shown, reader, pushed, load, history>>

\* send_message stores the message and publishes it.
Post(t, key) ==
    /\ Len(log) < MaxMessages
    /\ log' = Append(log, [from |-> DeviceOf[t], chain |-> key.chain,
                           number |-> key.number])

MessagePosted(t) ==
    /\ send[t].stage = "posting"
    /\ Post(t, send[t].key)
    /\ send' = [send EXCEPT ![t].stage = "posted", ![t].id = Len(log')]
    /\ UNCHANGED <<serverKey, store, shown, reader, pushed, load, history>>

\* addMessage ignores a message the list has already.
AddMessage(t, m, as) ==
    /\ shown' = IF shown[t][m] = "absent" THEN [shown EXCEPT ![t][m] = as] ELSE shown
    /\ read' = IF as = "text" /\ Encrypted(m)
                  THEN [read EXCEPT ![DeviceOf[t]] = @ \cup {m}] ELSE read

\* cacheMessagePlaintext, called and not awaited.
StartPut(t, m) == puts' = [puts EXCEPT ![t] = @ \cup {m}]

\* Mutant: the plaintext of a sent message is shown but not cached.
SendDoneUncached(t) ==
    /\ send[t].stage = "posted"
    /\ AddMessage(t, send[t].id, "text")
    /\ send' = [send EXCEPT ![t] = IdleSend]
    /\ UNCHANGED <<serverKey, log, store, reader, pushed, load, keyHistory, unkept,
                   faults>>

\* The answer to the POST: start caching the plaintext and add the message.
SendDone(t) ==
    /\ send[t].stage = "posted"
    /\ StartPut(t, send[t].id)
    /\ AddMessage(t, send[t].id, "text")
    /\ send' = [send EXCEPT ![t] = IdleSend]
    /\ UNCHANGED <<serverKey, log, ratchet, cache, reader, pushed, load,
                   keyHistory, unkept, faults>>

PutLands(t, m) ==
    /\ m \in puts[t]
    /\ puts' = [puts EXCEPT ![t] = @ \ {m}]
    /\ cache' = [cache EXCEPT ![DeviceOf[t]] = @ \cup {m}]
    /\ UNCHANGED <<serverKey, log, ratchet, shown, send, reader, pushed, load,
                   history>>

\* A put that fails is logged and not repeated.
PutFails(t, m) ==
    /\ m \in puts[t]
    /\ Fault
    /\ puts' = [puts EXCEPT ![t] = @ \ {m}]
    /\ unkept' = [unkept EXCEPT ![DeviceOf[t]] = @ \cup {m}]
    /\ UNCHANGED <<serverKey, log, ratchet, cache, shown, send, reader, pushed,
                   load, keyHistory, read>>

\* A request of sendMessage fails, before or after the server has served it:
\* the message is sent again, in plaintext, unless the server refused it for the
\* rate limit.
SendFails(t) ==
    /\ Fault
    /\ \/ /\ send[t].stage \in {"uploading", "uploaded", "posting", "posted"}
          /\ send' = [send EXCEPT ![t] = [IdleSend EXCEPT !.stage = "fallback"]]
       \/ /\ send[t].stage \in {"uploading", "posting", "fallback", "sent"}
          /\ send' = [send EXCEPT ![t] = IdleSend]
    /\ UNCHANGED <<serverKey, log, store, shown, reader, pushed, load,
                   keyHistory, textHistory>>

PlaintextPosted(t) ==
    /\ send[t].stage = "fallback"
    /\ Post(t, Absent)
    /\ send' = [send EXCEPT ![t].stage = "sent", ![t].id = Len(log')]
    /\ UNCHANGED <<serverKey, store, shown, reader, pushed, load, history>>

PlaintextDone(t) ==
    /\ send[t].stage = "sent"
    /\ AddMessage(t, send[t].id, "text")
    /\ send' = [send EXCEPT ![t] = IdleSend]
    /\ UNCHANGED <<serverKey, log, store, reader, pushed, load, keyHistory, unkept,
                   faults>>

-----------------------------------------------------------------------------
(***************************************************************************)
(* decryptWithSenderKey, shared by pushed messages and by the history.     *)
(***************************************************************************)

\* Mutant: what the server holds replaces what was ratcheted locally.
StoreOverwriting(d) ==
    ratchet' = [ratchet EXCEPT ![d] =
                   [e \in Device |-> IF serverKey[e] = None THEN @[e]
                                     ELSE [chain |-> serverKey[e], number |-> 0]]]

\* The server's keys are stored for the devices that have none here yet.  The
\* test and the put are two requests to IndexedDB issued back to back.
StoreMissing(d) ==
    ratchet' = [ratchet EXCEPT ![d] =
                   [e \in Device |->
                       IF @[e] = Absent /\ serverKey[e] # None
                          THEN [chain |-> serverKey[e], number |-> 0]
                          ELSE @[e]]]

\* The position read for message m is still before it.
Ahead(key, m) == key.number < log[m].number

\* The ratcheted position is saved before the ciphertext is tried.
SavePosition(d, key, m) ==
    ratchet' = [ratchet EXCEPT ![d][log[m].from] =
                   [chain |-> key.chain, number |-> log[m].number]]

Opens(key, m) == key.chain = log[m].chain

(***************************************************************************)
(* A pushed message (useWebSocket).  Each starts a promise of its own, so  *)
(* several may be under way; the plaintext cache is not consulted.  An     *)
(* opened message is added to the list after the one it replies to was     *)
(* looked up; any other is added at once, a reply to it being only later.  *)
(***************************************************************************)

PushAt(t, m, stage, key) ==
    reader' = [reader EXCEPT ![t][m] = [stage |-> stage, key |-> key]]

PushAdded(t, m, as) ==
    /\ AddMessage(t, m, as)
    /\ reader' = [reader EXCEPT ![t][m] = IdleRead]

\* With a position of the sender's chain before the message, ratchet; with one
\* past it, give up.
PushTried(t, m, key) ==
    /\ key # Absent
    /\ \/ Ahead(key, m) /\ PushAt(t, m, "ratcheting", key) /\ UNCHANGED <<shown, read>>
       \/ ~Ahead(key, m) /\ PushAdded(t, m, "unreadable")

\* The socket brings the messages in the order published, or loses some.
Pushed(t, m) ==
    LET key == ratchet[DeviceOf[t]][log[m].from]
    IN /\ t \in Listener
       /\ m \in Posted
       /\ m > pushed[t]
       /\ pushed' = [pushed EXCEPT ![t] = m]
       /\ \/ ~Encrypted(m) /\ PushAdded(t, m, "text")
          \/ Encrypted(m) /\ PushTried(t, m, key)
          \/ /\ Encrypted(m) /\ key = Absent
             /\ PushAt(t, m, "fetching", Absent)
             /\ UNCHANGED <<shown, read>>
       /\ UNCHANGED <<serverKey, log, store, send, load, keyHistory, unkept, faults>>

\* The server's keys are here, the sender's among them, for it uploads one before
\* it sends; or the request for them has failed.
PushFetched(t, m) ==
    LET d == DeviceOf[t]
        e == log[m].from
    IN /\ reader[t][m].stage = "fetching"
       /\ \/ /\ StoreMissing(d)
             /\ PushTried(t, m, ratchet'[d][e])
             /\ UNCHANGED faults
          \/ /\ Fault
             /\ PushAdded(t, m, "unreadable")
             /\ UNCHANGED ratchet
       /\ UNCHANGED <<serverKey, log, texts, send, pushed, load, keyHistory, unkept>>

PushRatcheted(t, m) ==
    LET key == reader[t][m].key
    IN /\ reader[t][m].stage = "ratcheting"
       /\ SavePosition(DeviceOf[t], key, m)
       /\ PushAt(t, m, "opening", key)
       /\ UNCHANGED <<serverKey, log, texts, shown, send, pushed, load, history>>

PushOpened(t, m) ==
    /\ reader[t][m].stage = "opening"
    /\ \/ /\ Opens(reader[t][m].key, m)
          /\ StartPut(t, m)
          /\ PushAt(t, m, "opened", Absent)
          /\ UNCHANGED <<shown, read>>
       \/ /\ ~Opens(reader[t][m].key, m)
          /\ PushAdded(t, m, "unreadable")
          /\ UNCHANGED puts
    /\ UNCHANGED <<serverKey, log, ratchet, cache, send, pushed, load, keyHistory,
                   unkept, faults>>

PushShown(t, m) ==
    /\ reader[t][m].stage = "opened"
    /\ PushAdded(t, m, "text")
    /\ UNCHANGED <<serverKey, log, store, send, pushed, load, keyHistory, unkept,
                   faults>>

-----------------------------------------------------------------------------
(***************************************************************************)
(* The history (chatStore.loadMessages): one message after the other, each *)
(* looked up in the cache first; the list is replaced at the end.          *)
(***************************************************************************)

\* The channel is opened and no message of it is in the list yet.
HistoryRequested(t) ==
    /\ load[t].stage = "idle"
    /\ shown[t] = [m \in Id |-> "absent"]
    /\ log # <<>>
    /\ load' = [load EXCEPT ![t] = [IdleLoad EXCEPT !.stage = "keys", !.next = 1,
                                                    !.last = Len(log)]]
    /\ UNCHANGED <<serverKey, log, store, shown, send, reader, pushed, history>>

\* The keys are fetched first; a failure of that request is only logged.
HistoryKeys(t) ==
    /\ load[t].stage = "keys"
    /\ \/ StoreMissing(DeviceOf[t]) /\ UNCHANGED faults
       \/ Fault /\ UNCHANGED ratchet
    /\ load' = [load EXCEPT ![t].stage = "lookup"]
    /\ UNCHANGED <<serverKey, log, texts, shown, send, reader, pushed,
                   keyHistory, textHistory>>

\* The message looked at is shown so in the list to come.
Result(t, as) ==
    load' = [load EXCEPT ![t] =
                [stage |-> "lookup", key |-> Absent, next |-> @.next + 1, last |-> @.last,
                 result |-> [@.result EXCEPT ![load[t].next] = as]]]

HistoryTried(t, m, key) ==
    /\ key # Absent
    /\ \/ /\ Ahead(key, m)
          /\ load' = [load EXCEPT ![t].stage = "ratcheting", ![t].key = key]
       \/ /\ ~Ahead(key, m)
          /\ Result(t, "unreadable")

HistoryLookup(t) ==
    LET d == DeviceOf[t]
        m == load[t].next
        key == ratchet[d][log[m].from]
    IN /\ load[t].stage = "lookup"
       /\ m <= load[t].last
       /\ \/ /\ ~Encrypted(m) \/ m \in cache[d]
             /\ Result(t, "text")
          \/ /\ Encrypted(m) /\ m \notin cache[d]
             /\ HistoryTried(t, m, key)
          \/ /\ Encrypted(m) /\ m \notin cache[d]
             /\ key = Absent
             /\ load' = [load EXCEPT ![t].stage = "fetching"]
       /\ UNCHANGED <<serverKey, log, store, shown, send, reader, pushed, history>>

HistoryFetched(t) ==
    LET d == DeviceOf[t]
        m == load[t].next
        e == log[m].from
    IN /\ load[t].stage = "fetching"
       /\ \/ /\ StoreMissing(d)
             /\ HistoryTried(t, m, ratchet'[d][e])
             /\ UNCHANGED faults
          \/ /\ Fault
             /\ Result(t, "unreadable")
             /\ UNCHANGED ratchet
       /\ UNCHANGED <<serverKey, log, texts, shown, send, reader, pushed,
                      keyHistory, textHistory>>

HistoryRatcheted(t) ==
    /\ load[t].stage = "ratcheting"
    /\ SavePosition(DeviceOf[t], load[t].key, load[t].next)
    /\ load' = [load EXCEPT ![t].stage = "opening"]
    /\ UNCHANGED <<serverKey, log, texts, shown, send, reader, pushed, history>>

\* Here the put into the cache is awaited; if it fails the text is not shown.
HistoryOpened(t) ==
    LET d == DeviceOf[t]
        m == load[t].next
        opens == Opens(load[t].key, m)
    IN /\ load[t].stage = "opening"
       /\ \/ /\ opens
             /\ cache' = [cache EXCEPT ![d] = @ \cup {m}]
             /\ Result(t, "text")
             /\ UNCHANGED faults
          \/ /\ opens
             /\ Fault
             /\ Result(t, "unreadable")
             /\ UNCHANGED cache
          \/ /\ ~opens
             /\ Result(t, "unreadable")
             /\ UNCHANGED <<cache, faults>>
       /\ UNCHANGED <<serverKey, log, ratchet, puts, shown, send, reader, pushed,
                      keyHistory, textHistory>>

HistoryShown(t) ==
    LET texted == {m \in Posted : load[t].result[m] = "text" /\ Encrypted(m)}
    IN /\ load[t].stage = "lookup"
       /\ load[t].next > load[t].last
       /\ shown' = [shown EXCEPT ![t] = load[t].result]
       /\ read' = [read EXCEPT ![DeviceOf[t]] = @ \cup texted]
       /\ load' = [load EXCEPT ![t] = IdleLoad]
       /\ UNCHANGED <<serverKey, log, store, send, reader, pushed, keyHistory,
                      unkept, faults>>

\* The page is reloaded: what was under way is gone, IndexedDB is not.  What a
\* request or a put in flight does has happened or never will.
Reload(t) ==
    /\ Fault
    /\ shown' = [shown EXCEPT ![t] = [m \in Id |-> "absent"]]
    /\ send' = [send EXCEPT ![t] = IdleSend]
    /\ reader' = [reader EXCEPT ![t] = [m \in Id |-> IdleRead]]
    /\ pushed' = [pushed EXCEPT ![t] = Len(log)]
    /\ load' = [load EXCEPT ![t] = IdleLoad]
    /\ puts' = [puts EXCEPT ![t] = {}]
    /\ unkept' = [unkept EXCEPT ![DeviceOf[t]] = @ \cup puts[t]]
    /\ UNCHANGED <<serverKey, log, ratchet, cache, keyHistory, read>>

Send(t) ==
    \/ SendBegins(t)
    \/ KeyUploaded(t)
    \/ KeySaved(t)
    \/ OwnKeyRead(t)
    \/ OwnKeyRatcheted(t)
    \/ MessagePosted(t)
    \/ SendDone(t)
    \/ SendFails(t)
    \/ PlaintextPosted(t)
    \/ PlaintextDone(t)

KeepText(t) == \E m \in Id : PutLands(t, m) \/ PutFails(t, m)

Receive(t) ==
    \E m \in Id :
        \/ Pushed(t, m)
        \/ PushFetched(t, m)
        \/ PushRatcheted(t, m)
        \/ PushOpened(t, m)
        \/ PushShown(t, m)

Browse(t) ==
    \/ HistoryRequested(t)
    \/ HistoryKeys(t)
    \/ HistoryLookup(t)
    \/ HistoryFetched(t)
    \/ HistoryRatcheted(t)
    \/ HistoryOpened(t)
    \/ HistoryShown(t)
    \/ Reload(t)

Next == \E t \in Tab : Send(t) \/ KeepText(t) \/ Receive(t) \/ Browse(t)

Spec == Init /\ [][Next]_vars

-----------------------------------------------------------------------------
(***************************************************************************)
(* Properties.                                                             *)
(***************************************************************************)

SameKey(i, j) ==
    /\ Encrypted(i)
    /\ log[i].chain = log[j].chain
    /\ log[i].number = log[j].number

\* The docs' "Chain key ratchets forward after each message": no two messages are
\* encrypted with the same message key.  Two tabs of a device break it.
MessageKeysUnique ==
    \A i, j \in Posted : SameKey(i, j) => i = j

\* A message key is used twice only by a device two of whose tabs were sending at
\* the same time: whatever fails or is loaded anew between reading the stored key,
\* saving it and posting, tabs that take turns never share a key.
ReuseHasCause ==
    \A i, j \in Posted : SameKey(i, j) /\ i # j => log[i].from \in overlapped

\* No reader is further along a device's chain than the device itself, so that
\* the device's next message can still be read by every one of them, unless two
\* of its tabs were sending at once, the one putting back what the other saved.
ReadersNeverAhead ==
    \A d, e \in Device :
        ratchet[d][e].chain = ratchet[e][e].chain =>
            e \in overlapped \/ ratchet[d][e].number <= ratchet[e][e].number

\* A device's readers have the chain it encrypts with, unless it uploaded one
\* key over another, having lost the first before it could save it.
ChainsAgree ==
    \A d, e \in Device :
        ratchet[d][e] # Absent /\ ratchet[e][e] # Absent /\ e \notin replaced =>
            ratchet[d][e].chain = ratchet[e][e].chain

\* A put of the text of m by some tab of device d is under way.
BeingKept(d, m) == \E t \in Tab : DeviceOf[t] = d /\ m \in puts[t]

\* A ciphertext can be opened once: whatever a device has shown the text of is in
\* its cache, so that it can be shown again after a reload, or on the way there,
\* unless the put was cut short by a reload or failed, for nobody waits for it.
ReadIsCached ==
    \A d \in Device : \A m \in read[d] :
        m \in cache[d] \/ BeingKept(d, m) \/ m \in unkept[d]
=============================================================================
