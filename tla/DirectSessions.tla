---------------------------- MODULE DirectSessions ----------------------------
(***************************************************************************)
(* The session key of one direct-message channel.  A device generates its  *)
(* identity key and signed pre-key, publishes them (crypto/bootstrap.ts,   *)
(* routers/keys.py) and keeps them in IndexedDB.  Whoever writes without a *)
(* session key establishes one by X3DH with one device of the other user,  *)
(* and leaves the public half of the handshake at the server, one per      *)
(* channel; whoever reads without a session key derives one from that      *)
(* (crypto/encrypt.ts, x3dh.ts).  Nobody who has a session key looks again.*)
(*                                                                         *)
(* A step is the code between two awaits that other code can come between: *)
(* a request, or a read or a write of IndexedDB.  A session key is what    *)
(* the Diffie-Hellman results it is derived from are made of.              *)
(***************************************************************************)
EXTENDS Naturals, Sequences, FiniteSets

CONSTANTS
    Tab,         \* browser tabs with a participant logged in
    Device,
    DeviceOf,    \* DeviceOf[t]: device_id in the localStorage tab t uses
    User,        \* the participants
    Owner,       \* Owner[d]: the participant device d belongs to
    Pair,        \* bound: generations of a device's identity and pre-key
    MaxSetups,   \* bound: handshakes
    MaxMessages, \* bound: messages posted to the channel
    MaxFaults,   \* bound: requests that fail and page reloads
    None         \* no keys

ASSUME DirectSessionsAssumption ==
    /\ DeviceOf \in [Tab -> Device]
    /\ Owner \in [Device -> User]
    /\ MaxSetups \in Nat
    /\ MaxMessages \in Nat
    /\ MaxFaults \in Nat
    /\ None \notin Pair

VARIABLES
    bundle,     \* server: per device, the keys of its bundle
    setup,      \* Redis: the handshake of the channel
    log,        \* server: the channel's messages, by the keys they are sealed with
    identity,   \* IndexedDB: per device, the generation of its identity key
    preKey,     \* IndexedDB: per device, the generation of its signed pre-key
    session,    \* IndexedDB: per device, the channel's session key
    boot,       \* per tab, the stage of bootstrapDeviceKeys
    send,       \* per tab, the stage of sendMessage and what it works with
    received,   \* per tab, the last message pushed to it or loaded by it
    reader,     \* per tab and message, the stage of decrypting it
    generated,  \* history: generations so far
    setups,     \* history: handshakes begun so far
    initiators, \* history: tabs that left a handshake at the server
    faults      \* history: faults so far

server  == <<bundle, setup, log>>
keys    == <<identity, preKey>>
client  == <<boot, send, received, reader>>
history == <<generated, setups, initiators, faults>>
vars == <<server, keys, session, client, history>>

Id == 1 .. MaxMessages

\* The initiator's identity key, the responder's keys, and the ephemeral key.
Key == [by : Pair, identity : Pair, preKey : Pair, ephemeral : 1 .. MaxSetups]

\* The part of it that the initiator leaves at the server.
Handshake == [by : Pair, ephemeral : 1 .. MaxSetups]

Message == [from : Device, key : Key]

ASSUME NoneAssumption == None \notin Key \cup Handshake

NoBoot == [stage |-> "start", pair |-> None]
NoSend == [stage |-> "idle", pair |-> None, key |-> None]
NoRead == [stage |-> "idle", setup |-> None, key |-> None]

TypeOK ==
    /\ bundle \in [Device -> Pair \cup {None}]
    /\ setup \in Handshake \cup {None}
    /\ log \in Seq(Message)
    /\ Len(log) <= MaxMessages
    /\ identity \in [Device -> Pair \cup {None}]
    /\ preKey \in [Device -> Pair \cup {None}]
    /\ session \in [Device -> Key \cup {None}]
    /\ boot \in [Tab -> [stage : {"start", "uploading", "uploaded", "saving", "over"},
                         pair : Pair \cup {None}]]
    /\ send \in [Tab -> [stage : {"idle", "bundles", "deriving", "setup", "saving",
                                  "posting"},
                         pair : Pair \cup {None}, key : Key \cup {None}]]
    /\ received \in [Tab -> 0 .. MaxMessages]
    /\ reader \in [Tab -> [Id -> [stage : {"idle", "setup", "deriving", "saving",
                                           "text", "wrongKey", "noKey"},
                                  setup : Handshake \cup {None},
                                  key : Key \cup {None}]]]
    /\ generated \in SUBSET Pair
    /\ setups \in 0 .. MaxSetups
    /\ initiators \in SUBSET Tab
    /\ faults \in 0 .. MaxFaults

Init ==
    /\ bundle = [d \in Device |-> None]
    /\ setup = None
    /\ log = <<>>
    /\ identity = [d \in Device |-> None]
    /\ preKey = [d \in Device |-> None]
    /\ session = [d \in Device |-> None]
    /\ boot = [t \in Tab |-> NoBoot]
    /\ send = [t \in Tab |-> NoSend]
    /\ received = [t \in Tab |-> 0]
    /\ reader = [t \in Tab |-> [m \in Id |-> NoRead]]
    /\ generated = {}
    /\ setups = 0
    /\ initiators = {}
    /\ faults = 0

Fault == faults < MaxFaults /\ faults' = faults + 1

-----------------------------------------------------------------------------
(***************************************************************************)
(* bootstrapDeviceKeys, called when the page is loaded.                    *)
(***************************************************************************)

Boot(t, stage, pair) == boot' = [boot EXCEPT ![t] = [stage |-> stage, pair |-> pair]]

BootstrapBegins(t) ==
    /\ boot[t].stage = "start"
    /\ \/ /\ identity[DeviceOf[t]] # None
          /\ Boot(t, "over", None)
          /\ UNCHANGED generated
       \/ /\ identity[DeviceOf[t]] = None
          /\ \E pair \in Pair \ generated :
                /\ Boot(t, "uploading", pair)
                /\ generated' = generated \cup {pair}
    /\ UNCHANGED <<server, keys, session, send, received, reader, setups, initiators,
                   faults>>

\* Mutant: a bundle the device has already is kept.
BundleInserted(t) ==
    LET d == DeviceOf[t]
    IN /\ boot[t].stage = "uploading"
       /\ bundle' = [bundle EXCEPT ![d] = IF @ = None THEN boot[t].pair ELSE @]
       /\ Boot(t, "uploaded", boot[t].pair)
       /\ UNCHANGED <<setup, log, keys, session, send, received, reader, history>>

\* POST /keys/upload replaces the device's bundle.
BundleUploaded(t) ==
    /\ boot[t].stage = "uploading"
    /\ bundle' = [bundle EXCEPT ![DeviceOf[t]] = boot[t].pair]
    /\ Boot(t, "uploaded", boot[t].pair)
    /\ UNCHANGED <<setup, log, keys, session, send, received, reader, history>>

\* saveIdentityKeyPair ...
IdentitySaved(t) ==
    /\ boot[t].stage = "uploaded"
    /\ identity' = [identity EXCEPT ![DeviceOf[t]] = boot[t].pair]
    /\ Boot(t, "saving", boot[t].pair)
    /\ UNCHANGED <<server, preKey, session, send, received, reader, history>>

\* Mutant: not the pre-key is put but what holds it.
PreKeySavedBare(t) ==
    /\ boot[t].stage = "saving"
    /\ preKey' = [preKey EXCEPT ![DeviceOf[t]] = boot[t]]
    /\ Boot(t, "over", None)
    /\ UNCHANGED <<server, identity, session, send, received, reader, history>>

\* ... and, in another transaction, saveSignedPreKey.
PreKeySaved(t) ==
    /\ boot[t].stage = "saving"
    /\ preKey' = [preKey EXCEPT ![DeviceOf[t]] = boot[t].pair]
    /\ Boot(t, "over", None)
    /\ UNCHANGED <<server, identity, session, send, received, reader, history>>

\* The upload fails, before or after it is served.
UploadFails(t) ==
    /\ boot[t].stage \in {"uploading", "uploaded"}
    /\ Fault
    /\ Boot(t, "over", None)
    /\ UNCHANGED <<server, keys, session, send, received, reader, generated, setups,
                   initiators>>

-----------------------------------------------------------------------------
(***************************************************************************)
(* encryptForDM and establishDMSession.                                    *)
(***************************************************************************)

Send(t, stage, pair, key) ==
    send' = [send EXCEPT ![t] = [stage |-> stage, pair |-> pair, key |-> key]]

SendBegins(t) ==
    LET key == session[DeviceOf[t]]
    IN /\ send[t].stage = "idle"
       /\ Len(log) < MaxMessages
       /\ Send(t, IF key = None THEN "bundles" ELSE "posting", None, key)
       /\ UNCHANGED <<server, keys, session, boot, received, reader, history>>

\* The other participant's devices that have published.  The first of the list is
\* taken, and the database orders it as it likes.
Recipients(t) ==
    {d \in Device : Owner[d] # Owner[DeviceOf[t]] /\ bundle[d] # None}

BundlesFetched(t) ==
    /\ send[t].stage = "bundles"
    /\ \/ \E d \in Recipients(t) : Send(t, "deriving", bundle[d], None)
       \/ Recipients(t) = {} /\ send' = [send EXCEPT ![t] = NoSend]
    /\ UNCHANGED <<server, keys, session, boot, received, reader, history>>

\* The own identity key is read and the session key derived.
InitiatorDerives(t) ==
    LET own == identity[DeviceOf[t]]
        pair == send[t].pair
    IN /\ send[t].stage = "deriving"
       /\ \/ /\ own # None
             /\ setups < MaxSetups
             /\ setups' = setups + 1
             /\ Send(t, "setup", None, [by |-> own, identity |-> pair, preKey |-> pair,
                                       ephemeral |-> setups'])
          \/ /\ own = None
             /\ send' = [send EXCEPT ![t] = NoSend]
             /\ UNCHANGED setups
       /\ UNCHANGED <<server, keys, session, boot, received, reader, generated,
                      initiators, faults>>

\* Mutant: the first handshake stays.
SetupInserted(t) ==
    LET key == send[t].key
    IN /\ send[t].stage = "setup"
       /\ setup' = IF setup = None THEN [by |-> key.by, ephemeral |-> key.ephemeral]
                                    ELSE setup
       /\ initiators' = initiators \cup {t}
       /\ Send(t, "saving", None, key)
       /\ UNCHANGED <<bundle, log, keys, session, boot, received, reader, generated,
                      setups, faults>>

\* POST /x3dh-setup replaces whatever handshake the channel had.
SetupStored(t) ==
    LET key == send[t].key
    IN /\ send[t].stage = "setup"
       /\ setup' = [by |-> key.by, ephemeral |-> key.ephemeral]
       /\ initiators' = initiators \cup {t}
       /\ Send(t, "saving", None, key)
       /\ UNCHANGED <<bundle, log, keys, session, boot, received, reader, generated,
                      setups, faults>>

\* Mutant: the key is derived but not kept.
SessionSavedNot(t) ==
    /\ send[t].stage = "saving"
    /\ Send(t, "posting", None, send[t].key)
    /\ UNCHANGED <<server, keys, session, boot, received, reader, history>>

SessionSaved(t) ==
    /\ send[t].stage = "saving"
    /\ session' = [session EXCEPT ![DeviceOf[t]] = send[t].key]
    /\ Send(t, "posting", None, send[t].key)
    /\ UNCHANGED <<server, keys, boot, received, reader, history>>

MessagePosted(t) ==
    /\ send[t].stage = "posting"
    /\ Len(log) < MaxMessages
    /\ log' = Append(log, [from |-> DeviceOf[t], key |-> send[t].key])
    /\ send' = [send EXCEPT ![t] = NoSend]
    /\ UNCHANGED <<bundle, setup, keys, session, boot, received, reader, history>>

\* A request fails before it is served, or after it.  (sendMessage then posts the
\* plaintext, which takes no part in this.)
SendFails(t) ==
    /\ send[t].stage \in {"bundles", "setup", "saving", "posting"}
    /\ Fault
    /\ send' = [send EXCEPT ![t] = NoSend]
    /\ UNCHANGED <<server, keys, session, boot, received, reader, generated, setups,
                   initiators>>

-----------------------------------------------------------------------------
(***************************************************************************)
(* decryptFromDM and establishDMSessionAsResponder, for messages pushed by *)
(* the server, or loaded with the page of history when the page is new.    *)
(***************************************************************************)

Read(t, m, stage, handshake, key) ==
    reader' = [reader EXCEPT ![t][m] = [stage |-> stage, setup |-> handshake,
                                        key |-> key]]

\* What decrypting message m with the key gives.
Opened(m, key) == IF key = log[m].key THEN "text" ELSE "wrongKey"

\* A message in the plaintext cache is shown from there.
Received(t) ==
    LET m == received[t] + 1
        key == session[DeviceOf[t]]
    IN /\ m <= Len(log)
       /\ received' = [received EXCEPT ![t] = m]
       /\ \/ reader[t][m].stage = "text" /\ UNCHANGED reader
          \/ /\ reader[t][m].stage # "text"
             /\ Read(t, m, IF key = None THEN "setup" ELSE Opened(m, key), None, None)
       /\ UNCHANGED <<server, keys, session, boot, send, history>>

SetupFetched(t, m) ==
    /\ reader[t][m].stage = "setup"
    /\ Read(t, m, IF setup = None THEN "noKey" ELSE "deriving", setup, None)
    /\ UNCHANGED <<server, keys, session, boot, send, received, history>>

\* The mirror computation, with the device's own keys.
ResponderDerives(t, m) ==
    LET d == DeviceOf[t]
        handshake == reader[t][m].setup
    IN /\ reader[t][m].stage = "deriving"
       /\ \/ /\ identity[d] # None
             /\ preKey[d] # None
             /\ Read(t, m, "saving", None,
                     [by |-> handshake.by, identity |-> identity[d],
                      preKey |-> preKey[d], ephemeral |-> handshake.ephemeral])
          \/ /\ identity[d] = None \/ preKey[d] = None
             /\ Read(t, m, "noKey", None, None)
       /\ UNCHANGED <<server, keys, session, boot, send, received, history>>

ResponderSaved(t, m) ==
    LET key == reader[t][m].key
    IN /\ reader[t][m].stage = "saving"
       /\ session' = [session EXCEPT ![DeviceOf[t]] = key]
       /\ Read(t, m, Opened(m, key), None, None)
       /\ UNCHANGED <<server, keys, boot, send, received, history>>

FetchFails(t, m) ==
    /\ reader[t][m].stage = "setup"
    /\ Fault
    /\ Read(t, m, "noKey", None, None)
    /\ UNCHANGED <<server, keys, session, boot, send, received, generated, setups,
                   initiators>>

-----------------------------------------------------------------------------

\* The page is loaded anew, in the middle of whatever it was doing.  Of the messages
\* it has read, those are still known whose plaintext was cached by then.
Reload(t) ==
    /\ Fault
    /\ boot' = [boot EXCEPT ![t] = NoBoot]
    /\ send' = [send EXCEPT ![t] = NoSend]
    /\ received' = [received EXCEPT ![t] = 0]
    /\ \E cached \in SUBSET {m \in Id : reader[t][m].stage = "text"} :
          reader' = [reader EXCEPT ![t] =
                        [m \in Id |-> IF m \in cached THEN @[m] ELSE NoRead]]
    /\ UNCHANGED <<server, keys, session, generated, setups, initiators>>

\* The handshake is kept for 30 days.
SetupExpires ==
    /\ setup # None
    /\ setup' = None
    /\ UNCHANGED <<bundle, log, keys, session, client, history>>

Bootstrap(t) ==
    \/ BootstrapBegins(t)
    \/ BundleUploaded(t)
    \/ IdentitySaved(t)
    \/ PreKeySaved(t)
    \/ UploadFails(t)

Write(t) ==
    \/ SendBegins(t)
    \/ BundlesFetched(t)
    \/ InitiatorDerives(t)
    \/ SetupStored(t)
    \/ SessionSaved(t)
    \/ MessagePosted(t)
    \/ SendFails(t)

Receive(t) ==
    \/ Received(t)
    \/ \E m \in Id :
          \/ SetupFetched(t, m)
          \/ ResponderDerives(t, m)
          \/ ResponderSaved(t, m)
          \/ FetchFails(t, m)

Next ==
    \/ \E t \in Tab : Bootstrap(t) \/ Write(t) \/ Receive(t) \/ Reload(t)
    \/ SetupExpires

Spec == Init /\ [][Next]_vars

-----------------------------------------------------------------------------
(***************************************************************************)
(* Properties.                                                             *)
(***************************************************************************)

\* Two tabs, of the two participants or of one, each began the session.
Contested == Cardinality(initiators) > 1

MadeFor(key, d) == identity[d] = key.identity /\ preKey[d] = key.preKey

\* Nobody has the private keys that the initiator's session key was made for: the
\* device that had published them was interrupted before it saved them.
Orphaned ==
    \E t \in initiators :
        LET key == session[DeviceOf[t]]
        IN key # None /\ \A d \in Device : ~MadeFor(key, d)

\* The session is one between two other devices: establishDMSession takes the first
\* bundle of the other user, and there is one handshake for all devices of both.
Elsewhere(d) ==
    \E t \in initiators :
        LET key == session[DeviceOf[t]]
        IN key # None /\ d # DeviceOf[t] /\ \E e \in Device \ {d} : MadeFor(key, e)

\* For devices used in one tab: what a device keeps is what the server hands out in
\* its name, however often publishing was interrupted and begun again
\* (bootstrapDeviceKeys uploads before it saves, and does nothing once it saved).
PublishedIsStored ==
    \A d \in Device :
        identity[d] # None => /\ bundle[d] = identity[d]
                              /\ preKey[d] \in {identity[d], None}

\* The handshake that the server keeps for a channel, from which every device that
\* has no session key yet derives one, is that of the initiator's session in use,
\* also when it was posted again because an answer was lost (establishDMSession).
HandshakeIsOfSession ==
    \A t \in initiators :
        LET key == session[DeviceOf[t]]
        IN ~ Contested /\ setup # None /\ key # None =>
               setup = [by |-> key.by, ephemeral |-> key.ephemeral]

\* A message is decrypted with a key other than its own only if two began the
\* session, if it was made for keys that were published and never saved, or if the
\* device of the reader or the writer is a further one: not through failed requests,
\* reloads or the order in which messages are read (decryptFromDM,
\* establishDMSessionAsResponder).
WrongKeyHasCause ==
    \A t \in Tab, m \in Id :
        reader[t][m].stage = "wrongKey" =>
            \/ Contested
            \/ Orphaned
            \/ Elsewhere(DeviceOf[t])
            \/ Elsewhere(log[m].from)
=============================================================================
