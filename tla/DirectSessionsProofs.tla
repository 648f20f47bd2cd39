------------------------- MODULE DirectSessionsProofs -------------------------
(***************************************************************************)
(* Proofs about the session key of a direct-message channel: what a device *)
(* keeps is what the server publishes for it; the handshake at the server  *)
(* is that of the session in use; a message is opened with a key that is   *)
(* not its own only for a reason.                                          *)
(*                                                                         *)
(* The first invariant follows a bootstrap through its stages: as long as  *)
(* it has not saved the identity key nobody has, because nobody else       *)
(* bootstraps the device.                                                  *)
(***************************************************************************)
EXTENDS DirectSessions, FiniteSetTheorems, TLAPS

OneTabEach == \A t, u \in Tab : DeviceOf[t] = DeviceOf[u] => t = u

Stages == {"start", "uploading", "uploaded", "saving", "over"}

KeysTyped ==
    /\ bundle \in [Device -> Pair \cup {None}]
    /\ identity \in [Device -> Pair \cup {None}]
    /\ preKey \in [Device -> Pair \cup {None}]
    /\ boot \in [Tab -> [stage : Stages, pair : Pair \cup {None}]]

\* The identity key is saved before the pre-key.
PreKeyFollows == \A d \in Device : identity[d] = None => preKey[d] = None

\* What a bootstrap under way has done so far.
BootstrapKnown ==
    \A t \in Tab :
        LET d == DeviceOf[t]
            pair == boot[t].pair
        IN /\ boot[t].stage \in {"uploading", "uploaded", "saving"} => pair \in Pair
           /\ boot[t].stage \in {"uploading", "uploaded"} => identity[d] = None
           /\ boot[t].stage = "uploaded" => bundle[d] = pair
           /\ boot[t].stage = "saving" => identity[d] = pair

PublishedInv == KeysTyped /\ PreKeyFollows /\ BootstrapKnown /\ PublishedIsStored

-----------------------------------------------------------------------------

LEMMA PublishedInit == Init => PublishedInv
BY DirectSessionsAssumption
   DEF Init, NoBoot, PublishedInv, KeysTyped, Stages, PreKeyFollows, BootstrapKnown,
       PublishedIsStored

\* The steps of bootstrapDeviceKeys, each on the device of its own tab.
LEMMA PublishedBootstrap ==
    ASSUME OneTabEach, PublishedInv, NEW t \in Tab, Bootstrap(t)
    PROVE  PublishedInv'
<1> USE DirectSessionsAssumption
        DEF OneTabEach, PublishedInv, KeysTyped, Stages, PreKeyFollows, BootstrapKnown,
            PublishedIsStored, Boot
<1>1. CASE BootstrapBegins(t)
  BY <1>1 DEF BootstrapBegins, server, keys
<1>2. CASE BundleUploaded(t)
  BY <1>2 DEF BundleUploaded, keys
<1>3. CASE IdentitySaved(t)
  BY <1>3 DEF IdentitySaved, server
<1>4. CASE PreKeySaved(t)
  BY <1>4 DEF PreKeySaved, server
<1>5. CASE UploadFails(t)
  BY <1>5 DEF UploadFails, server, keys
<1> QED
  BY <1>1, <1>2, <1>3, <1>4, <1>5 DEF Bootstrap

\* Nothing else touches what a device keeps or publishes.
LEMMA PublishedOtherwise ==
    ASSUME PublishedInv, UNCHANGED <<bundle, keys, boot>>
    PROVE  PublishedInv'
BY DEF PublishedInv, KeysTyped, PreKeyFollows, BootstrapKnown, PublishedIsStored, keys

LEMMA PublishedReload ==
    ASSUME PublishedInv, NEW t \in Tab, Reload(t)
    PROVE  PublishedInv'
BY DirectSessionsAssumption
   DEF PublishedInv, KeysTyped, Stages, PreKeyFollows, BootstrapKnown, PublishedIsStored,
       Reload, NoBoot, server, keys

LEMMA WriteKeepsKeys ==
    ASSUME NEW t \in Tab, Write(t)
    PROVE  UNCHANGED <<bundle, keys, boot>>
BY DEF Write, SendBegins, BundlesFetched, InitiatorDerives, SetupStored, SessionSaved,
       MessagePosted, SendFails, server

LEMMA ReceiveKeepsKeys ==
    ASSUME NEW t \in Tab, Receive(t)
    PROVE  UNCHANGED <<bundle, keys, boot>>
BY DEF Receive, Received, SetupFetched, ResponderDerives, ResponderSaved, FetchFails,
       server

LEMMA PublishedStep ==
    ASSUME OneTabEach, PublishedInv, [Next]_vars
    PROVE  PublishedInv'
<1>1. CASE \E t \in Tab : Bootstrap(t)
  BY <1>1, PublishedBootstrap
<1>2. CASE \E t \in Tab : Write(t) \/ Receive(t)
  BY <1>2, WriteKeepsKeys, ReceiveKeepsKeys, PublishedOtherwise
<1>3. CASE \E t \in Tab : Reload(t)
  BY <1>3, PublishedReload
<1>4. CASE SetupExpires
  BY <1>4, PublishedOtherwise DEF SetupExpires, client
<1>5. CASE UNCHANGED vars
  BY <1>5, PublishedOtherwise DEF vars, server, client
<1> QED
  BY <1>1, <1>2, <1>3, <1>4, <1>5 DEF Next

\* However often publishing is interrupted and begun again, by failed uploads and by
\* reloads, a device that has saved its identity key has saved the one that the server
\* hands out, and no pre-key but the one published with it (bootstrapDeviceKeys).
THEOREM PublishedAlwaysIsStored ==
    ASSUME OneTabEach
    PROVE  Spec => []PublishedIsStored
<1>1. Init => PublishedInv
  BY PublishedInit
<1>2. PublishedInv /\ [Next]_vars => PublishedInv'
  BY OneTabEach, PublishedStep
<1>3. PublishedInv => PublishedIsStored
  BY DEF PublishedInv
<1> QED
  BY <1>1, <1>2, <1>3, PTL DEF Spec

-----------------------------------------------------------------------------
(***************************************************************************)
(* The types.  A stage tells which of its fields holds keys.               *)
(***************************************************************************)

SendKnown ==
    \A t \in Tab :
        /\ send[t].stage = "deriving" => send[t].pair \in Pair
        /\ send[t].stage \in {"setup", "saving", "posting"} => send[t].key \in Key

ReadKnown ==
    \A t \in Tab, m \in Id :
        /\ reader[t][m].stage = "deriving" => reader[t][m].setup \in Handshake
        /\ reader[t][m].stage = "saving" => reader[t][m].key \in Key

TypeInv == TypeOK /\ SendKnown /\ ReadKnown

LEMMA TypesInit == Init => TypeInv
<1> USE DirectSessionsAssumption
<1>1. Init => TypeOK
  BY DEF Init, TypeOK, NoBoot, NoSend, NoRead, Id
<1>2. Init => SendKnown /\ ReadKnown
  BY DEF Init, SendKnown, ReadKnown, NoSend, NoRead, Id
<1> QED
  BY <1>1, <1>2 DEF TypeInv

\* One step of publishing, and one of sending.
LEMMA TypesBoot ==
    ASSUME TypeInv, NEW t \in Tab, NEW stage \in Stages, NEW pair \in Pair \cup {None},
           Boot(t, stage, pair)
    PROVE  boot' \in [Tab -> [stage : {"start", "uploading", "uploaded", "saving",
                                       "over"}, pair : Pair \cup {None}]]
BY DEF TypeInv, TypeOK, Boot, Stages

LEMMA TypesSend ==
    ASSUME TypeInv, NEW t \in Tab,
           NEW stage \in {"idle", "bundles", "deriving", "setup", "saving", "posting"},
           NEW pair \in Pair \cup {None}, NEW key \in Key \cup {None},
           Send(t, stage, pair, key),
           stage = "deriving" => pair \in Pair,
           stage \in {"setup", "saving", "posting"} => key \in Key
    PROVE  /\ send' \in [Tab -> [stage : {"idle", "bundles", "deriving", "setup",
                                          "saving", "posting"},
                                 pair : Pair \cup {None}, key : Key \cup {None}]]
           /\ SendKnown'
BY DEF TypeInv, TypeOK, SendKnown, Send

LEMMA FaultTyped ==
    ASSUME TypeInv, Fault
    PROVE  faults' \in 0 .. MaxFaults
<1>1. faults \in 0 .. MaxFaults
  BY DEF TypeInv, TypeOK
<1> QED
  BY <1>1, DirectSessionsAssumption DEF Fault

LEMMA TypesBootstrap ==
    ASSUME TypeInv, NEW t \in Tab, Bootstrap(t)
    PROVE  TypeInv'
<1> USE DirectSessionsAssumption
<1>1. /\ UNCHANGED <<setup, log, session, send, received, reader>>
      /\ UNCHANGED <<setups, initiators>>
  BY DEF Bootstrap, BootstrapBegins, BundleUploaded, IdentitySaved, PreKeySaved,
         UploadFails, server, history
<1>2. SendKnown' /\ ReadKnown'
  BY <1>1 DEF SendKnown, ReadKnown, TypeInv
<1> DEFINE Rest == /\ bundle' \in [Device -> Pair \cup {None}]
                   /\ identity' \in [Device -> Pair \cup {None}]
                   /\ preKey' \in [Device -> Pair \cup {None}]
                   /\ boot' \in [Tab -> [stage : {"start", "uploading", "uploaded",
                                         "saving", "over"}, pair : Pair \cup {None}]]
                   /\ generated' \in SUBSET Pair
                   /\ faults' \in 0 .. MaxFaults
<1>3. ASSUME Rest
      PROVE  TypeInv'
  BY <1>1, <1>2, <1>3 DEF TypeInv, TypeOK
<1> USE DEF Stages
<1>4. CASE BootstrapBegins(t)
  <2>1. UNCHANGED <<bundle, identity, preKey, faults>>
    BY <1>4 DEF BootstrapBegins, server, keys
  <2>2. CASE Boot(t, "over", None) /\ UNCHANGED generated
    BY <1>3, <2>1, <2>2, TypesBoot DEF TypeInv, TypeOK
  <2>3. ASSUME NEW pair \in Pair, Boot(t, "uploading", pair),
               generated' = generated \cup {pair}
        PROVE  TypeInv'
    BY <1>3, <2>1, <2>3, TypesBoot DEF TypeInv, TypeOK
  <2> QED
    BY <1>4, <2>2, <2>3 DEF BootstrapBegins
<1> DEFINE pair == boot[t].pair
<1>5. pair \in Pair \cup {None}
  BY DEF TypeInv, TypeOK
<1> HIDE DEF pair
<1>6. CASE BundleUploaded(t)
  <2>1. UNCHANGED <<identity, preKey, generated, faults>> /\ Boot(t, "uploaded", pair)
    BY <1>6 DEF BundleUploaded, keys, history, pair
  <2>2. bundle' = [bundle EXCEPT ![DeviceOf[t]] = pair]
    BY <1>6 DEF BundleUploaded, pair
  <2> QED
    BY <1>3, <1>5, <2>1, <2>2, TypesBoot DEF TypeInv, TypeOK
<1>7. CASE IdentitySaved(t)
  <2>1. UNCHANGED <<bundle, preKey, generated, faults>> /\ Boot(t, "saving", pair)
    BY <1>7 DEF IdentitySaved, server, history, pair
  <2>2. identity' = [identity EXCEPT ![DeviceOf[t]] = pair]
    BY <1>7 DEF IdentitySaved, pair
  <2> QED
    BY <1>3, <1>5, <2>1, <2>2, TypesBoot DEF TypeInv, TypeOK
<1>8. CASE PreKeySaved(t)
  <2>1. UNCHANGED <<bundle, identity, generated, faults>> /\ Boot(t, "over", None)
    BY <1>8 DEF PreKeySaved, server, history
  <2>2. preKey' = [preKey EXCEPT ![DeviceOf[t]] = pair]
    BY <1>8 DEF PreKeySaved, pair
  <2> QED
    BY <1>3, <1>5, <2>1, <2>2, TypesBoot DEF TypeInv, TypeOK
<1>9. CASE UploadFails(t)
  <2>1. /\ UNCHANGED <<bundle, identity, preKey, generated>>
        /\ Fault
        /\ Boot(t, "over", None)
    BY <1>9 DEF UploadFails, server, keys
  <2> QED
    BY <1>3, <2>1, TypesBoot, FaultTyped DEF TypeInv, TypeOK
<1> QED
  BY <1>4, <1>6, <1>7, <1>8, <1>9 DEF Bootstrap

LEMMA TypesWrite ==
    ASSUME TypeInv, NEW t \in Tab, Write(t)
    PROVE  TypeInv'
<1> USE DirectSessionsAssumption
<1>1. UNCHANGED <<bundle, keys, boot, received, reader, generated>>
  BY DEF Write, SendBegins, BundlesFetched, InitiatorDerives, SetupStored,
         SessionSaved, MessagePosted, SendFails, server, history
<1>2. ReadKnown'
  BY <1>1 DEF ReadKnown, TypeInv
<1> DEFINE Sent == /\ send' \in [Tab -> [stage : {"idle", "bundles", "deriving",
                                      "setup", "saving", "posting"},
                                 pair : Pair \cup {None}, key : Key \cup {None}]]
                   /\ SendKnown'
           Rest == /\ setup' \in Handshake \cup {None}
                   /\ log' \in Seq(Message)
                   /\ Len(log') <= MaxMessages
                   /\ session' \in [Device -> Key \cup {None}]
                   /\ setups' \in 0 .. MaxSetups
                   /\ initiators' \in SUBSET Tab
                   /\ faults' \in 0 .. MaxFaults
<1>3. ASSUME Sent, Rest
      PROVE  TypeInv'
  BY <1>1, <1>2, <1>3 DEF TypeInv, TypeOK, keys
<1>4. ASSUME send' = [send EXCEPT ![t] = NoSend]
      PROVE  Sent
  BY <1>4, TypesSend DEF Send, NoSend
<1>5. /\ UNCHANGED <<setup, log, session>> => Rest \/ ~ UNCHANGED history
      /\ UNCHANGED <<setup, log, session, setups, initiators>> /\ Fault => Rest
  BY FaultTyped DEF TypeInv, TypeOK, history
<1> HIDE DEF Sent, Rest
<1>6. CASE SendBegins(t)
  <2>1. session[DeviceOf[t]] \in Key \cup {None}
    BY DEF TypeInv, TypeOK
  <2>2. Rest
    BY <1>5, <1>6 DEF SendBegins, server
  <2>3. Sent
    BY <1>6, <2>1, TypesSend DEF SendBegins, Sent
  <2> QED
    BY <1>3, <2>2, <2>3
<1>7. CASE BundlesFetched(t)
  <2>1. Rest
    BY <1>5, <1>7 DEF BundlesFetched, server
  <2>2. ASSUME NEW d \in Recipients(t), Send(t, "deriving", bundle[d], None)
        PROVE  Sent
    <3>1. bundle[d] \in Pair
      BY DEF Recipients, TypeInv, TypeOK
    <3> QED
      BY <2>2, <3>1, TypesSend DEF Sent
  <2> QED
    BY <1>3, <1>4, <1>7, <2>1, <2>2 DEF BundlesFetched
<1>8. CASE InitiatorDerives(t)
  <2>1. UNCHANGED <<setup, log, session, initiators, faults>>
    BY <1>8 DEF InitiatorDerives, server
  <2>2. CASE UNCHANGED setups /\ send' = [send EXCEPT ![t] = NoSend]
    <3>1. Rest
      BY <2>1, <2>2 DEF Rest, TypeInv, TypeOK
    <3> QED
      BY <1>3, <1>4, <2>2, <3>1
  <2>3. ASSUME identity[DeviceOf[t]] # None, setups < MaxSetups, setups' = setups + 1,
               NEW key, Send(t, "setup", None, key),
               key = [by |-> identity[DeviceOf[t]], identity |-> send[t].pair,
                      preKey |-> send[t].pair, ephemeral |-> setups']
        PROVE  TypeInv'
    <3>1. setups' \in 1 .. MaxSetups /\ setups' \in 0 .. MaxSetups
      <4>1. setups \in 0 .. MaxSetups
        BY DEF TypeInv, TypeOK
      <4> QED
        BY <2>3, <4>1
    <3>2. identity[DeviceOf[t]] \in Pair /\ send[t].pair \in Pair
      BY <1>8, <2>3 DEF InitiatorDerives, TypeInv, TypeOK, SendKnown
    <3>3. key \in Key
      BY <2>3, <3>1, <3>2 DEF Key
    <3>4. Sent
      BY <2>3, <3>3, TypesSend DEF Sent
    <3>5. Rest
      BY <2>1, <3>1 DEF Rest, TypeInv, TypeOK
    <3> QED
      BY <1>3, <3>4, <3>5
  <2> QED
    BY <1>8, <2>2, <2>3 DEF InitiatorDerives
<1>9. CASE SetupStored(t)
  <2>1. send[t].key \in Key
    BY <1>9 DEF SetupStored, TypeInv, SendKnown
  <2>2. [by |-> send[t].key.by, ephemeral |-> send[t].key.ephemeral] \in Handshake
    BY <2>1 DEF Key, Handshake
  <2>3. Sent
    BY <1>9, <2>1, TypesSend DEF SetupStored, Sent
  <2>4. Rest
    BY <1>9, <2>2 DEF SetupStored, Rest, TypeInv, TypeOK
  <2> QED
    BY <1>3, <2>3, <2>4
<1>10. CASE SessionSaved(t)
  <2>1. send[t].key \in Key
    BY <1>10 DEF SessionSaved, TypeInv, SendKnown
  <2>2. Sent
    BY <1>10, <2>1, TypesSend DEF SessionSaved, Sent
  <2>3. Rest
    BY <1>10, <2>1 DEF SessionSaved, Rest, TypeInv, TypeOK, server, history
  <2> QED
    BY <1>3, <2>2, <2>3
<1>11. CASE MessagePosted(t)
  <2>1. [from |-> DeviceOf[t], key |-> send[t].key] \in Message
    BY <1>11 DEF MessagePosted, Message, TypeInv, SendKnown
  <2>2. log' \in Seq(Message) /\ Len(log') <= MaxMessages
    <3>1. log \in Seq(Message)
      BY DEF TypeInv, TypeOK
    <3>2. /\ Len(log) < MaxMessages
          /\ log' = Append(log, [from |-> DeviceOf[t], key |-> send[t].key])
      BY <1>11 DEF MessagePosted
    <3> QED
      BY <2>1, <3>1, <3>2
  <2>3. Rest
    BY <1>11, <2>2 DEF MessagePosted, Rest, TypeInv, TypeOK, history
  <2> QED
    BY <1>3, <1>4, <1>11, <2>3 DEF MessagePosted
<1>12. CASE SendFails(t)
  <2>1. Rest
    BY <1>5, <1>12 DEF SendFails, server
  <2> QED
    BY <1>3, <1>4, <1>12, <2>1 DEF SendFails
<1> QED
  BY <1>6, <1>7, <1>8, <1>9, <1>10, <1>11, <1>12 DEF Write

\* One step of decrypting a message.
LEMMA TypesRead ==
    ASSUME TypeInv, NEW t \in Tab, NEW m \in Id, NEW stage, NEW handshake, NEW key,
           Read(t, m, stage, handshake, key),
           stage \in {"setup", "deriving", "saving", "text", "wrongKey", "noKey"},
           handshake \in Handshake \cup {None}, key \in Key \cup {None},
           stage = "deriving" => handshake \in Handshake,
           stage = "saving" => key \in Key
    PROVE  /\ reader' \in [Tab -> [Id -> [stage : {"idle", "setup", "deriving",
                               "saving", "text", "wrongKey", "noKey"},
                               setup : Handshake \cup {None}, key : Key \cup {None}]]]
           /\ ReadKnown'
BY DEF TypeInv, TypeOK, ReadKnown, Read

LEMMA TypesReceive ==
    ASSUME TypeInv, NEW t \in Tab, Receive(t)
    PROVE  TypeInv'
<1> USE DirectSessionsAssumption
<1>1. UNCHANGED <<send, boot, server, keys, generated, setups, initiators>>
  BY DEF Receive, Received, SetupFetched, ResponderDerives, ResponderSaved,
         FetchFails, history
<1>2. SendKnown'
  BY <1>1 DEF TypeInv, SendKnown
<1> DEFINE Rest == /\ session' \in [Device -> Key \cup {None}]
                   /\ received' \in [Tab -> 0 .. MaxMessages]
                   /\ faults' \in 0 .. MaxFaults
<1>3. ASSUME Rest, ReadKnown',
             reader' \in [Tab -> [Id -> [stage : {"idle", "setup", "deriving",
                              "saving", "text", "wrongKey", "noKey"},
                              setup : Handshake \cup {None}, key : Key \cup {None}]]]
      PROVE  TypeInv'
  BY <1>1, <1>2, <1>3 DEF TypeInv, TypeOK, server, keys
<1>4. CASE Received(t)
  <2> DEFINE m == received[t] + 1
             key == session[DeviceOf[t]]
             stage == IF key = None THEN "setup" ELSE Opened(m, key)
  <2>1. m \in Id /\ received' = [received EXCEPT ![t] = m]
    <3>1. /\ received[t] \in 0 .. MaxMessages
          /\ Len(log) <= MaxMessages
          /\ log \in Seq(Message)
      BY DEF TypeInv, TypeOK
    <3>2. m <= Len(log) /\ received' = [received EXCEPT ![t] = m]
      BY <1>4 DEF Received
    <3> QED
      BY <3>1, <3>2 DEF Id
  <2>2. Rest
    <3>1. UNCHANGED <<session, faults>>
      BY <1>4 DEF Received, history
    <3>2. received \in [Tab -> 0 .. MaxMessages]
      BY DEF TypeInv, TypeOK
    <3>3. received' \in [Tab -> 0 .. MaxMessages]
      <4> HIDE DEF m
      <4> QED
        BY <2>1, <3>2 DEF Id
    <3> QED
      BY <3>1, <3>3 DEF TypeInv, TypeOK
  <2>3. CASE reader[t][m].stage = "text"
    <3>1. UNCHANGED reader
      BY <1>4, <2>3 DEF Received
    <3> QED
      BY <1>3, <2>2, <3>1 DEF TypeInv, TypeOK, ReadKnown
  <2>4. CASE reader[t][m].stage # "text"
    <3>1. Read(t, m, stage, None, None)
      BY <1>4, <2>4 DEF Received
    <3>2. stage \in {"setup", "text", "wrongKey"}
      BY DEF Opened
    <3> HIDE DEF m, stage
    <3> QED
      BY <1>3, <2>1, <2>2, <3>1, <3>2, TypesRead
  <2> QED
    BY <2>3, <2>4
<1>5. ASSUME NEW m \in Id, SetupFetched(t, m)
      PROVE  TypeInv'
  <2>1. Rest
    BY <1>5 DEF SetupFetched, TypeInv, TypeOK, history
  <2>2. setup \in Handshake \cup {None}
    BY DEF TypeInv, TypeOK
  <2> QED
    BY <1>3, <1>5, <2>1, <2>2, TypesRead DEF SetupFetched
<1>6. ASSUME NEW m \in Id, ResponderDerives(t, m)
      PROVE  TypeInv'
  <2> DEFINE d == DeviceOf[t]
             handshake == reader[t][m].setup
             key == [by |-> handshake.by, identity |-> identity[d],
                     preKey |-> preKey[d], ephemeral |-> handshake.ephemeral]
  <2>1. Rest
    BY <1>6 DEF ResponderDerives, TypeInv, TypeOK, history
  <2>2. CASE identity[d] # None /\ preKey[d] # None
    <3>1. Read(t, m, "saving", None, key)
      BY <1>6, <2>2 DEF ResponderDerives
    <3>2. handshake \in Handshake /\ identity[d] \in Pair /\ preKey[d] \in Pair
      BY <1>6, <2>2 DEF ResponderDerives, TypeInv, TypeOK, ReadKnown
    <3>3. key \in Key
      BY <3>2 DEF Key, Handshake
    <3> HIDE DEF key
    <3> QED
      BY <1>3, <2>1, <3>1, <3>3, TypesRead
  <2>3. CASE ~ (identity[d] # None /\ preKey[d] # None)
    <3>1. Read(t, m, "noKey", None, None)
      BY <1>6, <2>3 DEF ResponderDerives
    <3> QED
      BY <1>3, <2>1, <3>1, TypesRead
  <2> QED
    BY <2>2, <2>3
<1>7. ASSUME NEW m \in Id, ResponderSaved(t, m)
      PROVE  TypeInv'
  <2>1. Rest
    <3>1. reader[t][m].key \in Key
      BY <1>7 DEF ResponderSaved, TypeInv, ReadKnown
    <3> QED
      BY <1>7, <3>1 DEF ResponderSaved, TypeInv, TypeOK, history
  <2>2. Opened(m, reader[t][m].key) \in {"text", "wrongKey"}
    BY DEF Opened
  <2> QED
    BY <1>3, <1>7, <2>1, <2>2, TypesRead DEF ResponderSaved
<1>8. ASSUME NEW m \in Id, FetchFails(t, m)
      PROVE  TypeInv'
  <2>1. Rest
    BY <1>8, FaultTyped DEF FetchFails, TypeInv, TypeOK
  <2> QED
    BY <1>3, <1>8, <2>1, TypesRead DEF FetchFails
<1> QED
  BY <1>4, <1>5, <1>6, <1>7, <1>8 DEF Receive

LEMMA TypesReload ==
    ASSUME TypeInv, NEW t \in Tab, Reload(t)
    PROVE  TypeInv'
<1> USE DirectSessionsAssumption
<1>0. PICK cached \in SUBSET {m \in Id : reader[t][m].stage = "text"} :
          reader' = [reader EXCEPT ![t] =
                        [m \in Id |-> IF m \in cached THEN @[m] ELSE NoRead]]
  BY DEF Reload
<1> DEFINE kept == [m \in Id |-> IF m \in cached THEN reader[t][m] ELSE NoRead]
<1>1. kept \in [Id -> [stage : {"idle", "setup", "deriving", "saving", "text",
                                "wrongKey", "noKey"},
                       setup : Handshake \cup {None}, key : Key \cup {None}]]
  <2>1. NoRead \in [stage : {"idle", "setup", "deriving", "saving", "text",
                             "wrongKey", "noKey"},
                    setup : Handshake \cup {None}, key : Key \cup {None}]
    BY DEF NoRead
  <2>2. reader[t] \in [Id -> [stage : {"idle", "setup", "deriving", "saving", "text",
                                      "wrongKey", "noKey"},
                              setup : Handshake \cup {None}, key : Key \cup {None}]]
    BY DEF TypeInv, TypeOK
  <2> HIDE DEF NoRead
  <2> QED
    BY <2>1, <2>2
<1>2. reader' = [reader EXCEPT ![t] = kept]
  BY <1>0
<1>3. TypeOK'
  <2>1. /\ UNCHANGED <<server, keys, session, generated, setups, initiators>>
        /\ received' = [received EXCEPT ![t] = 0]
        /\ Fault
    BY DEF Reload
  <2>2. Boot(t, "start", None) /\ Send(t, "idle", None, None)
    BY DEF Reload, NoBoot, NoSend, Boot, Send
  <2>3. reader' \in [Tab -> [Id -> [stage : {"idle", "setup", "deriving", "saving",
                         "text", "wrongKey", "noKey"},
                         setup : Handshake \cup {None}, key : Key \cup {None}]]]
    <3> HIDE DEF kept
    <3> QED
      BY <1>1, <1>2 DEF TypeInv, TypeOK
  <2>4. boot' \in [Tab -> [stage : {"start", "uploading", "uploaded", "saving", "over"},
                           pair : Pair \cup {None}]]
    BY <2>2, TypesBoot DEF Stages
  <2>5. send' \in [Tab -> [stage : {"idle", "bundles", "deriving", "setup", "saving",
                                    "posting"},
                           pair : Pair \cup {None}, key : Key \cup {None}]]
    BY <2>2, TypesSend
  <2>6. faults' \in 0 .. MaxFaults
    BY <2>1, FaultTyped
  <2>7. received' \in [Tab -> 0 .. MaxMessages]
    <3>1. received \in [Tab -> 0 .. MaxMessages]
      BY DEF TypeInv, TypeOK
    <3> QED
      BY <2>1, <3>1
  <2>8. /\ UNCHANGED <<bundle, setup, log, identity, preKey>>
        /\ UNCHANGED <<session, generated, setups, initiators>>
    BY <2>1 DEF server, keys
  <2> QED
    BY <2>3, <2>4, <2>5, <2>6, <2>7, <2>8 DEF TypeInv, TypeOK
<1>4. SendKnown'
  BY DEF Reload, TypeInv, TypeOK, SendKnown, NoSend
<1>5. ReadKnown'
  BY DEF Reload, TypeInv, TypeOK, ReadKnown, NoRead
<1> QED
  BY <1>3, <1>4, <1>5 DEF TypeInv

LEMMA TypesStep ==
    ASSUME TypeInv, [Next]_vars
    PROVE  TypeInv'
<1>1. CASE SetupExpires
  BY <1>1 DEF SetupExpires, TypeInv, TypeOK, SendKnown, ReadKnown, keys, client, history
<1>2. CASE UNCHANGED vars
  BY <1>2 DEF vars, server, keys, client, history, TypeInv, TypeOK, SendKnown, ReadKnown
<1> QED
  BY <1>1, <1>2, TypesBootstrap, TypesWrite, TypesReceive, TypesReload DEF Next

\* Every stage of publishing, of a handshake and of decrypting has what its next step
\* works with: no device seals or opens a message with half a key.
THEOREM DirectSessionsTypeInvariant == Spec => []TypeOK
<1>1. TypeInv => TypeOK
  BY DEF TypeInv
<1> QED
  BY <1>1, TypesInit, TypesStep, PTL DEF Spec

-----------------------------------------------------------------------------
(***************************************************************************)
(* The handshake of the channel.  Whatever is read or written with a       *)
(* session key goes back to an initiator that has saved its own, so that a *)
(* device which still looks for a key once there are messages is not the   *)
(* initiator's.                                                            *)
(***************************************************************************)

Handshaking(t) == send[t].stage \in {"bundles", "deriving", "setup", "saving"}

Establishing(t, m) == reader[t][m].stage \in {"setup", "deriving", "saving"}

HandshakeOf(key) == [by |-> key.by, ephemeral |-> key.ephemeral]

\* An initiator that has its session.
Established(v) == v \in initiators /\ session[DeviceOf[v]] # None

InitiatorKnown ==
    /\ IsFiniteSet(initiators)
    /\ \A t \in Tab : send[t].stage = "saving" => t \in initiators

Rooted ==
    \/ log # <<>>
    \/ \E d \in Device : session[d] # None
    \/ \E t \in Tab : send[t].stage = "posting"
    => \E v \in Tab : Established(v)

\* Who looks for a key among the messages is not the one who made it.
ReadersElsewhere ==
    \A t \in Tab, m \in Id :
        Establishing(t, m) =>
            \E v \in Tab : Established(v) /\ DeviceOf[v] # DeviceOf[t]

\* Who shakes hands although its device has a session by now is not alone.
LateHandshake ==
    \A t \in Tab :
        Handshaking(t) /\ session[DeviceOf[t]] # None =>
            \E v \in initiators : v # t

HandshakeKnown ==
    \A t \in Tab :
        initiators = {t} /\ setup # None =>
            /\ session[DeviceOf[t]] # None => setup = HandshakeOf(session[DeviceOf[t]])
            /\ send[t].stage = "saving" => setup = HandshakeOf(send[t].key)

HandshakeInv ==
    /\ InitiatorKnown
    /\ Rooted
    /\ ReadersElsewhere
    /\ LateHandshake
    /\ HandshakeKnown

LEMMA SoleInitiator ==
    ASSUME IsFiniteSet(initiators), ~ Contested, NEW t \in initiators
    PROVE  initiators = {t}
<1> DEFINE rest == initiators \ {t}
<1>1. IsFiniteSet(rest) /\ Cardinality(rest) = Cardinality(initiators) - 1
  BY FS_RemoveElement
<1>2. Cardinality(initiators) \in Nat /\ Cardinality(rest) \in Nat
  BY <1>1, FS_CardinalityType
<1>3. Cardinality(initiators) <= 1
  BY <1>2 DEF Contested
<1>4. Cardinality(rest) = 0
  BY <1>1, <1>2, <1>3
<1>5. rest = {}
  BY <1>1, <1>4, FS_EmptySet
<1> QED
  BY <1>5

LEMMA SendAt ==
    ASSUME TypeInv, NEW t \in Tab, NEW stage, NEW pair, NEW key,
           Send(t, stage, pair, key)
    PROVE  /\ send'[t].stage = stage /\ send'[t].pair = pair /\ send'[t].key = key
           /\ \A u \in Tab : u # t => send'[u] = send[u]
BY DEF TypeInv, TypeOK, Send

LEMMA ReadAt ==
    ASSUME TypeInv, NEW t \in Tab, NEW m \in Id, NEW stage, NEW handshake, NEW key,
           Read(t, m, stage, handshake, key)
    PROVE  /\ reader'[t][m].stage = stage
           /\ reader'[t][m].setup = handshake /\ reader'[t][m].key = key
           /\ \A u \in Tab, i \in Id : u # t \/ i # m => reader'[u][i] = reader[u][i]
BY DEF TypeInv, TypeOK, Read

LEMMA SessionAt ==
    ASSUME TypeInv, NEW d \in Device, NEW key,
           session' = [session EXCEPT ![d] = key]
    PROVE  /\ session'[d] = key
           /\ \A e \in Device : e # d => session'[e] = session[e]
BY DEF TypeInv, TypeOK

LEMMA LogAt ==
    ASSUME TypeInv, NEW i \in 1 .. Len(log)
    PROVE  log[i].from \in Device
<1>1. log \in Seq(Message)
  BY DEF TypeInv, TypeOK
<1>2. log[i] \in Message
  BY <1>1
<1> QED
  BY <1>2 DEF Message

LEMMA HandshakeInit == Init => HandshakeInv
<1> SUFFICES ASSUME Init
             PROVE  HandshakeInv
  OBVIOUS
<1>1. IsFiniteSet(initiators)
  BY FS_EmptySet DEF Init
<1>2. InitiatorKnown
  BY <1>1 DEF Init, InitiatorKnown, NoSend
<1>3. Rooted /\ LateHandshake /\ HandshakeKnown
  BY DEF Init, Rooted, LateHandshake, HandshakeKnown, Handshaking, NoSend
<1>4. ReadersElsewhere
  BY DEF Init, ReadersElsewhere, Establishing, NoRead
<1> QED
  BY <1>2, <1>3, <1>4 DEF HandshakeInv

\* Steps that leave the handshake and the sessions alone.
LEMMA HandshakeKept ==
    ASSUME HandshakeInv, UNCHANGED <<setup, log, session, send, reader, initiators>>
    PROVE  HandshakeInv'
BY DEF HandshakeInv, InitiatorKnown, Rooted, ReadersElsewhere, LateHandshake,
       HandshakeKnown, Established, Establishing, Handshaking

\* A step of sending before the handshake is stored, or after the key is.
LEMMA HandshakeSend ==
    ASSUME TypeInv, HandshakeInv, NEW t \in Tab, NEW stage, NEW pair, NEW key,
           Send(t, stage, pair, key),
           UNCHANGED <<setup, log, session, reader, initiators>>,
           stage \in {"idle", "bundles", "deriving", "setup", "posting"},
           stage \in {"bundles", "deriving", "setup"} =>
               Handshaking(t) \/ session[DeviceOf[t]] = None,
           stage = "posting" => session[DeviceOf[t]] # None
    PROVE  HandshakeInv'
<1> USE DirectSessionsAssumption
<1>1. /\ send'[t].stage = stage
      /\ \A u \in Tab : u # t => send'[u] = send[u]
  BY SendAt
<1>2. InitiatorKnown'
  BY <1>1 DEF HandshakeInv, InitiatorKnown
<1>3. Rooted'
  BY <1>1 DEF HandshakeInv, Rooted, Established
<1>4. ReadersElsewhere'
  BY DEF HandshakeInv, ReadersElsewhere, Established, Establishing
<1>5. LateHandshake'
  BY <1>1 DEF HandshakeInv, LateHandshake, Handshaking
<1>6. HandshakeKnown'
  BY <1>1 DEF HandshakeInv, HandshakeKnown
<1> QED
  BY <1>2, <1>3, <1>4, <1>5, <1>6 DEF HandshakeInv

LEMMA HandshakeStored ==
    ASSUME TypeInv, HandshakeInv, NEW t \in Tab, SetupStored(t)
    PROVE  HandshakeInv'
<1> USE DirectSessionsAssumption
<1>1. /\ send'[t].stage = "saving" /\ send'[t].key = send[t].key
      /\ \A u \in Tab : u # t => send'[u] = send[u]
  BY SendAt DEF SetupStored
<1>2. /\ UNCHANGED <<log, session, reader>>
      /\ send[t].stage = "setup"
      /\ initiators' = initiators \cup {t}
      /\ setup' = HandshakeOf(send[t].key)
  BY DEF SetupStored, HandshakeOf
<1>3. InitiatorKnown'
  BY <1>1, <1>2, FS_AddElement DEF HandshakeInv, InitiatorKnown
<1>4. Rooted'
  BY <1>1, <1>2 DEF HandshakeInv, Rooted, Established
<1>5. ReadersElsewhere'
  BY <1>2 DEF HandshakeInv, ReadersElsewhere, Established, Establishing
<1>6. LateHandshake'
  BY <1>1, <1>2 DEF HandshakeInv, LateHandshake, Handshaking
<1>7. HandshakeKnown'
  <2> SUFFICES ASSUME NEW u \in Tab, initiators' = {u}
               PROVE  /\ session[DeviceOf[u]] = None
                      /\ send'[u].stage = "saving" => setup' = HandshakeOf(send'[u].key)
    BY <1>2 DEF HandshakeKnown
  <2>1. u = t
    BY <1>2
  <2>2. session[DeviceOf[t]] = None
    BY <1>2, <2>1 DEF HandshakeInv, LateHandshake, Handshaking
  <2> QED
    BY <1>1, <1>2, <2>1, <2>2
<1> QED
  BY <1>3, <1>4, <1>5, <1>6, <1>7 DEF HandshakeInv

LEMMA HandshakeSaved ==
    ASSUME TypeInv, HandshakeInv, NEW t \in Tab, SessionSaved(t)
    PROVE  HandshakeInv'
<1> USE DirectSessionsAssumption
<1>1. /\ send'[t].stage = "posting" /\ send'[t].key = send[t].key
      /\ \A u \in Tab : u # t => send'[u] = send[u]
  BY SendAt DEF SessionSaved
<1>2. /\ UNCHANGED <<setup, log, reader, initiators>>
      /\ send[t].stage = "saving"
  BY DEF SessionSaved, server, history
<1>3. send[t].key # None
  BY <1>2, NoneAssumption DEF TypeInv, SendKnown
<1>4. /\ session'[DeviceOf[t]] = send[t].key
      /\ \A d \in Device : d # DeviceOf[t] => session'[d] = session[d]
  BY SessionAt DEF SessionSaved
<1>5. t \in initiators
  BY <1>2 DEF HandshakeInv, InitiatorKnown
<1>6. InitiatorKnown'
  BY <1>1, <1>2 DEF HandshakeInv, InitiatorKnown
<1>7. Rooted'
  BY <1>2, <1>3, <1>4, <1>5 DEF Rooted, Established
<1>8. ReadersElsewhere'
  BY <1>2, <1>3, <1>4 DEF HandshakeInv, ReadersElsewhere, Established, Establishing
<1>9. LateHandshake'
  <2> SUFFICES ASSUME NEW u \in Tab, Handshaking(u)', session'[DeviceOf[u]] # None
               PROVE  \E v \in initiators : v # u
    BY <1>2 DEF LateHandshake
  <2>1. u # t /\ Handshaking(u)
    BY <1>1 DEF Handshaking
  <2> QED
    BY <1>5, <2>1
<1>10. HandshakeKnown'
  <2> SUFFICES ASSUME NEW u \in Tab, initiators = {u}, setup # None
               PROVE  /\ session'[DeviceOf[u]] # None =>
                             setup = HandshakeOf(session'[DeviceOf[u]])
                      /\ send'[u].stage = "saving" => setup = HandshakeOf(send'[u].key)
    BY <1>2 DEF HandshakeKnown
  <2>1. u = t
    BY <1>5
  <2> QED
    BY <1>1, <1>2, <1>4, <2>1 DEF HandshakeInv, HandshakeKnown
<1> QED
  BY <1>6, <1>7, <1>8, <1>9, <1>10 DEF HandshakeInv

LEMMA HandshakePosted ==
    ASSUME TypeInv, HandshakeInv, NEW t \in Tab, MessagePosted(t)
    PROVE  HandshakeInv'
<1> USE DirectSessionsAssumption
<1>1. /\ send'[t].stage = "idle"
      /\ \A u \in Tab : u # t => send'[u] = send[u]
  BY SendAt DEF MessagePosted, NoSend, Send
<1>2. /\ UNCHANGED <<setup, session, reader, initiators>>
      /\ send[t].stage = "posting"
  BY DEF MessagePosted, history
<1>3. InitiatorKnown' /\ HandshakeKnown'
  BY <1>1, <1>2 DEF HandshakeInv, InitiatorKnown, HandshakeKnown
<1>4. Rooted'
  BY <1>1, <1>2 DEF HandshakeInv, Rooted, Established
<1>5. ReadersElsewhere'
  BY <1>2 DEF HandshakeInv, ReadersElsewhere, Established, Establishing
<1>6. LateHandshake'
  BY <1>1, <1>2 DEF HandshakeInv, LateHandshake, Handshaking
<1> QED
  BY <1>3, <1>4, <1>5, <1>6 DEF HandshakeInv

LEMMA HandshakeWrite ==
    ASSUME TypeInv, HandshakeInv, NEW t \in Tab, Write(t)
    PROVE  HandshakeInv'
<1>1. CASE SendBegins(t)
  <2> DEFINE key == session[DeviceOf[t]]
             stage == IF key = None THEN "bundles" ELSE "posting"
  <2>1. Send(t, stage, None, key)
    BY <1>1 DEF SendBegins
  <2>2. UNCHANGED <<setup, log, session, reader, initiators>>
    BY <1>1 DEF SendBegins, server, history
  <2>3. /\ stage \in {"bundles", "posting"}
        /\ stage = "bundles" => key = None
        /\ stage = "posting" => key # None
    OBVIOUS
  <2> HIDE DEF stage
  <2> QED
    BY <2>1, <2>2, <2>3, HandshakeSend
<1>2. CASE BundlesFetched(t)
  <2>1. /\ UNCHANGED <<setup, log, session, reader, initiators>>
        /\ send[t].stage = "bundles"
        /\ \/ \E d \in Recipients(t) : Send(t, "deriving", bundle[d], None)
           \/ Send(t, "idle", None, None)
    BY <1>2 DEF BundlesFetched, server, history, NoSend, Send
  <2> QED
    BY <2>1, HandshakeSend DEF Handshaking
<1>3. CASE InitiatorDerives(t)
  <2>1. /\ UNCHANGED <<setup, log, session, reader, initiators>>
        /\ send[t].stage = "deriving"
        /\ \/ \E key : Send(t, "setup", None, key)
           \/ Send(t, "idle", None, None)
    BY <1>3 DEF InitiatorDerives, server, history, NoSend, Send
  <2> QED
    BY <2>1, HandshakeSend DEF Handshaking
<1>4. CASE SendFails(t)
  <2>1. /\ UNCHANGED <<setup, log, session, reader, initiators>>
        /\ Send(t, "idle", None, None)
    BY <1>4 DEF SendFails, server, NoSend, Send
  <2> QED
    BY <2>1, HandshakeSend
<1> QED
  BY <1>1, <1>2, <1>3, <1>4, HandshakeStored, HandshakeSaved, HandshakePosted DEF Write

\* A step of decrypting that saves no key.
LEMMA HandshakeRead ==
    ASSUME TypeInv, HandshakeInv, NEW t \in Tab, NEW m \in Id,
           NEW stage, NEW handshake, NEW key,
           Read(t, m, stage, handshake, key),
           UNCHANGED <<setup, log, session, send, initiators>>,
           stage \in {"setup", "deriving", "saving"} =>
               \E v \in Tab : Established(v) /\ DeviceOf[v] # DeviceOf[t]
    PROVE  HandshakeInv'
<1>1. /\ reader'[t][m].stage = stage
      /\ \A u \in Tab, i \in Id : u # t \/ i # m => reader'[u][i] = reader[u][i]
  BY ReadAt
<1>2. ReadersElsewhere'
  BY <1>1 DEF HandshakeInv, ReadersElsewhere, Established, Establishing
<1> QED
  BY <1>2 DEF HandshakeInv, InitiatorKnown, Rooted, LateHandshake, HandshakeKnown,
              Established, Handshaking

\* The initiators of the session that a device makes of the handshake are others.
LEMMA HandshakeMirrored ==
    ASSUME TypeInv, HandshakeInv, NEW t \in Tab, NEW m \in Id, ResponderSaved(t, m)
    PROVE  HandshakeInv'
<1> USE DirectSessionsAssumption
<1>1. /\ UNCHANGED <<setup, log, send, initiators>>
      /\ reader[t][m].stage = "saving"
  BY DEF ResponderSaved, server, history
<1>2. PICK v \in Tab : Established(v) /\ DeviceOf[v] # DeviceOf[t]
  BY <1>1 DEF HandshakeInv, ReadersElsewhere, Establishing
<1>3. reader[t][m].key # None
  BY <1>1, NoneAssumption DEF TypeInv, ReadKnown
<1>4. /\ session'[DeviceOf[t]] = reader[t][m].key
      /\ \A d \in Device : d # DeviceOf[t] => session'[d] = session[d]
  BY SessionAt DEF ResponderSaved
<1>5. /\ reader'[t][m].stage \in {"text", "wrongKey"}
      /\ \A u \in Tab, i \in Id : u # t \/ i # m => reader'[u][i] = reader[u][i]
  <2>1. PICK stage \in {"text", "wrongKey"} : Read(t, m, stage, None, None)
    BY DEF ResponderSaved, Opened
  <2> QED
    BY <2>1, ReadAt
<1>6. \A w \in Tab : Established(w) => Established(w)'
  BY <1>1, <1>3, <1>4 DEF Established
<1>7. InitiatorKnown'
  BY <1>1 DEF HandshakeInv, InitiatorKnown
<1>8. Rooted'
  BY <1>2, <1>6 DEF Rooted
<1>9. ReadersElsewhere'
  <2> SUFFICES ASSUME NEW u \in Tab, NEW i \in Id, Establishing(u, i)'
               PROVE  \E w \in Tab : Established(w)' /\ DeviceOf[w] # DeviceOf[u]
    BY DEF ReadersElsewhere
  <2>1. reader'[u][i] = reader[u][i]
    BY <1>5 DEF Establishing
  <2>2. Establishing(u, i)
    BY <2>1 DEF Establishing
  <2> QED
    BY <1>6, <2>2 DEF HandshakeInv, ReadersElsewhere
<1>10. LateHandshake'
  <2> SUFFICES ASSUME NEW u \in Tab, Handshaking(u), session'[DeviceOf[u]] # None
               PROVE  \E w \in initiators : w # u
    BY <1>1 DEF LateHandshake, Handshaking
  <2>1. CASE DeviceOf[u] = DeviceOf[t]
    BY <1>2, <2>1 DEF Established
  <2>2. CASE DeviceOf[u] # DeviceOf[t]
    BY <1>4, <2>2 DEF HandshakeInv, LateHandshake
  <2> QED
    BY <2>1, <2>2
<1>11. HandshakeKnown'
  <2> SUFFICES ASSUME NEW u \in Tab, initiators = {u}, setup # None
               PROVE  /\ session'[DeviceOf[u]] # None =>
                             setup = HandshakeOf(session'[DeviceOf[u]])
                      /\ send[u].stage = "saving" => setup = HandshakeOf(send[u].key)
    BY <1>1 DEF HandshakeKnown
  <2>1. DeviceOf[u] # DeviceOf[t]
    BY <1>2 DEF Established
  <2> QED
    BY <1>4, <2>1 DEF HandshakeInv, HandshakeKnown
<1> QED
  BY <1>7, <1>8, <1>9, <1>10, <1>11 DEF HandshakeInv

LEMMA HandshakeReceive ==
    ASSUME TypeInv, HandshakeInv, NEW t \in Tab, Receive(t)
    PROVE  HandshakeInv'
<1> USE DirectSessionsAssumption
<1>1. CASE Received(t)
  <2> DEFINE m == received[t] + 1
             key == session[DeviceOf[t]]
             stage == IF key = None THEN "setup" ELSE Opened(m, key)
  <2>1. /\ UNCHANGED <<setup, log, session, send, initiators>>
        /\ m <= Len(log)
        /\ UNCHANGED reader \/ Read(t, m, stage, None, None)
    BY <1>1 DEF Received, server, history
  <2>2. /\ received[t] \in 0 .. MaxMessages
        /\ Len(log) <= MaxMessages
        /\ log \in Seq(Message)
    BY DEF TypeInv, TypeOK
  <2>3. m \in Id /\ log # <<>>
    BY <2>1, <2>2 DEF Id
  <2>4. PICK v \in Tab : Established(v)
    BY <2>3 DEF HandshakeInv, Rooted
  <2>5. CASE UNCHANGED reader
    BY <2>1, <2>5, HandshakeKept
  <2>6. CASE Read(t, m, stage, None, None)
    <3>1. stage = "setup" => DeviceOf[v] # DeviceOf[t]
      BY <2>4 DEF Established, Opened
    <3>2. stage \in {"setup", "text", "wrongKey"}
      BY DEF Opened
    <3> HIDE DEF m, stage
    <3> QED
      BY <2>1, <2>3, <2>4, <2>6, <3>1, <3>2, HandshakeRead
  <2> QED
    BY <2>1, <2>5, <2>6
<1>2. ASSUME NEW m \in Id, SetupFetched(t, m)
      PROVE  HandshakeInv'
  <2>1. /\ UNCHANGED <<setup, log, session, send, initiators>>
        /\ Establishing(t, m)
        /\ \E stage, handshake : Read(t, m, stage, handshake, None)
    BY <1>2 DEF SetupFetched, Establishing, server, history
  <2> QED
    BY <2>1, HandshakeRead DEF HandshakeInv, ReadersElsewhere
<1>3. ASSUME NEW m \in Id, ResponderDerives(t, m)
      PROVE  HandshakeInv'
  <2>1. /\ UNCHANGED <<setup, log, session, send, initiators>>
        /\ Establishing(t, m)
        /\ \E stage, key : Read(t, m, stage, None, key)
    BY <1>3 DEF ResponderDerives, Establishing, server, history
  <2> QED
    BY <2>1, HandshakeRead DEF HandshakeInv, ReadersElsewhere
<1>4. ASSUME NEW m \in Id, FetchFails(t, m)
      PROVE  HandshakeInv'
  <2>1. /\ UNCHANGED <<setup, log, session, send, initiators>>
        /\ Read(t, m, "noKey", None, None)
    BY <1>4 DEF FetchFails, server
  <2> QED
    BY <2>1, HandshakeRead
<1> QED
  BY <1>1, <1>2, <1>3, <1>4, HandshakeMirrored DEF Receive

\* What is left of a tab that is loaded anew.
LEMMA ReloadAt ==
    ASSUME TypeInv, NEW t \in Tab, Reload(t)
    PROVE  /\ UNCHANGED <<setup, log, session, initiators>>
           /\ send'[t].stage = "idle"
           /\ \A u \in Tab : u # t => send'[u] = send[u]
           /\ \A m \in Id : \/ reader'[t][m].stage = "idle"
                            \/ reader[t][m].stage = "text" /\ reader'[t][m] = reader[t][m]
           /\ \A u \in Tab : u # t => reader'[u] = reader[u]
BY DEF TypeInv, TypeOK, Reload, NoSend, NoRead, server

LEMMA HandshakeReload ==
    ASSUME TypeInv, HandshakeInv, NEW t \in Tab, Reload(t)
    PROVE  HandshakeInv'
<1>1. InitiatorKnown' /\ Rooted' /\ LateHandshake' /\ HandshakeKnown'
  BY ReloadAt DEF HandshakeInv, InitiatorKnown, Rooted, LateHandshake, HandshakeKnown,
                  Established, Handshaking
<1>2. ReadersElsewhere'
  BY ReloadAt DEF HandshakeInv, ReadersElsewhere, Established, Establishing
<1> QED
  BY <1>1, <1>2 DEF HandshakeInv

LEMMA HandshakeStep ==
    ASSUME TypeInv, HandshakeInv, [Next]_vars
    PROVE  HandshakeInv'
<1>1. ASSUME NEW t \in Tab, Bootstrap(t)
      PROVE  HandshakeInv'
  <2>1. UNCHANGED <<setup, log, session, send, reader, initiators>>
    BY <1>1 DEF Bootstrap, BootstrapBegins, BundleUploaded, IdentitySaved, PreKeySaved,
                UploadFails, server, history
  <2> QED
    BY <2>1, HandshakeKept
<1>2. CASE SetupExpires
  BY <1>2 DEF SetupExpires, client, history, HandshakeInv, InitiatorKnown, Rooted,
              ReadersElsewhere, LateHandshake, HandshakeKnown, Established,
              Establishing, Handshaking
<1>3. CASE UNCHANGED vars
  BY <1>3, HandshakeKept DEF vars, server, client, history
<1> QED
  BY <1>1, <1>2, <1>3, HandshakeWrite, HandshakeReceive, HandshakeReload DEF Next

\* As long as one tab alone began the session, the handshake at the server is that of
\* the session key its device uses, however often requests were lost and repeated and
\* pages loaded anew, and whatever the other tabs of the device do: what a device
\* derives from it later is the mirror of the key in use (establishDMSession).
THEOREM HandshakeAlwaysIsOfSession == Spec => []HandshakeIsOfSession
<1>1. ASSUME TypeInv, HandshakeInv
      PROVE  HandshakeIsOfSession
  <2> SUFFICES ASSUME NEW t \in initiators,
                      ~ Contested, setup # None, session[DeviceOf[t]] # None
               PROVE  setup = HandshakeOf(session[DeviceOf[t]])
    BY DEF HandshakeIsOfSession, HandshakeOf
  <2>1. initiators = {t} /\ t \in Tab
    BY <1>1, SoleInitiator DEF HandshakeInv, InitiatorKnown, TypeInv, TypeOK
  <2> QED
    BY <1>1, <2>1 DEF HandshakeInv, HandshakeKnown
<1> QED
  BY <1>1, TypesInit, TypesStep, HandshakeInit, HandshakeStep, PTL DEF Spec

-----------------------------------------------------------------------------
(***************************************************************************)
(* The key a message is read with.                                         *)
(***************************************************************************)

Holds(d, p) ==
    \/ bundle[d] = p
    \/ identity[d] = p
    \/ \E t \in Tab : DeviceOf[t] = d /\ boot[t].pair = p

\* Keys of another device, which this one will never have.
Foreign(d, p) == p \in generated /\ ~ Holds(d, p)

PairsOwned ==
    \A p \in Pair : \A d \in Device :
        Holds(d, p) => p \in generated /\ \A e \in Device : Holds(e, p) => e = d

Kept(d) == identity[d] # None /\ preKey[d] # None

\* What device d makes of the handshake of that key.
Mirror(key, d) ==
    [by |-> key.by, identity |-> identity[d], preKey |-> preKey[d],
     ephemeral |-> key.ephemeral]

ForeignKnown ==
    \A t \in Tab :
        LET key == session[DeviceOf[t]]
        IN /\ send[t].stage = "deriving" => Foreign(DeviceOf[t], send[t].pair)
           /\ send[t].stage \in {"setup", "saving"} =>
                  Foreign(DeviceOf[t], send[t].key.identity)
           /\ initiators = {t} /\ key # None => Foreign(DeviceOf[t], key.identity)

\* Every other session is the mirror image of the only initiator's.
Mirrored ==
    \A t \in Tab :
        LET key == session[DeviceOf[t]]
        IN initiators = {t} /\ key # None =>
               /\ \A d \in Device :
                     d # DeviceOf[t] /\ session[d] # None =>
                         Kept(d) /\ session[d] = Mirror(key, d)
               /\ \A u \in Tab, m \in Id :
                     /\ reader[u][m].stage = "deriving" =>
                            reader[u][m].setup = HandshakeOf(key)
                     /\ reader[u][m].stage = "saving" =>
                            /\ Kept(DeviceOf[u])
                            /\ reader[u][m].key = Mirror(key, DeviceOf[u])

\* Messages are sealed with the session key of the device they are from.
Sealed ==
    \A t \in Tab :
        initiators = {t} =>
            /\ \A i \in 1 .. Len(log) :
                  /\ session[log[i].from] # None
                  /\ log[i].key = session[log[i].from]
            /\ \A u \in Tab :
                  send[u].stage = "posting" =>
                      /\ session[DeviceOf[u]] # None
                      /\ send[u].key = session[DeviceOf[u]]

ReadIsLogged ==
    \A t \in Tab, m \in Id : reader[t][m].stage # "idle" => m \in 1 .. Len(log)

WrongKnown ==
    \A t \in Tab :
        initiators = {t} =>
            \A u \in Tab, m \in Id :
                reader[u][m].stage = "wrongKey" =>
                    /\ session[DeviceOf[u]] # None
                    /\ session[DeviceOf[u]] # log[m].key

WrongKeyInv ==
    /\ PairsOwned
    /\ ForeignKnown
    /\ Mirrored
    /\ Sealed
    /\ ReadIsLogged
    /\ WrongKnown

\* No step makes a device hold another's keys, or change the keys it has kept.
KeysStay ==
    \A d \in Device :
        /\ \A p : Foreign(d, p) => Foreign(d, p)'
        /\ Kept(d) => identity'[d] = identity[d] /\ preKey'[d] = preKey[d]

LEMMA BootAt ==
    ASSUME TypeInv, NEW t \in Tab, NEW stage, NEW pair, Boot(t, stage, pair)
    PROVE  /\ boot'[t].pair = pair
           /\ \A u \in Tab : u # t => boot'[u] = boot[u]
BY DEF TypeInv, TypeOK, Boot

\* Keys begin as new ones of the device of the tab that generates them ...
LEMMA NewPair ==
    ASSUME TypeInv, PairsOwned, NEW t \in Tab, NEW pair \in Pair \ generated,
           boot'[t].pair = pair,
           \A u \in Tab : u # t => boot'[u] = boot[u],
           UNCHANGED <<bundle, identity>>,
           generated' = generated \cup {pair}
    PROVE  /\ \A d \in Device : \A p : Foreign(d, p) => Foreign(d, p)'
           /\ PairsOwned'
<1>1. \A d \in Device : ~ Holds(d, pair)
  BY DEF PairsOwned
<1>2. \A d \in Device : \A p : Holds(d, p)' /\ p # pair => Holds(d, p)
  BY DEF Holds
<1>3. \A d \in Device : Holds(d, pair)' => d = DeviceOf[t]
  BY <1>1 DEF Holds
<1>4. \A d \in Device : \A p : Foreign(d, p) => p # pair /\ p \in generated'
  BY DEF Foreign
<1>5. \A d \in Device : \A p : Foreign(d, p) => Foreign(d, p)'
  BY <1>2, <1>4 DEF Foreign
<1>6. PairsOwned'
  BY <1>2, <1>3 DEF PairsOwned
<1> QED
  BY <1>5, <1>6

\* ... and stay with it.
LEMMA PairsStay ==
    ASSUME PairsOwned, UNCHANGED generated,
           \A d \in Device, p \in Pair : Holds(d, p)' => Holds(d, p)
    PROVE  /\ \A d \in Device, p \in Pair : Foreign(d, p) => Foreign(d, p)'
           /\ PairsOwned'
<1>1. PairsOwned'
  BY DEF PairsOwned
<1> QED
  BY <1>1 DEF Foreign

LEMMA KeysStep ==
    ASSUME TypeInv, PublishedInv, PairsOwned, [Next]_vars
    PROVE  KeysStay /\ PairsOwned'
<1> USE DirectSessionsAssumption
<1>1. ASSUME \A d \in Device, p \in Pair : Foreign(d, p) => Foreign(d, p)'
      PROVE  \A d \in Device : \A p : Foreign(d, p) => Foreign(d, p)'
  BY <1>1 DEF Foreign, TypeInv, TypeOK
<1>2. ASSUME UNCHANGED <<identity, preKey, generated>>,
             \A d \in Device, p \in Pair : Holds(d, p)' => Holds(d, p)
      PROVE  KeysStay /\ PairsOwned'
  BY <1>1, <1>2, PairsStay DEF KeysStay
<1>3. ASSUME UNCHANGED <<bundle, identity, preKey, boot, generated>>
      PROVE  KeysStay /\ PairsOwned'
  BY <1>2, <1>3 DEF Holds
<1>4. ASSUME NEW t \in Tab, BootstrapBegins(t)
      PROVE  KeysStay /\ PairsOwned'
  <2>1. UNCHANGED <<bundle, identity, preKey>>
    BY <1>4 DEF BootstrapBegins, server, keys
  <2>2. CASE Boot(t, "over", None) /\ UNCHANGED generated
    BY <1>2, <2>1, <2>2, BootAt DEF Holds
  <2>3. ASSUME NEW pair \in Pair \ generated, Boot(t, "uploading", pair),
               generated' = generated \cup {pair}
        PROVE  KeysStay /\ PairsOwned'
    BY <2>1, <2>3, BootAt, NewPair DEF KeysStay
  <2> QED
    BY <1>4, <2>2, <2>3 DEF BootstrapBegins
<1>5. ASSUME NEW t \in Tab, BundleUploaded(t)
      PROVE  KeysStay /\ PairsOwned'
  <2>1. UNCHANGED <<identity, preKey, generated>>
    BY <1>5 DEF BundleUploaded, keys, history
  <2>2. /\ bundle'[DeviceOf[t]] = boot[t].pair
        /\ \A d \in Device : d # DeviceOf[t] => bundle'[d] = bundle[d]
    BY <1>5 DEF BundleUploaded, TypeInv, TypeOK
  <2>3. \A u \in Tab : boot'[u].pair = boot[u].pair
    BY <1>5, BootAt DEF BundleUploaded
  <2> QED
    BY <1>2, <2>1, <2>2, <2>3 DEF Holds
<1>6. ASSUME NEW t \in Tab, IdentitySaved(t)
      PROVE  KeysStay /\ PairsOwned'
  <2>1. /\ UNCHANGED <<bundle, preKey, generated>>
        /\ identity[DeviceOf[t]] = None
    BY <1>6 DEF IdentitySaved, server, history, PublishedInv, BootstrapKnown
  <2>2. /\ identity'[DeviceOf[t]] = boot[t].pair
        /\ \A d \in Device : d # DeviceOf[t] => identity'[d] = identity[d]
    BY <1>6 DEF IdentitySaved, TypeInv, TypeOK
  <2>3. \A u \in Tab : boot'[u].pair = boot[u].pair
    BY <1>6, BootAt DEF IdentitySaved
  <2>4. \A d \in Device, p \in Pair : Holds(d, p)' => Holds(d, p)
    BY <2>1, <2>2, <2>3 DEF Holds
  <2>5. \A d \in Device : Kept(d) => identity'[d] = identity[d] /\ preKey'[d] = preKey[d]
    BY <2>1, <2>2 DEF Kept
  <2> QED
    BY <1>1, <2>1, <2>4, <2>5, PairsStay DEF KeysStay
<1>7. ASSUME NEW t \in Tab, PreKeySaved(t)
      PROVE  KeysStay /\ PairsOwned'
  <2>1. /\ UNCHANGED <<bundle, identity, generated>>
        /\ boot[t].pair = identity[DeviceOf[t]]
    BY <1>7 DEF PreKeySaved, server, history, PublishedInv, BootstrapKnown
  <2>2. /\ preKey'[DeviceOf[t]] = boot[t].pair
        /\ \A d \in Device : d # DeviceOf[t] => preKey'[d] = preKey[d]
    BY <1>7 DEF PreKeySaved, TypeInv, TypeOK
  <2>3. \A u \in Tab : boot'[u].pair \in {boot[u].pair, None}
    BY <1>7, BootAt DEF PreKeySaved
  <2>4. \A d \in Device, p \in Pair : Holds(d, p)' => Holds(d, p)
    BY <2>1, <2>3 DEF Holds
  <2>5. \A d \in Device : Kept(d) => identity'[d] = identity[d] /\ preKey'[d] = preKey[d]
    BY <2>1, <2>2 DEF Kept, PublishedInv, PublishedIsStored
  <2> QED
    BY <1>1, <2>1, <2>4, <2>5, PairsStay DEF KeysStay
<1>8. ASSUME NEW t \in Tab, UploadFails(t) \/ Reload(t)
      PROVE  KeysStay /\ PairsOwned'
  <2>1. /\ UNCHANGED <<bundle, identity, preKey, generated>>
        /\ \E stage : Boot(t, stage, None)
    BY <1>8 DEF UploadFails, Reload, NoBoot, Boot, server, keys
  <2> QED
    BY <1>2, <2>1, BootAt DEF Holds
<1>9. ASSUME NEW t \in Tab, Write(t) \/ Receive(t)
      PROVE  KeysStay /\ PairsOwned'
  <2>1. UNCHANGED <<bundle, keys, boot>>
    BY <1>9, WriteKeepsKeys, ReceiveKeepsKeys
  <2>2. UNCHANGED generated
    BY <1>9 DEF Write, SendBegins, BundlesFetched, InitiatorDerives, SetupStored,
                SessionSaved, MessagePosted, SendFails, Receive, Received,
                SetupFetched, ResponderDerives, ResponderSaved, FetchFails, history
  <2> QED
    BY <1>3, <2>1, <2>2 DEF keys
<1>10. CASE SetupExpires \/ UNCHANGED vars
  BY <1>3, <1>10 DEF SetupExpires, vars, server, keys, client, history
<1> QED
  BY <1>4, <1>5, <1>6, <1>7, <1>8, <1>9, <1>10 DEF Next, Bootstrap

LEMMA WrongKeyInit == Init => WrongKeyInv
<1> SUFFICES ASSUME Init
             PROVE  WrongKeyInv
  OBVIOUS
<1>1. PairsOwned
  BY DirectSessionsAssumption DEF Init, PairsOwned, Holds, NoBoot
<1>2. ForeignKnown /\ Mirrored /\ Sealed
  BY DirectSessionsAssumption DEF Init, ForeignKnown, Mirrored, Sealed, NoSend
<1>3. ReadIsLogged /\ WrongKnown
  BY DEF Init, ReadIsLogged, WrongKnown, NoRead
<1> QED
  BY <1>1, <1>2, <1>3 DEF WrongKeyInv

\* The keys that a key is compared with, or derived from, when keys stay.
LEMMA MirrorStays ==
    ASSUME KeysStay, NEW d \in Device, NEW key, Kept(d)
    PROVE  Kept(d)' /\ Mirror(key, d) = Mirror(key, d)'
BY DEF KeysStay, Kept, Mirror

\* The mirror images stay as long as nobody writes a session or reads a handshake.
LEMMA MirroredStays ==
    ASSUME KeysStay, Mirrored, UNCHANGED <<session, initiators>>,
           \A u \in Tab, m \in Id :
               reader'[u][m].stage \in {"deriving", "saving"} =>
                   reader'[u][m] = reader[u][m]
    PROVE  Mirrored'
<1> SUFFICES ASSUME NEW t \in Tab, initiators = {t}, NEW key,
                    key = session[DeviceOf[t]], key # None
             PROVE  /\ \A d \in Device :
                          d # DeviceOf[t] /\ session[d] # None =>
                              Kept(d)' /\ session[d] = Mirror(key, d)'
                    /\ \A u \in Tab, m \in Id :
                          /\ reader'[u][m].stage = "deriving" =>
                                 reader'[u][m].setup = HandshakeOf(key)
                          /\ reader'[u][m].stage = "saving" =>
                                 /\ Kept(DeviceOf[u])'
                                 /\ reader'[u][m].key = Mirror(key, DeviceOf[u])'
  BY DEF Mirrored, Mirror, HandshakeOf
<1>1. \A d \in Device : Kept(d) => Kept(d)' /\ Mirror(key, d) = Mirror(key, d)'
  BY MirrorStays
<1>2. /\ \A d \in Device :
            d # DeviceOf[t] /\ session[d] # None => Kept(d) /\ session[d] = Mirror(key, d)
      /\ \A u \in Tab, m \in Id :
            /\ reader[u][m].stage = "deriving" => reader[u][m].setup = HandshakeOf(key)
            /\ reader[u][m].stage = "saving" =>
                   Kept(DeviceOf[u]) /\ reader[u][m].key = Mirror(key, DeviceOf[u])
  BY DEF Mirrored
<1> QED
  BY <1>1, <1>2, DirectSessionsAssumption

LEMMA ForeignStays ==
    ASSUME KeysStay, NEW t \in Tab, NEW p, Foreign(DeviceOf[t], p)
    PROVE  Foreign(DeviceOf[t], p)'
BY DirectSessionsAssumption DEF KeysStay

LEMMA WrongKept ==
    ASSUME WrongKeyInv, KeysStay, PairsOwned',
           UNCHANGED <<session, send, reader, log, initiators>>
    PROVE  WrongKeyInv'
<1>1. ForeignKnown'
  <2> SUFFICES ASSUME NEW t \in Tab
               PROVE  LET key == session[DeviceOf[t]]
                      IN /\ send[t].stage = "deriving" =>
                                Foreign(DeviceOf[t], send[t].pair)'
                         /\ send[t].stage \in {"setup", "saving"} =>
                                Foreign(DeviceOf[t], send[t].key.identity)'
                         /\ initiators = {t} /\ key # None =>
                                Foreign(DeviceOf[t], key.identity)'
    BY DEF ForeignKnown, Foreign, Holds
  <2> QED
    BY ForeignStays DEF WrongKeyInv, ForeignKnown
<1>2. Mirrored'
  BY MirroredStays DEF WrongKeyInv
<1>3. Sealed' /\ ReadIsLogged' /\ WrongKnown'
  BY DEF WrongKeyInv, Sealed, ReadIsLogged, WrongKnown
<1> QED
  BY <1>1, <1>2, <1>3 DEF WrongKeyInv

\* A step of sending before the handshake is stored, or after the key is.
LEMMA WrongSend ==
    ASSUME TypeInv, WrongKeyInv, KeysStay, PairsOwned',
           UNCHANGED <<session, reader, log, initiators>>,
           NEW t \in Tab, NEW stage, NEW pair, NEW key,
           Send(t, stage, pair, key),
           stage \in {"idle", "bundles", "deriving", "setup", "posting"},
           stage = "deriving" => Foreign(DeviceOf[t], pair),
           stage = "setup" => Foreign(DeviceOf[t], key.identity),
           stage = "posting" => session[DeviceOf[t]] # None /\ key = session[DeviceOf[t]]
    PROVE  WrongKeyInv'
<1>1. /\ send'[t].stage = stage /\ send'[t].pair = pair /\ send'[t].key = key
      /\ \A u \in Tab : u # t => send'[u] = send[u]
  BY SendAt
<1>2. ForeignKnown'
  <2> SUFFICES ASSUME NEW u \in Tab, NEW p,
                      \/ send'[u].stage = "deriving" /\ p = send'[u].pair
                      \/ /\ send'[u].stage \in {"setup", "saving"}
                         /\ p = send'[u].key.identity
                      \/ /\ initiators = {u} /\ session[DeviceOf[u]] # None
                         /\ p = session[DeviceOf[u]].identity
               PROVE  Foreign(DeviceOf[u], p)'
    BY DEF ForeignKnown, Foreign, Holds
  <2>1. Foreign(DeviceOf[u], p)
    BY <1>1 DEF WrongKeyInv, ForeignKnown
  <2> QED
    BY <2>1, ForeignStays
<1>3. Mirrored'
  BY MirroredStays DEF WrongKeyInv
<1>4. Sealed'
  BY <1>1 DEF WrongKeyInv, Sealed
<1>5. ReadIsLogged' /\ WrongKnown'
  BY DEF WrongKeyInv, ReadIsLogged, WrongKnown
<1> QED
  BY <1>2, <1>3, <1>4, <1>5 DEF WrongKeyInv

\* As long as the only initiator has not saved its session, nothing is sealed or read.
LEMMA Unestablished ==
    ASSUME TypeInv, HandshakeInv, ReadIsLogged, NEW t \in Tab, initiators \subseteq {t},
           session[DeviceOf[t]] = None
    PROVE  /\ log = <<>>
           /\ \A d \in Device : session[d] = None
           /\ \A u \in Tab : send[u].stage # "posting"
           /\ \A u \in Tab, m \in Id : reader[u][m].stage = "idle"
<1>1. ~ \E v \in Tab : Established(v)
  BY DEF Established
<1>2. /\ log = <<>>
      /\ \A d \in Device : session[d] = None
      /\ \A u \in Tab : send[u].stage # "posting"
  BY <1>1 DEF HandshakeInv, Rooted
<1>3. 1 .. Len(log) = {}
  BY <1>2
<1>4. \A u \in Tab, m \in Id : reader[u][m].stage = "idle"
  BY <1>3 DEF ReadIsLogged
<1> QED
  BY <1>2, <1>4

LEMMA WrongStored ==
    ASSUME TypeInv, HandshakeInv, WrongKeyInv, PairsOwned',
           NEW t \in Tab, SetupStored(t)
    PROVE  WrongKeyInv'
<1>1. /\ send'[t].stage = "saving" /\ send'[t].key = send[t].key
      /\ \A u \in Tab : u # t => send'[u] = send[u]
  BY SendAt DEF SetupStored
<1>2. /\ UNCHANGED <<log, session, reader, bundle, identity, boot, generated>>
      /\ send[t].stage = "setup"
      /\ initiators' = initiators \cup {t}
  BY DEF SetupStored, keys
<1>3. ASSUME NEW u \in Tab, initiators' = {u}
      PROVE  u = t /\ initiators \subseteq {t} /\ session[DeviceOf[t]] = None
  <2>1. u = t /\ initiators \subseteq {t}
    BY <1>2, <1>3
  <2>2. Handshaking(t) /\ ~ \E v \in initiators : v # t
    BY <1>2, <2>1 DEF Handshaking
  <2> QED
    BY <2>1, <2>2 DEF HandshakeInv, LateHandshake
<1>4. ForeignKnown'
  <2> SUFFICES ASSUME NEW u \in Tab
               PROVE  /\ send'[u].stage = "deriving" =>
                             Foreign(DeviceOf[u], send'[u].pair)
                      /\ send'[u].stage \in {"setup", "saving"} =>
                             Foreign(DeviceOf[u], send'[u].key.identity)
                      /\ initiators' = {u} => session[DeviceOf[u]] = None
    BY <1>2 DEF ForeignKnown, Foreign, Holds
  <2>1. initiators' = {u} => session[DeviceOf[u]] = None
    BY <1>3
  <2> QED
    BY <1>1, <1>2, <2>1 DEF WrongKeyInv, ForeignKnown
<1>5. Mirrored'
  BY <1>2, <1>3 DEF Mirrored
<1>6. Sealed'
  <2> SUFFICES ASSUME NEW u \in Tab, initiators' = {u}
               PROVE  log = <<>> /\ \A v \in Tab : send'[v].stage # "posting"
    BY <1>2 DEF Sealed
  <2> QED
    BY <1>1, <1>3, Unestablished DEF WrongKeyInv
<1>7. ReadIsLogged'
  BY <1>2 DEF WrongKeyInv, ReadIsLogged
<1>8. WrongKnown'
  <2> SUFFICES ASSUME NEW u \in Tab, initiators' = {u}
               PROVE  \A v \in Tab, m \in Id : reader[v][m].stage # "wrongKey"
    BY <1>2 DEF WrongKnown
  <2> QED
    BY <1>3, Unestablished DEF WrongKeyInv
<1> QED
  BY <1>4, <1>5, <1>6, <1>7, <1>8 DEF WrongKeyInv

LEMMA WrongSaved ==
    ASSUME TypeInv, HandshakeInv, WrongKeyInv, PairsOwned',
           NEW t \in Tab, SessionSaved(t)
    PROVE  WrongKeyInv'
<1> USE DirectSessionsAssumption
<1>1. /\ send'[t].stage = "posting" /\ send'[t].key = send[t].key
      /\ \A u \in Tab : u # t => send'[u] = send[u]
  BY SendAt DEF SessionSaved
<1>2. /\ UNCHANGED <<log, reader, initiators, bundle, identity, boot, generated>>
      /\ send[t].stage = "saving"
  BY DEF SessionSaved, server, keys, history
<1>3. send[t].key # None
  BY <1>2, NoneAssumption DEF TypeInv, SendKnown
<1>4. /\ session'[DeviceOf[t]] = send[t].key
      /\ \A d \in Device : d # DeviceOf[t] => session'[d] = session[d]
  BY SessionAt DEF SessionSaved
<1>5. ASSUME NEW u \in Tab, initiators = {u}
      PROVE  u = t /\ initiators \subseteq {t} /\ session[DeviceOf[t]] = None
  <2>1. u = t /\ initiators \subseteq {t}
    BY <1>2, <1>5 DEF HandshakeInv, InitiatorKnown
  <2>2. Handshaking(t) /\ ~ \E v \in initiators : v # t
    BY <1>2, <2>1 DEF Handshaking
  <2> QED
    BY <2>1, <2>2 DEF HandshakeInv, LateHandshake
<1>6. ForeignKnown'
  <2> SUFFICES ASSUME NEW u \in Tab
               PROVE  /\ send'[u].stage = "deriving" =>
                             Foreign(DeviceOf[u], send'[u].pair)
                      /\ send'[u].stage \in {"setup", "saving"} =>
                             Foreign(DeviceOf[u], send'[u].key.identity)
                      /\ initiators = {u} =>
                             Foreign(DeviceOf[u], session'[DeviceOf[u]].identity)
    BY <1>2 DEF ForeignKnown, Foreign, Holds
  <2>1. initiators = {u} => Foreign(DeviceOf[u], session'[DeviceOf[u]].identity)
    BY <1>2, <1>4, <1>5 DEF WrongKeyInv, ForeignKnown
  <2> QED
    BY <1>1, <2>1 DEF WrongKeyInv, ForeignKnown
<1>7. Mirrored'
  <2> SUFFICES ASSUME NEW u \in Tab, initiators = {u}
               PROVE  /\ \A d \in Device : d # DeviceOf[u] => session'[d] = None
                      /\ \A v \in Tab, m \in Id : reader[v][m].stage = "idle"
    BY <1>2 DEF Mirrored
  <2> QED
    BY <1>4, <1>5, Unestablished DEF WrongKeyInv
<1>8. Sealed'
  <2> SUFFICES ASSUME NEW u \in Tab, initiators = {u}
               PROVE  /\ log = <<>>
                      /\ \A v \in Tab :
                            send'[v].stage = "posting" =>
                                /\ session'[DeviceOf[v]] # None
                                /\ send'[v].key = session'[DeviceOf[v]]
    BY <1>2 DEF Sealed
  <2>1. /\ log = <<>>
        /\ \A v \in Tab : send[v].stage # "posting"
    BY <1>5, Unestablished DEF WrongKeyInv
  <2> QED
    BY <1>1, <1>3, <1>4, <2>1
<1>9. ReadIsLogged'
  BY <1>2 DEF WrongKeyInv, ReadIsLogged
<1>10. WrongKnown'
  <2> SUFFICES ASSUME NEW u \in Tab, initiators = {u}
               PROVE  \A v \in Tab, m \in Id : reader[v][m].stage # "wrongKey"
    BY <1>2 DEF WrongKnown
  <2> QED
    BY <1>5, Unestablished DEF WrongKeyInv
<1> QED
  BY <1>6, <1>7, <1>8, <1>9, <1>10 DEF WrongKeyInv

\* What a step that touches neither the sessions nor who sends what leaves as it was.
LEMMA ForeignSame ==
    ASSUME WrongKeyInv, UNCHANGED <<bundle, identity, boot, generated, initiators>>,
           \A t \in Tab :
               /\ send'[t].stage \in {"deriving", "setup", "saving"} => send'[t] = send[t]
               /\ initiators = {t} => session'[DeviceOf[t]] = session[DeviceOf[t]]
    PROVE  ForeignKnown'
<1> SUFFICES ASSUME NEW u \in Tab, NEW p,
                    \/ send'[u].stage = "deriving" /\ p = send'[u].pair
                    \/ /\ send'[u].stage \in {"setup", "saving"}
                       /\ p = send'[u].key.identity
                    \/ /\ initiators = {u} /\ session'[DeviceOf[u]] # None
                       /\ p = session'[DeviceOf[u]].identity
             PROVE  Foreign(DeviceOf[u], p)
  BY DEF ForeignKnown, Foreign, Holds
<1> QED
  BY DEF WrongKeyInv, ForeignKnown

LEMMA WrongPosted ==
    ASSUME TypeInv, HandshakeInv, WrongKeyInv, KeysStay, PairsOwned',
           NEW t \in Tab, MessagePosted(t)
    PROVE  WrongKeyInv'
<1> USE DirectSessionsAssumption
<1>1. /\ send'[t].stage = "idle"
      /\ \A u \in Tab : u # t => send'[u] = send[u]
  BY SendAt DEF MessagePosted, NoSend, Send
<1>2. /\ UNCHANGED <<session, reader, initiators, bundle, identity, boot, generated>>
      /\ send[t].stage = "posting"
  BY DEF MessagePosted, keys, history
<1>3. /\ Len(log') = Len(log) + 1 /\ Len(log) \in Nat
      /\ log'[Len(log) + 1].from = DeviceOf[t]
      /\ log'[Len(log) + 1].key = send[t].key
      /\ \A i \in 1 .. Len(log) : log'[i] = log[i]
  <2>1. log \in Seq(Message)
    BY DEF TypeInv, TypeOK
  <2>2. log' = Append(log, [from |-> DeviceOf[t], key |-> send[t].key])
    BY DEF MessagePosted
  <2> QED
    BY <2>1, <2>2
<1>4. ForeignKnown'
  BY <1>1, <1>2, ForeignSame
<1>5. Mirrored'
  BY <1>2, MirroredStays DEF WrongKeyInv
<1>6. Sealed'
  <2> SUFFICES ASSUME NEW u \in Tab, initiators = {u}
               PROVE  /\ \A i \in 1 .. Len(log') :
                            /\ session[log'[i].from] # None
                            /\ log'[i].key = session[log'[i].from]
                      /\ \A v \in Tab :
                            send'[v].stage = "posting" =>
                                /\ session[DeviceOf[v]] # None
                                /\ send'[v].key = session[DeviceOf[v]]
    BY <1>2 DEF Sealed
  <2>1. /\ \A i \in 1 .. Len(log) :
              session[log[i].from] # None /\ log[i].key = session[log[i].from]
        /\ \A v \in Tab :
              send[v].stage = "posting" =>
                  session[DeviceOf[v]] # None /\ send[v].key = session[DeviceOf[v]]
    BY DEF WrongKeyInv, Sealed
  <2>2. \A i \in 1 .. Len(log') : i \in 1 .. Len(log) \/ i = Len(log) + 1
    BY <1>3
  <2> QED
    BY <1>1, <1>2, <1>3, <2>1, <2>2
<1>7. ReadIsLogged'
  BY <1>2, <1>3 DEF WrongKeyInv, ReadIsLogged
<1>8. WrongKnown'
  <2>1. \A u \in Tab, m \in Id : reader[u][m].stage = "wrongKey" => log'[m] = log[m]
    BY <1>3 DEF WrongKeyInv, ReadIsLogged
  <2> QED
    BY <1>2, <2>1 DEF WrongKeyInv, WrongKnown
<1> QED
  BY <1>4, <1>5, <1>6, <1>7, <1>8 DEF WrongKeyInv

\* A step of decrypting that saves no key.
LEMMA WrongRead ==
    ASSUME TypeInv, WrongKeyInv, KeysStay, PairsOwned',
           NEW t \in Tab, NEW m \in Id, NEW stage, NEW handshake, NEW key,
           Read(t, m, stage, handshake, key),
           UNCHANGED <<bundle, identity, preKey, boot, generated, session, send, log,
                       initiators>>,
           m \in 1 .. Len(log),
           \A u \in Tab :
               initiators = {u} =>
                   LET own == session[DeviceOf[u]]
                   IN own # None =>
                          /\ stage = "deriving" => handshake = HandshakeOf(own)
                          /\ stage = "saving" =>
                                 Kept(DeviceOf[t]) /\ key = Mirror(own, DeviceOf[t]),
           stage = "wrongKey" =>
               session[DeviceOf[t]] # None /\ session[DeviceOf[t]] # log[m].key
    PROVE  WrongKeyInv'
<1>1. /\ reader'[t][m].stage = stage
      /\ reader'[t][m].setup = handshake /\ reader'[t][m].key = key
      /\ \A u \in Tab, i \in Id : u # t \/ i # m => reader'[u][i] = reader[u][i]
  BY ReadAt
<1>2. ForeignKnown'
  BY ForeignSame
<1>3. Mirrored'
  <2> SUFFICES ASSUME NEW u \in Tab, initiators = {u}, NEW own,
                      own = session[DeviceOf[u]], own # None
               PROVE  \A v \in Tab, i \in Id :
                          /\ reader'[v][i].stage = "deriving" =>
                                 reader'[v][i].setup = HandshakeOf(own)
                          /\ reader'[v][i].stage = "saving" =>
                                 /\ Kept(DeviceOf[v])
                                 /\ reader'[v][i].key = Mirror(own, DeviceOf[v])
    BY DEF WrongKeyInv, Mirrored, Mirror, Kept, HandshakeOf
  <2> QED
    BY <1>1 DEF WrongKeyInv, Mirrored
<1>4. Sealed'
  BY DEF WrongKeyInv, Sealed
<1>5. ReadIsLogged'
  BY <1>1 DEF WrongKeyInv, ReadIsLogged
<1>6. WrongKnown'
  BY <1>1 DEF WrongKeyInv, WrongKnown
<1> QED
  BY <1>2, <1>3, <1>4, <1>5, <1>6 DEF WrongKeyInv

\* Saving a mirror image, which may be saved already.
LEMMA WrongMirrored ==
    ASSUME TypeInv, HandshakeInv, WrongKeyInv, PairsOwned',
           NEW t \in Tab, NEW m \in Id, ResponderSaved(t, m)
    PROVE  WrongKeyInv'
<1> USE DirectSessionsAssumption
<1>1. /\ UNCHANGED <<bundle, identity, preKey, boot, generated, send, log, initiators>>
      /\ reader[t][m].stage = "saving"
  BY DEF ResponderSaved, server, keys, history
<1>2. PICK key : key = reader[t][m].key
  OBVIOUS
<1>3. key # None
  BY <1>1, <1>2, NoneAssumption DEF TypeInv, ReadKnown
<1>4. /\ session'[DeviceOf[t]] = key
      /\ \A d \in Device : d # DeviceOf[t] => session'[d] = session[d]
  BY ZenonT(60), <1>2, SessionAt DEF ResponderSaved
<1>5. /\ reader'[t][m].stage \in {"text", "wrongKey"}
      /\ reader'[t][m].stage = "wrongKey" => key # log[m].key
      /\ \A u \in Tab, i \in Id : u # t \/ i # m => reader'[u][i] = reader[u][i]
  <2>1. PICK stage \in {"text", "wrongKey"} :
            /\ Read(t, m, stage, None, None)
            /\ stage = "wrongKey" => key # log[m].key
    BY <1>2 DEF ResponderSaved, Opened
  <2> QED
    BY <2>1, ReadAt
<1>6. ASSUME NEW u \in Tab, initiators = {u}
      PROVE  /\ session[DeviceOf[u]] # None /\ DeviceOf[u] # DeviceOf[t]
             /\ session'[DeviceOf[u]] = session[DeviceOf[u]]
             /\ Kept(DeviceOf[t]) /\ key = Mirror(session[DeviceOf[u]], DeviceOf[t])
             /\ session[DeviceOf[t]] # None => session[DeviceOf[t]] = key
  <2>1. PICK v \in Tab : Established(v) /\ DeviceOf[v] # DeviceOf[t]
    BY <1>1 DEF HandshakeInv, ReadersElsewhere, Establishing
  <2>2. session[DeviceOf[u]] # None /\ DeviceOf[u] # DeviceOf[t]
    BY <1>6, <2>1 DEF Established
  <2>3. Kept(DeviceOf[t]) /\ key = Mirror(session[DeviceOf[u]], DeviceOf[t])
    BY <1>1, <1>2, <1>6, <2>2 DEF WrongKeyInv, Mirrored
  <2>4. session[DeviceOf[t]] # None => session[DeviceOf[t]] = key
    BY <1>6, <2>2, <2>3 DEF WrongKeyInv, Mirrored
  <2> QED
    BY <1>4, <2>2, <2>3, <2>4
<1>7. ASSUME NEW u \in Tab, initiators = {u}, NEW d \in Device, session[d] # None
      PROVE  session'[d] = session[d]
  BY <1>4, <1>6, <1>7
<1>8. ForeignKnown'
  BY <1>1, <1>6, ForeignSame
<1>9. Mirrored'
  <2> SUFFICES ASSUME NEW u \in Tab, initiators = {u}, NEW own,
                      own = session'[DeviceOf[u]], own # None
               PROVE  /\ \A d \in Device :
                            d # DeviceOf[u] /\ session'[d] # None =>
                                Kept(d) /\ session'[d] = Mirror(own, d)
                      /\ \A v \in Tab, i \in Id :
                            /\ reader'[v][i].stage = "deriving" =>
                                   reader'[v][i].setup = HandshakeOf(own)
                            /\ reader'[v][i].stage = "saving" =>
                                   /\ Kept(DeviceOf[v])
                                   /\ reader'[v][i].key = Mirror(own, DeviceOf[v])
    BY <1>1 DEF Mirrored, Mirror, Kept, HandshakeOf
  <2>1. own = session[DeviceOf[u]]
    BY <1>6
  <2>2. \A d \in Device :
            d # DeviceOf[u] /\ session'[d] # None =>
                Kept(d) /\ session'[d] = Mirror(own, d)
    BY <1>4, <1>6, <2>1 DEF WrongKeyInv, Mirrored
  <2> QED
    BY <1>5, <2>1, <2>2 DEF WrongKeyInv, Mirrored
<1>10. Sealed'
  <2> SUFFICES ASSUME NEW u \in Tab, initiators = {u}
               PROVE  /\ \A i \in 1 .. Len(log) :
                            /\ session'[log[i].from] # None
                            /\ log[i].key = session'[log[i].from]
                      /\ \A v \in Tab :
                            send[v].stage = "posting" =>
                                /\ session'[DeviceOf[v]] # None
                                /\ send[v].key = session'[DeviceOf[v]]
    BY <1>1 DEF Sealed
  <2>1. \A i \in 1 .. Len(log) : log[i].from \in Device
    BY LogAt
  <2> QED
    BY <1>7, <2>1 DEF WrongKeyInv, Sealed
<1>11. ReadIsLogged'
  BY <1>1, <1>5 DEF WrongKeyInv, ReadIsLogged
<1>12. WrongKnown'
  <2> SUFFICES ASSUME NEW u \in Tab, initiators = {u}, NEW v \in Tab, NEW i \in Id,
                      reader'[v][i].stage = "wrongKey"
               PROVE  session'[DeviceOf[v]] # None /\ session'[DeviceOf[v]] # log[i].key
    BY <1>1 DEF WrongKnown
  <2>1. CASE v = t /\ i = m
    BY <1>3, <1>4, <1>5, <2>1
  <2>2. CASE v # t \/ i # m
    <3>1. session[DeviceOf[v]] # None /\ session[DeviceOf[v]] # log[i].key
      BY <1>5, <2>2 DEF WrongKeyInv, WrongKnown
    <3> QED
      BY <1>7, <3>1
  <2> QED
    BY <2>1, <2>2
<1> QED
  BY <1>8, <1>9, <1>10, <1>11, <1>12 DEF WrongKeyInv

LEMMA WrongWrite ==
    ASSUME TypeInv, HandshakeInv, WrongKeyInv, KeysStay, PairsOwned',
           NEW t \in Tab, Write(t)
    PROVE  WrongKeyInv'
<1>1. CASE SendBegins(t)
  <2>1. UNCHANGED <<session, reader, log, initiators>>
    BY <1>1 DEF SendBegins, server, history
  <2>2. CASE session[DeviceOf[t]] = None
    <3>1. Send(t, "bundles", None, session[DeviceOf[t]])
      BY <1>1, <2>2 DEF SendBegins
    <3> QED
      BY <2>1, <3>1, WrongSend
  <2>3. CASE session[DeviceOf[t]] # None
    <3>1. Send(t, "posting", None, session[DeviceOf[t]])
      BY <1>1, <2>3 DEF SendBegins
    <3> QED
      BY <2>1, <2>3, <3>1, WrongSend
  <2> QED
    BY <2>2, <2>3
<1>2. CASE BundlesFetched(t)
  <2>1. UNCHANGED <<session, reader, log, initiators>>
    BY <1>2 DEF BundlesFetched, server, history
  <2>2. ASSUME NEW d \in Recipients(t), Send(t, "deriving", bundle[d], None)
        PROVE  WrongKeyInv'
    <3>1. d \in Device /\ d # DeviceOf[t] /\ DeviceOf[t] \in Device /\ bundle[d] \in Pair
      BY DirectSessionsAssumption DEF Recipients, TypeInv, TypeOK
    <3>2. Foreign(DeviceOf[t], bundle[d])
      BY <3>1 DEF WrongKeyInv, PairsOwned, Holds, Foreign
    <3> QED
      BY <2>1, <2>2, <3>2, WrongSend
  <2>3. CASE Send(t, "idle", None, None)
    BY <2>1, <2>3, WrongSend
  <2> QED
    BY <1>2, <2>2, <2>3 DEF BundlesFetched, NoSend, Send
<1>3. CASE InitiatorDerives(t)
  <2>1. UNCHANGED <<session, reader, log, initiators>> /\ send[t].stage = "deriving"
    BY <1>3 DEF InitiatorDerives, server, history
  <2>2. Foreign(DeviceOf[t], send[t].pair)
    BY <2>1 DEF WrongKeyInv, ForeignKnown
  <2>3. ASSUME NEW key, Send(t, "setup", None, key), key.identity = send[t].pair
        PROVE  WrongKeyInv'
    BY <2>1, <2>2, <2>3, WrongSend
  <2>4. CASE Send(t, "idle", None, None)
    BY <2>1, <2>4, WrongSend
  <2> QED
    BY <1>3, <2>3, <2>4 DEF InitiatorDerives, NoSend, Send
<1>4. CASE SendFails(t)
  <2>1. UNCHANGED <<session, reader, log, initiators>> /\ Send(t, "idle", None, None)
    BY <1>4 DEF SendFails, server, NoSend, Send
  <2> QED
    BY <2>1, WrongSend
<1> QED
  BY <1>1, <1>2, <1>3, <1>4, WrongStored, WrongSaved, WrongPosted DEF Write

LEMMA WrongReceive ==
    ASSUME TypeInv, HandshakeInv, WrongKeyInv, KeysStay, PairsOwned',
           NEW t \in Tab, Receive(t)
    PROVE  WrongKeyInv'
<1> USE DirectSessionsAssumption
<1>1. CASE Received(t)
  <2> DEFINE m == received[t] + 1
  <2>1. /\ UNCHANGED <<bundle, identity, preKey, boot, generated>>
        /\ UNCHANGED <<session, send, log, initiators>>
        /\ m <= Len(log)
    BY <1>1 DEF Received, server, keys, history
  <2>2. /\ received[t] \in 0 .. MaxMessages
        /\ Len(log) <= MaxMessages
        /\ log \in Seq(Message)
    BY DEF TypeInv, TypeOK
  <2>3. m \in Id /\ m \in 1 .. Len(log)
    BY <2>1, <2>2 DEF Id
  <2>4. CASE UNCHANGED reader
    BY <2>1, <2>4, WrongKept
  <2>5. ASSUME ~ UNCHANGED reader
        PROVE  \E stage \in {"setup", "text", "wrongKey"} :
                   /\ Read(t, m, stage, None, None)
                   /\ stage = "wrongKey" => /\ session[DeviceOf[t]] # None
                                            /\ session[DeviceOf[t]] # log[m].key
    BY <1>1, <2>5 DEF Received, Opened
  <2> HIDE DEF m
  <2> QED
    BY <2>1, <2>3, <2>4, <2>5, WrongRead
<1>2. ASSUME NEW m \in Id,
             SetupFetched(t, m) \/ ResponderDerives(t, m) \/ FetchFails(t, m)
      PROVE  /\ UNCHANGED <<bundle, identity, preKey, boot, generated>>
             /\ UNCHANGED <<session, send, log, initiators>>
             /\ Establishing(t, m)
             /\ m \in 1 .. Len(log)
  <2>1. Establishing(t, m) /\ reader[t][m].stage # "idle"
    BY <1>2 DEF SetupFetched, ResponderDerives, FetchFails, Establishing
  <2> QED
    BY <1>2, <2>1 DEF SetupFetched, ResponderDerives, FetchFails, server, keys, history,
                      WrongKeyInv, ReadIsLogged
<1>3. ASSUME NEW m \in Id, Establishing(t, m), NEW u \in Tab, initiators = {u}
      PROVE  session[DeviceOf[u]] # None /\ DeviceOf[u] # DeviceOf[t]
  BY <1>3 DEF HandshakeInv, ReadersElsewhere, Established
<1>4. ASSUME NEW m \in Id, SetupFetched(t, m)
      PROVE  WrongKeyInv'
  <2>1. PICK stage \in {"noKey", "deriving"} :
            Read(t, m, stage, setup, None) /\ (stage = "deriving" => setup # None)
    BY <1>4 DEF SetupFetched
  <2>2. ASSUME NEW u \in Tab, initiators = {u}, stage = "deriving"
        PROVE  setup = HandshakeOf(session[DeviceOf[u]])
    BY <1>2, <1>3, <1>4, <2>1, <2>2 DEF HandshakeInv, HandshakeKnown
  <2> QED
    BY <1>2, <1>4, <2>1, <2>2, WrongRead
<1>5. ASSUME NEW m \in Id, ResponderDerives(t, m)
      PROVE  WrongKeyInv'
  <2> DEFINE handshake == reader[t][m].setup
             key == [by |-> handshake.by, identity |-> identity[DeviceOf[t]],
                     preKey |-> preKey[DeviceOf[t]], ephemeral |-> handshake.ephemeral]
  <2>1. CASE Read(t, m, "noKey", None, None)
    BY <1>2, <1>5, <2>1, WrongRead
  <2>2. CASE Kept(DeviceOf[t]) /\ Read(t, m, "saving", None, key)
    <3>1. ASSUME NEW u \in Tab, initiators = {u}
          PROVE  key = Mirror(session[DeviceOf[u]], DeviceOf[t])
      <4>1. handshake = HandshakeOf(session[DeviceOf[u]])
        BY <1>2, <1>3, <1>5, <3>1 DEF ResponderDerives, WrongKeyInv, Mirrored
      <4> QED
        BY <4>1 DEF Mirror, HandshakeOf
    <3> HIDE DEF key
    <3> QED
      BY <1>2, <1>5, <2>2, <3>1, WrongRead
  <2> QED
    BY <1>5, <2>1, <2>2 DEF ResponderDerives, Kept
<1>6. ASSUME NEW m \in Id, FetchFails(t, m)
      PROVE  WrongKeyInv'
  BY <1>2, <1>6, WrongRead DEF FetchFails
<1> QED
  BY <1>1, <1>4, <1>5, <1>6, WrongMirrored DEF Receive

LEMMA WrongReload ==
    ASSUME TypeInv, WrongKeyInv, KeysStay, PairsOwned', NEW t \in Tab, Reload(t)
    PROVE  WrongKeyInv'
<1>1. /\ \A u \in Tab : send'[u].stage # "idle" => send'[u] = send[u]
      /\ \A u \in Tab, m \in Id :
            reader'[u][m].stage # "idle" => reader'[u][m] = reader[u][m]
      /\ UNCHANGED <<session, log, initiators>>
  BY ReloadAt
<1>2. ForeignKnown'
  <2> SUFFICES ASSUME NEW u \in Tab, NEW p,
                      \/ send'[u].stage = "deriving" /\ p = send'[u].pair
                      \/ /\ send'[u].stage \in {"setup", "saving"}
                         /\ p = send'[u].key.identity
                      \/ /\ initiators = {u} /\ session[DeviceOf[u]] # None
                         /\ p = session[DeviceOf[u]].identity
               PROVE  Foreign(DeviceOf[u], p)'
    BY <1>1 DEF ForeignKnown, Foreign, Holds
  <2>1. Foreign(DeviceOf[u], p)
    BY <1>1 DEF WrongKeyInv, ForeignKnown
  <2> QED
    BY <2>1, ForeignStays
<1>3. Mirrored'
  BY <1>1, MirroredStays DEF WrongKeyInv
<1>4. Sealed' /\ ReadIsLogged' /\ WrongKnown'
  BY <1>1 DEF WrongKeyInv, Sealed, ReadIsLogged, WrongKnown
<1> QED
  BY <1>2, <1>3, <1>4 DEF WrongKeyInv

LEMMA WrongKeyStep ==
    ASSUME TypeInv, PublishedInv, HandshakeInv, WrongKeyInv, [Next]_vars
    PROVE  WrongKeyInv'
<1>1. KeysStay /\ PairsOwned'
  BY KeysStep DEF WrongKeyInv
<1>2. ASSUME NEW t \in Tab, Bootstrap(t)
      PROVE  WrongKeyInv'
  <2>1. UNCHANGED <<session, send, reader, log, initiators>>
    BY <1>2 DEF Bootstrap, BootstrapBegins, BundleUploaded, IdentitySaved, PreKeySaved,
                UploadFails, server, history
  <2> QED
    BY <1>1, <2>1, WrongKept
<1>3. CASE SetupExpires \/ UNCHANGED vars
  BY <1>1, <1>3, WrongKept DEF SetupExpires, vars, server, client, history
<1> QED
  BY <1>1, <1>2, <1>3, WrongWrite, WrongReceive, WrongReload DEF Next

\* The argument for a reader with a key that is not the message's: one of the two has
\* not the initiator's but a mirror image that differs from it.  The device that has
\* the keys that the handshake was made for, if there is any, has no such one: it is a
\* third device.
LEMMA WrongKeyCaused ==
    ASSUME TypeInv, HandshakeInv, WrongKeyInv
    PROVE  WrongKeyHasCause
<1> SUFFICES ASSUME NEW u \in Tab, NEW m \in Id,
                    reader[u][m].stage = "wrongKey", ~ Contested, ~ Orphaned
             PROVE  Elsewhere(DeviceOf[u]) \/ Elsewhere(log[m].from)
  BY DEF WrongKeyHasCause
<1>1. m \in 1 .. Len(log) /\ log \in Seq(Message)
  BY DEF WrongKeyInv, ReadIsLogged, TypeInv, TypeOK
<1>2. log # <<>>
  BY <1>1
<1>3. PICK t \in Tab : Established(t)
  BY <1>2 DEF HandshakeInv, Rooted
<1>4. initiators = {t} /\ session[DeviceOf[t]] # None
  BY <1>3, SoleInitiator DEF Established, HandshakeInv, InitiatorKnown
<1>5. PICK key : key = session[DeviceOf[t]]
  OBVIOUS
<1>6. PICK from : from = log[m].from
  OBVIOUS
<1>7. from \in Device /\ DeviceOf[u] \in Device /\ DeviceOf[t] \in Device
  BY <1>1, <1>6, LogAt, DirectSessionsAssumption
<1>8. /\ session[from] # None /\ session[DeviceOf[u]] # None
      /\ session[DeviceOf[u]] # session[from]
  BY <1>1, <1>4, <1>6 DEF WrongKeyInv, Sealed, WrongKnown
<1>9. key \in Key
  BY <1>4, <1>5, <1>7 DEF TypeInv, TypeOK
<1>10. PICK d \in Device : MadeFor(key, d)
  BY <1>4, <1>5 DEF Orphaned
<1>11. Mirror(key, d) = key
  BY <1>9, <1>10 DEF Mirror, MadeFor, Key
<1>12. PICK e \in {DeviceOf[u], from} : session[e] # None /\ session[e] # key
  BY <1>8
<1>13. e # DeviceOf[t] /\ session[e] = Mirror(key, e)
  BY <1>4, <1>5, <1>7, <1>12 DEF WrongKeyInv, Mirrored
<1>14. d # e
  BY <1>11, <1>12, <1>13
<1>15. Elsewhere(e)
  BY <1>4, <1>5, <1>10, <1>13, <1>14 DEF Elsewhere
<1> QED
  BY <1>6, <1>15

\* For any number of devices, each used in one tab: failed requests, reloads and the
\* order in which messages arrive never make a device open a message with another key
\* than its own.  That takes two initiators, an initiator whose handshake was made for
\* keys that were published and never saved, or a writer or reader on a device the
\* session was not made for (establishDMSession, decryptFromDM,
\* establishDMSessionAsResponder, bootstrapDeviceKeys).
THEOREM WrongKeyAlwaysHasCause ==
    ASSUME OneTabEach
    PROVE  Spec => []WrongKeyHasCause
<1> DEFINE Inv == TypeInv /\ PublishedInv /\ HandshakeInv /\ WrongKeyInv
<1>1. Init => Inv
  BY TypesInit, PublishedInit, HandshakeInit, WrongKeyInit
<1>2. Inv /\ [Next]_vars => Inv'
  BY OneTabEach, TypesStep, PublishedStep, HandshakeStep, WrongKeyStep
<1>3. Inv => WrongKeyHasCause
  BY WrongKeyCaused
<1> QED
  BY <1>1, <1>2, <1>3, PTL DEF Spec
=============================================================================
