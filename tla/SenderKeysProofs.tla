--------------------------- MODULE SenderKeysProofs ---------------------------
(***************************************************************************)
(* Proofs about the sender keys of a group channel, for any tabs, devices, *)
(* chains and bounds.                                                      *)
(*                                                                         *)
(*   TypeInv   what a stage works with is there, and is still what it was  *)
(*             read as: the log only grows, a position is never taken away *)
(*   ReadInv   the text of a ciphertext that a device has shown, or is     *)
(*             about to, is in its cache or on the way there               *)
(*   AgreeInv  every copy of a chain, stored or under way, is of the chain *)
(*             the server has                                              *)
(*   ChainsOwned, KeysInv                                                  *)
(*             a chain has one owner, which while its tabs take turns is   *)
(*             past all its messages and not behind any reader             *)
(***************************************************************************)
EXTENDS SenderKeys, TLAPS

-----------------------------------------------------------------------------
(***************************************************************************)
(* The types.  A stage tells which of its fields are in use.               *)
(***************************************************************************)

SendType ==
    [stage : {"idle", "uploading", "uploaded", "reading", "encrypting", "posting",
              "posted", "fallback", "sent"},
     key : Position \cup {Absent}, id : 0 .. MaxMessages]

ReadType ==
    [stage : {"idle", "fetching", "ratcheting", "opening", "opened"},
     key : Position \cup {Absent}]

LoadType ==
    [stage : {"idle", "keys", "lookup", "fetching", "ratcheting", "opening"},
     key : Position \cup {Absent}, next : 0 .. MaxMessages + 1,
     last : 0 .. MaxMessages, result : [Id -> Display]]

SendOK(t) ==
    /\ send[t] \in SendType
    /\ send[t].stage \in {"uploading", "uploaded", "encrypting", "posting"} =>
           send[t].key \in Position
    /\ send[t].stage \in {"reading", "encrypting", "posting"} => Own(t) \in Position
    /\ send[t].stage \in {"posted", "sent"} => send[t].id \in Posted
    /\ send[t].stage = "sent" => ~ Encrypted(send[t].id)

ReadOK(t, m) ==
    /\ reader[t][m] \in ReadType
    /\ reader[t][m].stage # "idle" => m \in Posted /\ Encrypted(m)
    /\ reader[t][m].stage \in {"ratcheting", "opening"} =>
           reader[t][m].key \in Position

LoadOK(t) ==
    LET m == load[t].next
    IN /\ load[t] \in LoadType
       /\ load[t].stage # "idle" =>
              m \in 1 .. load[t].last + 1 /\ load[t].last \in Posted
       /\ load[t].stage \in {"fetching", "ratcheting", "opening"} =>
              m <= load[t].last /\ Encrypted(m)
       /\ load[t].stage \in {"ratcheting", "opening"} => load[t].key \in Position

KeysTyped ==
    /\ serverKey \in [Device -> Chain \cup {None}]
    /\ ratchet \in [Device -> [Device -> Position \cup {Absent}]]
    /\ chains \in SUBSET Chain
    /\ replaced \in SUBSET Device
    /\ overlapped \in SUBSET Device

LogTyped == log \in Seq(Message) /\ Len(log) <= MaxMessages

TextTyped ==
    /\ cache \in [Device -> SUBSET Id]
    /\ puts \in [Tab -> SUBSET Id]
    /\ unkept \in [Device -> SUBSET Id]

ViewTyped ==
    /\ read \in [Device -> SUBSET Id]
    /\ shown \in [Tab -> [Id -> Display]]
    /\ pushed \in [Tab -> 0 .. MaxMessages]
    /\ faults \in 0 .. MaxFaults

TabsTyped ==
    /\ send \in [Tab -> SendType]
    /\ reader \in [Tab -> [Id -> ReadType]]
    /\ load \in [Tab -> LoadType]

TypeInv ==
    /\ KeysTyped
    /\ LogTyped
    /\ TextTyped
    /\ ViewTyped
    /\ TabsTyped
    /\ \A t \in Tab : SendOK(t) /\ LoadOK(t) /\ \A m \in Id : ReadOK(t, m)

LEMMA TypeInvTypes == TypeInv => TypeOK
BY DEF TypeInv, KeysTyped, LogTyped, TextTyped, ViewTyped, TabsTyped, SendType, ReadType,
       LoadType, TypeOK

LEMMA AbsentIsNoPosition == Absent \notin Position
BY SenderKeysAssumption DEF Absent, Position

LEMMA TypesInit == Init => TypeInv
<1> SUFFICES ASSUME Init
             PROVE  TypeInv
  OBVIOUS
<1> USE SenderKeysAssumption
<1>1. IdleSend \in SendType /\ IdleRead \in ReadType
  BY DEF IdleSend, IdleRead, SendType, ReadType
<1>2. IdleLoad \in LoadType
  BY DEF IdleLoad, LoadType, Display
<1>3. KeysTyped
  BY DEF Init, KeysTyped
<1>4. LogTyped
  BY DEF Init, LogTyped
<1>5. TextTyped /\ ViewTyped
  BY DEF Init, TextTyped, ViewTyped, Display
<1>6. TabsTyped
  <2> HIDE DEF IdleSend, IdleRead, IdleLoad, SendType, ReadType, LoadType
  <2> QED
    BY <1>1, <1>2 DEF Init, TabsTyped
<1>7. ASSUME NEW t \in Tab
      PROVE  SendOK(t) /\ LoadOK(t) /\ \A m \in Id : ReadOK(t, m)
  <2>1. /\ send[t].stage = "idle"
        /\ load[t].stage = "idle"
        /\ \A m \in Id : reader[t][m].stage = "idle"
    BY DEF Init, IdleSend, IdleRead, IdleLoad
  <2>2. send[t] \in SendType /\ load[t] \in LoadType
        /\ \A m \in Id : reader[t][m] \in ReadType
    BY <1>6 DEF TabsTyped
  <2> QED
    BY <2>1, <2>2 DEF SendOK, LoadOK, ReadOK
<1> QED
  BY <1>3, <1>4, <1>5, <1>6, <1>7 DEF TypeInv

-----------------------------------------------------------------------------
(***************************************************************************)
(* What the steps do to the log and to the positions.                      *)
(***************************************************************************)

LogStays == Posted \subseteq Posted' /\ \A i \in Posted : log'[i] = log[i]

RatchetStays ==
    \A d, e \in Device : ratchet[d][e] \in Position => ratchet'[d][e] \in Position

LEMMA PostedAre ==
    ASSUME TypeInv
    PROVE  /\ Posted \subseteq Id
           /\ Len(log) \in 0 .. MaxMessages
           /\ \A i \in Posted : /\ log[i] \in Message
                                /\ log[i].from \in Device
                                /\ log[i].number \in Nat
                                /\ Encrypted(i) => log[i].chain \in Chain
<1>1. log \in Seq(Message) /\ Len(log) <= MaxMessages
  BY DEF TypeInv, LogTyped
<1>2. \A i \in Posted : log[i] \in Message
  BY <1>1 DEF Posted
<1> QED
  BY <1>1, <1>2, SenderKeysAssumption DEF Message, Encrypted, Posted, Id

LEMMA LogGrows ==
    ASSUME TypeInv, NEW t \in Tab, NEW key \in Position \cup {Absent}, Post(t, key)
    PROVE  /\ LogTyped' /\ LogStays
           /\ Len(log') = Len(log) + 1
           /\ Len(log') \in Posted' /\ Len(log') \in Id
           /\ Posted' = Posted \cup {Len(log')} /\ Len(log') \notin Posted
           /\ log'[Len(log')].from = DeviceOf[t]
           /\ log'[Len(log')].chain = key.chain
           /\ log'[Len(log')].number = key.number
<1> DEFINE message == [from |-> DeviceOf[t], chain |-> key.chain, number |-> key.number]
<1>1. message \in Message
  BY SenderKeysAssumption DEF Message, Position, Absent
<1>2. /\ message.from = DeviceOf[t] /\ message.chain = key.chain
      /\ message.number = key.number
  OBVIOUS
<1>3. log \in Seq(Message) /\ Len(log) < MaxMessages /\ log' = Append(log, message)
  BY DEF Post, TypeInv, LogTyped
<1> HIDE DEF message
<1>4. /\ log' \in Seq(Message) /\ Len(log') = Len(log) + 1 /\ Len(log) \in Nat
      /\ log'[Len(log')] = message
      /\ \A i \in 1 .. Len(log) : log'[i] = log[i]
  BY <1>1, <1>3
<1> QED
  BY <1>2, <1>3, <1>4, SenderKeysAssumption DEF LogTyped, LogStays, Posted, Id

LEMMA LogSame ==
    ASSUME UNCHANGED log
    PROVE  LogStays
BY DEF LogStays, Posted

LEMMA RatchetAt ==
    ASSUME KeysTyped, NEW d \in Device, NEW e \in Device, NEW p \in Position,
           ratchet' = [ratchet EXCEPT ![d][e] = p]
    PROVE  /\ ratchet' \in [Device -> [Device -> Position \cup {Absent}]]
           /\ RatchetStays
           /\ ratchet'[d][e] = p
           /\ \A f, g \in Device : f # d \/ g # e => ratchet'[f][g] = ratchet[f][g]
BY DEF KeysTyped, RatchetStays

LEMMA StoreAt ==
    ASSUME KeysTyped, NEW d \in Device, StoreMissing(d)
    PROVE  /\ ratchet' \in [Device -> [Device -> Position \cup {Absent}]]
           /\ RatchetStays
           /\ \A f, g \in Device :
                 /\ f # d => ratchet'[f][g] = ratchet[f][g]
                 /\ ratchet[f][g] # Absent => ratchet'[f][g] = ratchet[f][g]
                 /\ ratchet[f][g] = Absent =>
                        \/ ratchet'[f][g] = Absent
                        \/ /\ ratchet'[f][g].chain = serverKey[g]
                           /\ ratchet'[f][g].number = 0
                           /\ ratchet'[f][g] \in Position
<1> DEFINE row == [e \in Device |->
                      IF ratchet[d][e] = Absent /\ serverKey[e] # None
                         THEN [chain |-> serverKey[e], number |-> 0]
                         ELSE ratchet[d][e]]
<1>1. ratchet' = [ratchet EXCEPT ![d] = row]
  BY DEF StoreMissing
<1>2. ASSUME NEW e \in Device
      PROVE  /\ row[e] \in Position \cup {Absent}
             /\ ratchet[d][e] # Absent => row[e] = ratchet[d][e]
             /\ ratchet[d][e] = Absent =>
                    \/ row[e] = Absent
                    \/ /\ row[e].chain = serverKey[e] /\ row[e].number = 0
                       /\ row[e] \in Position
  <2>1. serverKey[e] # None => [chain |-> serverKey[e], number |-> 0] \in Position
    BY DEF KeysTyped, Position
  <2>2. ratchet[d][e] \in Position \cup {Absent}
    BY DEF KeysTyped
  <2> QED
    BY <2>1, <2>2
<1>3. row \in [Device -> Position \cup {Absent}]
  <2>1. row = [e \in Device |-> row[e]]
    OBVIOUS
  <2> HIDE DEF row
  <2> QED
    BY <1>2, <2>1
<1> HIDE DEF row
<1>4. /\ ratchet'[d] = row
      /\ \A f \in Device : f # d => ratchet'[f] = ratchet[f]
      /\ ratchet' \in [Device -> [Device -> Position \cup {Absent}]]
  BY <1>1, <1>3 DEF KeysTyped
<1>5. RatchetStays
  BY <1>2, <1>4, AbsentIsNoPosition DEF RatchetStays
<1> QED
  BY <1>2, <1>4, <1>5

LEMMA RatchetSame ==
    ASSUME UNCHANGED ratchet
    PROVE  RatchetStays
BY DEF RatchetStays

\* What the tabs are at stays typed as the log grows and positions are added.
LEMMA StagesStay ==
    ASSUME TypeInv, LogStays, RatchetStays, NEW t \in Tab
    PROVE  /\ send'[t] = send[t] => SendOK(t)'
           /\ load'[t] = load[t] => LoadOK(t)'
           /\ \A m \in Id : reader'[t][m] = reader[t][m] => ReadOK(t, m)'
<1> USE SenderKeysAssumption
<1>1. ASSUME send'[t] = send[t]
      PROVE  SendOK(t)'
  BY <1>1 DEF TypeInv, SendOK, LogStays, RatchetStays, Own, Encrypted
<1>2. ASSUME load'[t] = load[t]
      PROVE  LoadOK(t)'
  <2>1. LoadOK(t)
    BY DEF TypeInv
  <2>2. load[t].stage # "idle" => load[t].last \in Posted'
    BY <2>1 DEF LoadOK, LogStays
  <2>3. load[t].stage \in {"fetching", "ratcheting", "opening"} =>
            load[t].next \in Posted /\ Encrypted(load[t].next)
    BY <2>1 DEF LoadOK, Posted, LoadType
  <2>4. load[t].stage \in {"fetching", "ratcheting", "opening"} =>
            Encrypted(load[t].next)'
    BY <1>2, <2>3 DEF LogStays, Encrypted
  <2> QED
    BY <1>2, <2>1, <2>2, <2>4 DEF LoadOK
<1>3. ASSUME NEW m \in Id, reader'[t][m] = reader[t][m]
      PROVE  ReadOK(t, m)'
  BY <1>3 DEF TypeInv, ReadOK, LogStays, Encrypted
<1> QED
  BY <1>1, <1>2, <1>3

SendStep(t) == send' = [send EXCEPT ![t] = send'[t]] /\ SendOK(t)'
LoadStep(t) == load' = [load EXCEPT ![t] = load'[t]] /\ LoadOK(t)'
ReadStep(t, m) == reader' = [reader EXCEPT ![t][m] = reader'[t][m]] /\ ReadOK(t, m)'

LEMMA TypesCompose ==
    ASSUME TypeInv, KeysTyped', LogTyped', TextTyped', ViewTyped', LogStays, RatchetStays,
           NEW t \in Tab,
           UNCHANGED send \/ SendStep(t),
           UNCHANGED load \/ LoadStep(t),
           UNCHANGED reader \/ \E m \in Id : ReadStep(t, m)
    PROVE  TypeInv'
<1>1. /\ send' \in [Tab -> SendType]
      /\ \A u \in Tab : SendOK(u)'
  <2>1. CASE UNCHANGED send
    BY <2>1, StagesStay DEF TypeInv, TabsTyped
  <2>2. CASE SendStep(t)
    <3>1. send'[t] \in SendType /\ SendOK(t)' /\ send' = [send EXCEPT ![t] = send'[t]]
      BY <2>2 DEF SendStep, SendOK
    <3>2. /\ send' \in [Tab -> SendType]
          /\ \A u \in Tab : u # t => send'[u] = send[u]
      BY <3>1 DEF TypeInv, TabsTyped
    <3> QED
      BY <3>1, <3>2, StagesStay
  <2> QED
    BY <2>1, <2>2
<1>2. /\ load' \in [Tab -> LoadType]
      /\ \A u \in Tab : LoadOK(u)'
  <2>1. CASE UNCHANGED load
    BY <2>1, StagesStay DEF TypeInv, TabsTyped
  <2>2. CASE LoadStep(t)
    <3>1. load'[t] \in LoadType /\ LoadOK(t)' /\ load' = [load EXCEPT ![t] = load'[t]]
      BY <2>2 DEF LoadStep, LoadOK
    <3>2. /\ load' \in [Tab -> LoadType]
          /\ \A u \in Tab : u # t => load'[u] = load[u]
      BY <3>1 DEF TypeInv, TabsTyped
    <3> QED
      BY <3>1, <3>2, StagesStay
  <2> QED
    BY <2>1, <2>2
<1>3. /\ reader' \in [Tab -> [Id -> ReadType]]
      /\ \A u \in Tab, i \in Id : ReadOK(u, i)'
  <2>1. CASE UNCHANGED reader
    BY <2>1, StagesStay DEF TypeInv, TabsTyped
  <2>2. ASSUME NEW m \in Id, ReadStep(t, m)
        PROVE  /\ reader' \in [Tab -> [Id -> ReadType]]
               /\ \A u \in Tab, i \in Id : ReadOK(u, i)'
    <3>1. PICK record \in ReadType : /\ reader'[t][m] = record
                                     /\ reader' = [reader EXCEPT ![t][m] = record]
      BY <2>2 DEF ReadStep, ReadOK
    <3>2. /\ reader' \in [Tab -> [Id -> ReadType]]
          /\ \A u \in Tab, i \in Id : u # t \/ i # m => reader'[u][i] = reader[u][i]
      BY <3>1 DEF TypeInv, TabsTyped
    <3>3. ReadOK(t, m)'
      BY <2>2 DEF ReadStep
    <3> QED
      BY <3>2, <3>3, StagesStay
  <2> QED
    BY <2>1, <2>2
<1> QED
  BY <1>1, <1>2, <1>3 DEF TypeInv, TabsTyped

LEMMA FaultTyped ==
    ASSUME TypeInv, Fault
    PROVE  faults' \in 0 .. MaxFaults
<1>1. faults \in 0 .. MaxFaults
  BY DEF TypeInv, ViewTyped
<1> QED
  BY <1>1, SenderKeysAssumption DEF Fault

\* A message is added to the list of one tab, and to no other's.
LEMMA AddMessageAt ==
    ASSUME TypeInv, NEW t \in Tab, NEW m \in Id, NEW as \in Display,
           AddMessage(t, m, as)
    PROVE  /\ shown' \in [Tab -> [Id -> Display]]
           /\ read' \in [Device -> SUBSET Id]
           /\ \A d \in Device : \A i \in read'[d] :
                 \/ i \in read[d]
                 \/ d = DeviceOf[t] /\ i = m /\ as = "text" /\ Encrypted(m)
BY SenderKeysAssumption DEF TypeInv, ViewTyped, AddMessage

LEMMA CacheAt ==
    ASSUME TypeInv, NEW d \in Device, NEW m \in Id,
           cache' = [cache EXCEPT ![d] = @ \cup {m}]
    PROVE  /\ cache' \in [Device -> SUBSET Id]
           /\ m \in cache'[d]
           /\ \A e \in Device : cache[e] \subseteq cache'[e]
BY DEF TypeInv, TextTyped

LEMMA PutAt ==
    ASSUME TypeInv, NEW t \in Tab, NEW m \in Id, StartPut(t, m)
    PROVE  /\ puts' \in [Tab -> SUBSET Id]
           /\ m \in puts'[t]
           /\ \A u \in Tab : puts[u] \subseteq puts'[u]
BY DEF TypeInv, TextTyped, StartPut

\* The step a tab takes with the message it sends.
LEMMA SendRecordAt ==
    ASSUME TypeInv, NEW t \in Tab, NEW record,
           send' = [send EXCEPT ![t] = record]
    PROVE  send' = [send EXCEPT ![t] = send'[t]] /\ send'[t] = record
BY DEF TypeInv, TabsTyped

LEMMA SendStageAt ==
    ASSUME TypeInv, NEW t \in Tab, NEW stage,
           send' = [send EXCEPT ![t].stage = stage]
    PROVE  send' = [send EXCEPT ![t] = send'[t]] /\ send'[t] = [send[t] EXCEPT !.stage = stage]
BY DEF TypeInv, TabsTyped

LEMMA TypesSend ==
    ASSUME TypeInv, NEW t \in Tab, Send(t)
    PROVE  TypeInv'
<1> USE SenderKeysAssumption DEF texts, keyHistory, textHistory
<1>1. UNCHANGED <<reader, pushed, load>>
  BY DEF Send, SendBegins, KeyUploaded, KeySaved, OwnKeyRead, OwnKeyRatcheted,
         MessagePosted, SendDone, SendFails, PlaintextPosted, PlaintextDone
<1>2. SendOK(t) /\ send[t] \in SendType /\ DeviceOf[t] \in Device
  BY DEF TypeInv, TabsTyped
<1>3. KeysTyped /\ LogTyped /\ TextTyped /\ ViewTyped
  BY DEF TypeInv
<1>4. ASSUME UNCHANGED <<serverKey, keyHistory, ratchet>>
      PROVE  KeysTyped' /\ RatchetStays
  BY <1>3, <1>4, RatchetSame DEF KeysTyped
<1>5. ASSUME UNCHANGED log
      PROVE  LogTyped' /\ LogStays
  BY <1>3, <1>5, LogSame DEF LogTyped
<1>6. ASSUME UNCHANGED <<texts, shown, textHistory, faults>>
      PROVE  TextTyped' /\ ViewTyped'
  BY <1>1, <1>3, <1>6 DEF TextTyped, ViewTyped
<1>7. IdleSend \in SendType /\ IdleSend.stage = "idle"
  BY DEF IdleSend, SendType
<1>8. CASE SendBegins(t)
  <2>1. /\ UNCHANGED <<serverKey, replaced, log, ratchet, texts, shown, textHistory,
                        faults>>
        /\ overlapped' \in SUBSET Device
    BY <1>2, <1>3, <1>8 DEF SendBegins, store, KeysTyped
  <2>2. ASSUME UNCHANGED chains, Own(t) # Absent, NEW next,
               next = [IdleSend EXCEPT !.stage = "reading"],
               send' = [send EXCEPT ![t] = next]
        PROVE  TypeInv'
    <3>1. next \in SendType /\ next.stage = "reading"
      BY <2>2 DEF IdleSend, SendType
    <3>2. send' = [send EXCEPT ![t] = send'[t]] /\ send'[t] = next
      BY <2>2, SendRecordAt
    <3>3. Own(t)' = Own(t) /\ Own(t) \in Position
      BY <1>2, <2>1, <2>2 DEF Own, TypeInv, KeysTyped
    <3>4. SendStep(t)
      BY <3>1, <3>2, <3>3 DEF SendStep, SendOK
    <3>5. KeysTyped' /\ RatchetStays
      BY <1>3, <2>1, <2>2, RatchetSame DEF KeysTyped
    <3> QED
      BY <1>1, <1>5, <1>6, <2>1, <3>4, <3>5, TypesCompose
  <2>3. ASSUME NEW c \in Chain \ chains, chains' = chains \cup {c}, NEW next,
               next = [IdleSend EXCEPT !.stage = "uploading",
                                       !.key = [chain |-> c, number |-> 0]],
               send' = [send EXCEPT ![t] = next]
        PROVE  TypeInv'
    <3>1. [chain |-> c, number |-> 0] \in Position
      BY DEF Position
    <3>2. next \in SendType /\ next.stage = "uploading" /\ next.key \in Position
      <4>1. next = [stage |-> "uploading", key |-> [chain |-> c, number |-> 0], id |-> 0]
        BY <2>3 DEF IdleSend
      <4> QED
        BY <3>1, <4>1 DEF SendType
    <3>3. send' = [send EXCEPT ![t] = send'[t]] /\ send'[t] = next
      BY <2>3, SendRecordAt
    <3>4. SendStep(t)
      BY <3>2, <3>3 DEF SendStep, SendOK
    <3>5. KeysTyped' /\ RatchetStays
      BY <1>3, <2>1, <2>3, RatchetSame DEF KeysTyped
    <3> QED
      BY <1>1, <1>5, <1>6, <2>1, <3>4, <3>5, TypesCompose
  <2> QED
    BY <1>8, <2>2, <2>3 DEF SendBegins
<1>9. CASE KeyUploaded(t)
  <2>1. UNCHANGED <<log, ratchet, texts, shown, textHistory, faults>>
    BY <1>9 DEF KeyUploaded, store
  <2>2. send[t].key \in Position
    BY <1>2, <1>9 DEF KeyUploaded, SendOK
  <2>3. KeysTyped'
    <3>1. send[t].key.chain \in Chain
      BY <2>2 DEF Position
    <3> QED
      BY <1>2, <1>3, <1>9, <2>1, <3>1 DEF KeyUploaded, KeysTyped
  <2>4. /\ send' = [send EXCEPT ![t] = send'[t]]
        /\ send'[t] = [send[t] EXCEPT !.stage = "uploaded"]
    BY <1>9, SendStageAt DEF KeyUploaded
  <2>5. SendStep(t)
    BY <1>2, <2>2, <2>4 DEF SendStep, SendOK, SendType
  <2> QED
    BY <1>1, <1>5, <1>6, <2>1, <2>3, <2>5, RatchetSame, TypesCompose
<1>10. CASE KeySaved(t)
  <2>1. UNCHANGED <<serverKey, log, keyHistory, texts, shown, textHistory, faults>>
    BY <1>10 DEF KeySaved, history
  <2>2. send[t].key \in Position
    BY <1>2, <1>10 DEF KeySaved, SendOK
  <2>3. /\ ratchet' \in [Device -> [Device -> Position \cup {Absent}]]
        /\ RatchetStays
        /\ Own(t)' = send[t].key
    BY <1>2, <1>3, <1>10, <2>2, RatchetAt DEF KeySaved, Own
  <2>4. /\ send' = [send EXCEPT ![t] = send'[t]]
        /\ send'[t] = [send[t] EXCEPT !.stage = "reading"]
    BY <1>10, SendStageAt DEF KeySaved
  <2>5. SendStep(t)
    BY <1>2, <2>2, <2>3, <2>4 DEF SendStep, SendOK, SendType
  <2>6. KeysTyped'
    BY <1>3, <2>1, <2>3 DEF KeysTyped
  <2> QED
    BY <1>1, <1>5, <1>6, <2>1, <2>3, <2>5, <2>6, TypesCompose
<1>11. CASE OwnKeyRead(t)
  <2>1. UNCHANGED <<serverKey, ratchet, log, keyHistory, texts, shown, textHistory, faults>>
    BY <1>11 DEF OwnKeyRead, history, store
  <2>2. Own(t) \in Position /\ Own(t)' = Own(t)
    BY <1>2, <1>11, <2>1 DEF OwnKeyRead, SendOK, Own
  <2>3. /\ send' = [send EXCEPT ![t] = send'[t]]
        /\ send'[t] = [send[t] EXCEPT !.stage = "encrypting", !.key = Own(t)]
    BY <1>11 DEF OwnKeyRead, TypeInv, TabsTyped
  <2>4. SendStep(t)
    BY <1>2, <2>2, <2>3 DEF SendStep, SendOK, SendType
  <2> QED
    BY <1>1, <1>4, <1>5, <1>6, <2>1, <2>4, TypesCompose
<1>12. CASE OwnKeyRatcheted(t)
  <2>1. UNCHANGED <<serverKey, log, keyHistory, texts, shown, textHistory, faults>>
    BY <1>12 DEF OwnKeyRatcheted, history
  <2>2. PICK next : /\ next = [send[t].key EXCEPT !.number = @ + 1]
                    /\ ratchet' = [ratchet EXCEPT ![DeviceOf[t]][DeviceOf[t]] = next]
                    /\ send' = [send EXCEPT ![t].stage = "posting", ![t].key = next]
    BY <1>12 DEF OwnKeyRatcheted
  <2>3. next \in Position
    BY <1>2, <1>12, <2>2 DEF OwnKeyRatcheted, SendOK, Position
  <2>4. /\ ratchet' \in [Device -> [Device -> Position \cup {Absent}]]
        /\ RatchetStays
        /\ Own(t)' = next
    BY ZenonT(60), <1>2, <1>3, <2>2, <2>3, RatchetAt DEF Own
  <2>5. /\ send' = [send EXCEPT ![t] = send'[t]]
        /\ send'[t] = [send[t] EXCEPT !.stage = "posting", !.key = next]
    BY <2>2 DEF TypeInv, TabsTyped
  <2>6. SendStep(t)
    BY <1>2, <2>3, <2>4, <2>5 DEF SendStep, SendOK, SendType
  <2>7. KeysTyped'
    BY <1>3, <2>1, <2>4 DEF KeysTyped
  <2> QED
    BY <1>1, <1>5, <1>6, <2>1, <2>4, <2>6, <2>7, TypesCompose
<1>13. CASE MessagePosted(t)
  <2>1. UNCHANGED <<serverKey, keyHistory, ratchet, texts, shown, textHistory, faults>>
    BY <1>13 DEF MessagePosted, history, store
  <2>2. send[t].key \in Position \cup {Absent} /\ Post(t, send[t].key)
    BY <1>2, <1>13 DEF MessagePosted, SendType
  <2>3. /\ LogTyped' /\ LogStays
        /\ Len(log') \in Posted' /\ Len(log') \in Id
    BY <2>2, LogGrows
  <2>4. /\ send' = [send EXCEPT ![t] = send'[t]]
        /\ send'[t] = [send[t] EXCEPT !.stage = "posted", !.id = Len(log')]
    <3>1. PICK id : /\ id = Len(log')
                    /\ send' = [send EXCEPT ![t].stage = "posted", ![t].id = id]
      BY <1>13 DEF MessagePosted
    <3> QED
      BY <3>1 DEF TypeInv, TabsTyped
  <2>5. SendStep(t)
    <3>1. PICK id : id = Len(log') /\ id \in Posted' /\ id \in 0 .. MaxMessages
      BY <2>3 DEF Id
    <3>2. send'[t] = [send[t] EXCEPT !.stage = "posted", !.id = id]
      BY <2>4, <3>1
    <3>3. /\ send'[t] \in SendType /\ send'[t].stage = "posted"
          /\ send'[t].id = id
      BY <1>2, <3>1, <3>2 DEF SendType
    <3> QED
      BY <2>4, <3>1, <3>3 DEF SendStep, SendOK
  <2> QED
    BY <1>1, <1>4, <1>6, <2>1, <2>3, <2>5, TypesCompose
<1>14. ASSUME send' = [send EXCEPT ![t] = IdleSend]
       PROVE  SendStep(t)
  <2>1. send' = [send EXCEPT ![t] = send'[t]] /\ send'[t] = IdleSend
    BY <1>14, SendRecordAt
  <2> QED
    BY <1>7, <2>1 DEF SendStep, SendOK
<1>15. CASE SendDone(t) \/ PlaintextDone(t)
  <2>1. UNCHANGED <<serverKey, log, ratchet, cache, keyHistory, unkept, faults>>
    BY <1>15 DEF SendDone, PlaintextDone, store
  <2>2. /\ send[t].id \in Id
        /\ AddMessage(t, send[t].id, "text")
        /\ UNCHANGED puts \/ StartPut(t, send[t].id)
    BY <1>2, <1>15, PostedAre DEF SendDone, PlaintextDone, SendOK, store
  <2>3. /\ shown' \in [Tab -> [Id -> Display]]
        /\ read' \in [Device -> SUBSET Id]
    BY <2>2, AddMessageAt DEF Display
  <2>4. TextTyped'
    BY <1>3, <2>1, <2>2, PutAt DEF TextTyped
  <2>5. TextTyped' /\ ViewTyped'
    BY <1>1, <1>3, <2>1, <2>3, <2>4 DEF ViewTyped
  <2>6. SendStep(t)
    BY <1>14, <1>15 DEF SendDone, PlaintextDone
  <2> QED
    BY <1>1, <1>4, <1>5, <2>1, <2>5, <2>6, TypesCompose
<1>16. CASE SendFails(t)
  <2>1. UNCHANGED <<serverKey, ratchet, log, keyHistory, texts, shown, textHistory>>
    BY <1>16 DEF SendFails, store
  <2>2. TextTyped' /\ ViewTyped'
    BY <1>1, <1>3, <1>16, <2>1, FaultTyped DEF SendFails, TextTyped, ViewTyped
  <2>3. SendStep(t)
    <3>1. CASE send' = [send EXCEPT ![t] = IdleSend]
      BY <1>14, <3>1
    <3>2. ASSUME NEW next, next = [IdleSend EXCEPT !.stage = "fallback"],
                 send' = [send EXCEPT ![t] = next]
          PROVE  SendStep(t)
      <4>1. next \in SendType /\ next.stage = "fallback"
        BY <3>2 DEF IdleSend, SendType
      <4>2. send' = [send EXCEPT ![t] = send'[t]] /\ send'[t] = next
        BY <3>2, SendRecordAt
      <4> QED
        BY <4>1, <4>2 DEF SendStep, SendOK
    <3> QED
      BY <1>16, <3>1, <3>2 DEF SendFails
  <2> QED
    BY <1>1, <1>4, <1>5, <2>1, <2>2, <2>3, TypesCompose
<1>17. CASE PlaintextPosted(t)
  <2>1. UNCHANGED <<serverKey, keyHistory, ratchet, texts, shown, textHistory, faults>>
    BY <1>17 DEF PlaintextPosted, history, store
  <2>2. /\ LogTyped' /\ LogStays
        /\ Len(log') \in Posted' /\ Len(log') \in Id
        /\ log'[Len(log')].chain = None
    BY <1>17, LogGrows DEF PlaintextPosted, Absent
  <2>3. PICK id : /\ id = Len(log')
                  /\ send' = [send EXCEPT ![t].stage = "sent", ![t].id = id]
    BY <1>17 DEF PlaintextPosted
  <2>4. /\ send' = [send EXCEPT ![t] = send'[t]]
        /\ send'[t] = [send[t] EXCEPT !.stage = "sent", !.id = id]
    BY <2>3 DEF TypeInv, TabsTyped
  <2>5. id \in Posted' /\ id \in 0 .. MaxMessages /\ log'[id].chain = None
    BY <2>2, <2>3 DEF Id
  <2>6. /\ send'[t] \in SendType /\ send'[t].stage = "sent"
        /\ send'[t].id = id
    BY <1>2, <2>4, <2>5 DEF SendType
  <2>7. SendStep(t)
    BY <2>4, <2>5, <2>6 DEF SendStep, SendOK, Encrypted
  <2> QED
    BY <1>1, <1>4, <1>6, <2>1, <2>2, <2>7, TypesCompose
<1> QED
  BY <1>8, <1>9, <1>10, <1>11, <1>12, <1>13, <1>15, <1>16, <1>17 DEF Send

\* The step a tab takes with a message pushed to it.
LEMMA ReadRecordAt ==
    ASSUME TypeInv, NEW t \in Tab, NEW m \in Id, NEW record,
           reader' = [reader EXCEPT ![t][m] = record]
    PROVE  reader' = [reader EXCEPT ![t][m] = reader'[t][m]] /\ reader'[t][m] = record
BY DEF TypeInv, TabsTyped

LEMMA ReadIdle ==
    ASSUME TypeInv, NEW t \in Tab, NEW m \in Id,
           reader' = [reader EXCEPT ![t][m] = IdleRead]
    PROVE  ReadStep(t, m)
<1>1. IdleRead \in ReadType /\ IdleRead.stage = "idle"
  BY DEF IdleRead, ReadType
<1> QED
  BY <1>1, ReadRecordAt DEF ReadStep, ReadOK

\* The stage of decrypting a pushed message that it is at next.
LEMMA PushedTo ==
    ASSUME TypeInv, LogStays, NEW t \in Tab, NEW m \in Posted, Encrypted(m),
           NEW stage \in {"fetching", "ratcheting", "opening", "opened"},
           NEW key \in Position \cup {Absent}, PushAt(t, m, stage, key),
           stage \in {"ratcheting", "opening"} => key \in Position
    PROVE  ReadStep(t, m)
<1>1. m \in Id /\ m \in Posted' /\ Encrypted(m)'
  BY PostedAre DEF LogStays, Encrypted
<1>2. PICK record : /\ record = [stage |-> stage, key |-> key]
                    /\ reader' = [reader EXCEPT ![t][m] = record]
  BY DEF PushAt
<1>3. record \in ReadType /\ record.stage = stage /\ record.key = key
  BY <1>2 DEF ReadType
<1>4. reader'[t][m] = record
  BY <1>1, <1>2 DEF TypeInv, TabsTyped
<1>5. reader' = [reader EXCEPT ![t][m] = reader'[t][m]]
  BY <1>2, <1>4
<1> QED
  BY <1>1, <1>3, <1>4, <1>5 DEF ReadStep, ReadOK

\* The views after a pushed message is added or not.
LEMMA ViewAdded ==
    ASSUME TypeInv, NEW t \in Tab, NEW m \in Id, UNCHANGED pushed,
           UNCHANGED faults \/ Fault,
           UNCHANGED <<shown, read>> \/ \E as \in Display : AddMessage(t, m, as)
    PROVE  ViewTyped'
<1>1. shown' \in [Tab -> [Id -> Display]] /\ read' \in [Device -> SUBSET Id]
  BY AddMessageAt DEF TypeInv, ViewTyped
<1> QED
  BY <1>1, FaultTyped DEF TypeInv, ViewTyped

\* What comes of trying a pushed message: the list of the tab has it, or its promise
\* ratchets.
LEMMA TriedAt ==
    ASSUME TypeInv, LogStays, NEW t \in Tab, NEW m \in Posted, Encrypted(m),
           NEW key \in Position \cup {Absent}, PushTried(t, m, key)
    PROVE  /\ ReadStep(t, m)
           /\ UNCHANGED <<shown, read>> \/ AddMessage(t, m, "unreadable")
<1>1. m \in Id /\ key \in Position
  BY PostedAre DEF PushTried
<1>2. CASE PushAt(t, m, "ratcheting", key) /\ UNCHANGED <<shown, read>>
  BY <1>1, <1>2, PushedTo
<1>3. CASE PushAdded(t, m, "unreadable")
  BY <1>1, <1>3, ReadIdle DEF PushAdded
<1> QED
  BY <1>2, <1>3 DEF PushTried

LEMMA TypesPushed ==
    ASSUME TypeInv, NEW t \in Tab, NEW m \in Id, Pushed(t, m)
    PROVE  TypeInv'
<1> USE SenderKeysAssumption DEF texts, keyHistory
<1>1. /\ UNCHANGED <<serverKey, log, ratchet, texts, send, load>>
      /\ UNCHANGED <<keyHistory, unkept, faults>>
      /\ m \in Posted /\ pushed' = [pushed EXCEPT ![t] = m]
  BY DEF Pushed, store
<1>2. KeysTyped' /\ LogTyped' /\ TextTyped' /\ LogStays /\ RatchetStays
  BY <1>1, LogSame, RatchetSame DEF TypeInv, KeysTyped, LogTyped, TextTyped
<1>3. ratchet[DeviceOf[t]][log[m].from] \in Position \cup {Absent}
  BY <1>1, PostedAre DEF TypeInv, KeysTyped
<1>4. pushed' \in [Tab -> 0 .. MaxMessages]
  BY <1>1 DEF TypeInv, ViewTyped, Id
<1>5. ASSUME UNCHANGED <<shown, read>> \/ \E as \in Display : AddMessage(t, m, as)
      PROVE  ViewTyped'
  <2>1. shown' \in [Tab -> [Id -> Display]] /\ read' \in [Device -> SUBSET Id]
    BY <1>5, AddMessageAt DEF TypeInv, ViewTyped
  <2> QED
    BY <1>1, <1>4, <2>1 DEF TypeInv, ViewTyped
<1>6. CASE PushAdded(t, m, "text")
  <2>1. ReadStep(t, m) /\ AddMessage(t, m, "text")
    BY <1>6, ReadIdle DEF PushAdded
  <2> QED
    BY <1>1, <1>2, <1>5, <2>1, TypesCompose DEF Display
<1>7. CASE Encrypted(m) /\ PushTried(t, m, ratchet[DeviceOf[t]][log[m].from])
  <2>1. /\ ReadStep(t, m)
        /\ UNCHANGED <<shown, read>> \/ AddMessage(t, m, "unreadable")
    BY <1>1, <1>2, <1>3, <1>7, TriedAt
  <2> QED
    BY <1>1, <1>2, <1>5, <2>1, TypesCompose DEF Display
<1>8. CASE /\ Encrypted(m) /\ UNCHANGED <<shown, read>>
           /\ PushAt(t, m, "fetching", Absent)
  <2>1. ReadStep(t, m)
    BY <1>1, <1>2, <1>8, PushedTo
  <2> QED
    BY <1>1, <1>2, <1>5, <1>8, <2>1, TypesCompose
<1> QED
  BY <1>6, <1>7, <1>8 DEF Pushed

\* Storing the server's keys keeps the types.
LEMMA StoreTyped ==
    ASSUME TypeInv, NEW d \in Device, StoreMissing(d),
           UNCHANGED <<serverKey, keyHistory>>
    PROVE  KeysTyped' /\ RatchetStays
<1>1. /\ ratchet' \in [Device -> [Device -> Position \cup {Absent}]]
      /\ RatchetStays
  BY StoreAt DEF TypeInv
<1> QED
  BY <1>1 DEF TypeInv, KeysTyped, keyHistory

LEMMA TypesFetched ==
    ASSUME TypeInv, NEW t \in Tab, NEW m \in Id, PushFetched(t, m)
    PROVE  TypeInv'
<1> USE SenderKeysAssumption DEF texts, keyHistory
<1>1. /\ UNCHANGED <<serverKey, log, texts, send, pushed, load, keyHistory, unkept>>
      /\ m \in Posted /\ Encrypted(m)
  BY DEF PushFetched, TypeInv, ReadOK
<1>2. LogTyped' /\ LogStays /\ TextTyped'
  BY <1>1, LogSame DEF TypeInv, LogTyped, TextTyped
<1>3. log[m].from \in Device /\ DeviceOf[t] \in Device
  BY <1>1, PostedAre
<1>4. ASSUME UNCHANGED <<shown, read>> \/ AddMessage(t, m, "unreadable"),
             UNCHANGED faults \/ Fault
      PROVE  ViewTyped'
  BY <1>1, <1>4, ViewAdded DEF Display
<1>5. CASE /\ StoreMissing(DeviceOf[t]) /\ UNCHANGED faults
           /\ PushTried(t, m, ratchet'[DeviceOf[t]][log[m].from])
  <2>1. KeysTyped' /\ RatchetStays
    BY <1>1, <1>3, <1>5, StoreTyped
  <2>2. PICK key \in Position \cup {Absent} : key = ratchet'[DeviceOf[t]][log[m].from]
    BY <1>3, <2>1 DEF KeysTyped
  <2>3. ReadStep(t, m) /\ (UNCHANGED <<shown, read>> \/ AddMessage(t, m, "unreadable"))
    BY <1>1, <1>2, <1>5, <2>2, TriedAt
  <2> QED
    BY <1>1, <1>2, <1>4, <1>5, <2>1, <2>3, TypesCompose
<1>6. CASE Fault /\ PushAdded(t, m, "unreadable") /\ UNCHANGED ratchet
  <2>1. KeysTyped' /\ RatchetStays
    BY <1>1, <1>6, RatchetSame DEF TypeInv, KeysTyped
  <2>2. ReadStep(t, m) /\ AddMessage(t, m, "unreadable")
    BY <1>6, ReadIdle DEF PushAdded
  <2> QED
    BY <1>1, <1>2, <1>4, <1>6, <2>1, <2>2, TypesCompose
<1> QED
  BY <1>5, <1>6 DEF PushFetched

\* The position that is saved before a ciphertext is tried.
LEMMA SaveAt ==
    ASSUME TypeInv, NEW d \in Device, NEW m \in Posted, NEW key \in Position,
           SavePosition(d, key, m)
    PROVE  /\ ratchet' \in [Device -> [Device -> Position \cup {Absent}]]
           /\ RatchetStays
           /\ ratchet'[d][log[m].from].chain = key.chain
           /\ ratchet'[d][log[m].from].number = log[m].number
           /\ \A f, g \in Device :
                 f # d \/ g # log[m].from => ratchet'[f][g] = ratchet[f][g]
<1>1. PICK e \in Device : e = log[m].from
  BY PostedAre
<1>2. PICK p \in Position :
          /\ p.chain = key.chain /\ p.number = log[m].number
          /\ ratchet' = [ratchet EXCEPT ![d][e] = p]
  <2> DEFINE p == [chain |-> key.chain, number |-> log[m].number]
  <2>1. p \in Position /\ p.chain = key.chain /\ p.number = log[m].number
    BY PostedAre DEF Position
  <2>2. ratchet' = [ratchet EXCEPT ![d][e] = p]
    BY <1>1 DEF SavePosition
  <2> HIDE DEF p
  <2> QED
    BY <2>1, <2>2
<1>3. KeysTyped
  BY DEF TypeInv
<1>4. /\ ratchet' \in [Device -> [Device -> Position \cup {Absent}]]
      /\ RatchetStays
      /\ ratchet'[d][e] = p
      /\ \A f, g \in Device : f # d \/ g # e => ratchet'[f][g] = ratchet[f][g]
  BY ZenonT(60), <1>2, <1>3, RatchetAt
<1> QED
  BY <1>1, <1>2, <1>4

LEMMA TypesRatcheted ==
    ASSUME TypeInv, NEW t \in Tab, NEW m \in Id, PushRatcheted(t, m)
    PROVE  TypeInv'
<1> USE SenderKeysAssumption DEF texts, keyHistory, textHistory
<1>1. PICK key \in Position : key = reader[t][m].key
  BY DEF PushRatcheted, TypeInv, ReadOK
<1>2. /\ UNCHANGED <<serverKey, log, texts, shown, send, pushed, load>>
      /\ UNCHANGED <<keyHistory, textHistory, faults>>
      /\ m \in Posted /\ Encrypted(m)
      /\ SavePosition(DeviceOf[t], key, m)
      /\ PushAt(t, m, "opening", key)
  BY <1>1 DEF PushRatcheted, TypeInv, ReadOK, history
<1>3. LogTyped' /\ LogStays /\ TextTyped' /\ ViewTyped'
  BY <1>2, LogSame DEF TypeInv, LogTyped, TextTyped, ViewTyped
<1>4. /\ ratchet' \in [Device -> [Device -> Position \cup {Absent}]]
      /\ RatchetStays
  BY <1>2, SaveAt
<1>5. KeysTyped'
  BY <1>2, <1>4 DEF TypeInv, KeysTyped
<1>6. ReadStep(t, m)
  BY <1>2, <1>3, PushedTo
<1> QED
  BY <1>2, <1>3, <1>4, <1>5, <1>6, TypesCompose

LEMMA TypesOpened ==
    ASSUME TypeInv, NEW t \in Tab, NEW m \in Id, PushOpened(t, m) \/ PushShown(t, m)
    PROVE  TypeInv'
<1> USE SenderKeysAssumption DEF texts, keyHistory
<1>1. /\ UNCHANGED <<serverKey, log, ratchet, cache, send, pushed, load>>
      /\ UNCHANGED <<keyHistory, unkept, faults>>
      /\ m \in Posted /\ Encrypted(m)
  BY DEF PushOpened, PushShown, TypeInv, ReadOK, store
<1>2. KeysTyped' /\ LogTyped' /\ LogStays /\ RatchetStays
  BY <1>1, LogSame, RatchetSame DEF TypeInv, KeysTyped, LogTyped
<1>3. CASE PushAt(t, m, "opened", Absent) /\ StartPut(t, m) /\ UNCHANGED <<shown, read>>
  <2>1. ReadStep(t, m)
    BY <1>1, <1>2, <1>3, PushedTo
  <2>2. TextTyped' /\ ViewTyped'
    BY <1>1, <1>3, PutAt DEF TypeInv, TextTyped, ViewTyped
  <2> QED
    BY <1>1, <1>2, <2>1, <2>2, TypesCompose
<1>4. ASSUME NEW as \in Display, PushAdded(t, m, as), UNCHANGED puts
      PROVE  TypeInv'
  <2>1. ReadStep(t, m) /\ AddMessage(t, m, as)
    BY <1>4, ReadIdle DEF PushAdded
  <2>2. TextTyped' /\ ViewTyped'
    BY <1>1, <1>4, <2>1, ViewAdded DEF TypeInv, TextTyped
  <2> QED
    BY <1>1, <1>2, <2>1, <2>2, TypesCompose
<1> QED
  BY <1>3, <1>4 DEF PushOpened, PushShown, store, Display

LEMMA TypesKept ==
    ASSUME TypeInv, NEW t \in Tab, KeepText(t)
    PROVE  TypeInv'
<1> USE SenderKeysAssumption DEF keyHistory, textHistory
<1>1. PICK m \in Id : PutLands(t, m) \/ PutFails(t, m)
  BY DEF KeepText
<1>2. /\ UNCHANGED <<serverKey, log, ratchet, shown, send, reader, pushed, load>>
      /\ UNCHANGED <<keyHistory, read>>
      /\ UNCHANGED faults \/ Fault
  BY <1>1 DEF PutLands, PutFails, history
<1>3. KeysTyped' /\ LogTyped' /\ LogStays /\ RatchetStays
  BY <1>2, LogSame, RatchetSame DEF TypeInv, KeysTyped, LogTyped
<1>4. ViewTyped'
  BY <1>2, FaultTyped DEF TypeInv, ViewTyped
<1>5. TextTyped'
  BY <1>1 DEF PutLands, PutFails, TypeInv, TextTyped, history
<1> QED
  BY <1>2, <1>3, <1>4, <1>5, TypesCompose

\* The step a tab takes with the history it loads.
LEMMA LoadRecordAt ==
    ASSUME TypeInv, NEW t \in Tab, NEW record, load' = [load EXCEPT ![t] = record]
    PROVE  load' = [load EXCEPT ![t] = load'[t]] /\ load'[t] = record
BY DEF TypeInv, TabsTyped

LEMMA LoadIdle ==
    ASSUME TypeInv, NEW t \in Tab, load' = [load EXCEPT ![t] = IdleLoad]
    PROVE  LoadStep(t)
<1>1. IdleLoad \in LoadType /\ IdleLoad.stage = "idle"
  BY SenderKeysAssumption DEF IdleLoad, LoadType, Display
<1>2. load' = [load EXCEPT ![t] = load'[t]] /\ load'[t] = IdleLoad
  BY LoadRecordAt
<1> QED
  BY <1>1, <1>2 DEF LoadStep, LoadOK

\* The message being looked at is one of the log.
LEMMA LookedAt ==
    ASSUME TypeInv, NEW t \in Tab, load[t].stage # "idle", load[t].next <= load[t].last
    PROVE  /\ load[t].next \in Posted /\ load[t].next \in Id
           /\ load[t].next \in Nat /\ load[t].last \in Nat
           /\ load[t].last \in Posted
           /\ load[t].next + 1 \in 1 .. load[t].last + 1
           /\ load[t].next + 1 \in 0 .. MaxMessages + 1
           /\ log[load[t].next].from \in Device
<1> USE SenderKeysAssumption
<1>1. load[t].next \in 1 .. load[t].last + 1 /\ load[t].last \in Posted
  BY DEF TypeInv, LoadOK
<1>2. Len(log) \in 0 .. MaxMessages
  BY PostedAre
<1>3. load[t].next \in Posted
  BY <1>1, <1>2 DEF Posted
<1> QED
  BY <1>1, <1>2, <1>3, PostedAre DEF Posted, Id

LEMMA ResultAt ==
    ASSUME TypeInv, LogStays, NEW t \in Tab, NEW as \in Display, Result(t, as),
           load[t].stage # "idle", load[t].next <= load[t].last
    PROVE  /\ LoadStep(t)
           /\ load'[t].stage = "lookup"
           /\ load'[t].result = [load[t].result EXCEPT ![load[t].next] = as]
           /\ \A u \in Tab : u # t => load'[u] = load[u]
<1> USE SenderKeysAssumption
<1>1. PICK m : m = load[t].next
  OBVIOUS
<1>2. /\ m \in Id /\ m + 1 \in 1 .. load[t].last + 1
      /\ m + 1 \in 0 .. MaxMessages + 1
      /\ load[t].last \in Posted
  BY <1>1, LookedAt
<1>3. load[t] \in LoadType /\ load \in [Tab -> LoadType]
  BY DEF TypeInv, TabsTyped
<1>4. /\ load' = [load EXCEPT ![t] = load'[t]]
      /\ load'[t] = [stage |-> "lookup", key |-> Absent, next |-> load[t].next + 1,
                     last |-> load[t].last,
                     result |-> [load[t].result EXCEPT ![load[t].next] = as]]
  BY <1>3 DEF Result
<1>5. PICK record : /\ record.stage = "lookup" /\ record.next = m + 1
                    /\ record.last = load[t].last /\ record.key = Absent
                    /\ record.result = [load[t].result EXCEPT ![m] = as]
                    /\ record = [stage |-> record.stage, key |-> record.key,
                                 next |-> record.next, last |-> record.last,
                                 result |-> record.result]
                    /\ load'[t] = record
  BY <1>1, <1>3, <1>4 DEF LoadType
<1>6. record.result \in [Id -> Display] /\ load[t].last \in 0 .. MaxMessages
  BY ZenonT(60), <1>2, <1>3, <1>5 DEF LoadType
<1>7. record \in LoadType
  BY <1>2, <1>5, <1>6 DEF LoadType
<1>8. load' = [load EXCEPT ![t] = load'[t]] /\ load'[t] = record
  BY <1>4, <1>5
<1>9. record.last \in Posted'
  BY <1>2, <1>5 DEF LogStays
<1>10. LoadStep(t)
  BY <1>2, <1>5, <1>7, <1>8, <1>9 DEF LoadStep, LoadOK
<1>11. \A u \in Tab : u # t => load'[u] = load[u]
  BY <1>3, <1>8
<1> QED
  BY <1>1, <1>5, <1>8, <1>10, <1>11

\* A step to a stage of the same message.
LEMMA LoadStageAt ==
    ASSUME TypeInv, LogStays, NEW t \in Tab, load[t].stage # "idle",
           NEW stage \in {"lookup", "fetching", "ratcheting", "opening"},
           NEW key \in Position \cup {Absent},
           \/ load' = [load EXCEPT ![t].stage = stage] /\ key = load[t].key
           \/ load' = [load EXCEPT ![t].stage = stage, ![t].key = key],
           stage \in {"fetching", "ratcheting", "opening"} =>
               load[t].next <= load[t].last /\ Encrypted(load[t].next),
           stage \in {"ratcheting", "opening"} => key \in Position
    PROVE  /\ LoadStep(t)
           /\ load'[t].stage = stage /\ load'[t].key = key
           /\ load'[t].next = load[t].next /\ load'[t].result = load[t].result
           /\ \A u \in Tab : u # t => load'[u] = load[u]
<1> USE SenderKeysAssumption
<1>1. load \in [Tab -> LoadType]
  BY DEF TypeInv, TabsTyped
<1>2. /\ load'[t].stage = stage /\ load'[t].key = key
      /\ load'[t].next = load[t].next /\ load'[t].last = load[t].last
      /\ load'[t].result = load[t].result
      /\ \A u \in Tab : u # t => load'[u] = load[u]
      /\ load' = [load EXCEPT ![t] = load'[t]]
  BY <1>1 DEF LoadType
<1>3. load'[t] \in LoadType
  BY <1>1 DEF LoadType
<1>4. /\ load[t].next \in 1 .. load[t].last + 1
      /\ load[t].last \in Posted /\ load[t].last \in Posted'
  BY DEF TypeInv, LoadOK, LogStays
<1>5. stage \in {"fetching", "ratcheting", "opening"} =>
          load[t].next \in Posted /\ log'[load[t].next] = log[load[t].next]
  BY LookedAt DEF LogStays
<1>6. LoadOK(t)'
  BY <1>2, <1>3, <1>4, <1>5 DEF LoadOK, Encrypted
<1> QED
  BY <1>2, <1>6 DEF LoadStep

\* What comes of trying a message of the history.
LEMMA HistoryTriedAt ==
    ASSUME TypeInv, LogStays, NEW t \in Tab, load[t].stage # "idle",
           load[t].next <= load[t].last, Encrypted(load[t].next),
           NEW key \in Position \cup {Absent}, HistoryTried(t, load[t].next, key)
    PROVE  LoadStep(t)
<1>1. key # Absent /\ key \in Position
  BY DEF HistoryTried
<1>2. CASE load' = [load EXCEPT ![t].stage = "ratcheting", ![t].key = key]
  BY <1>1, <1>2, LoadStageAt
<1>3. CASE Result(t, "unreadable")
  BY <1>3, ResultAt DEF Display
<1> QED
  BY <1>2, <1>3 DEF HistoryTried

LEMMA TypesBrowse ==
    ASSUME TypeInv, NEW t \in Tab, Browse(t), ~ Reload(t)
    PROVE  TypeInv'
<1> USE SenderKeysAssumption DEF texts, keyHistory, textHistory
<1>1. UNCHANGED <<serverKey, log, puts, send, reader, pushed, keyHistory, unkept>>
  BY DEF Browse, HistoryRequested, HistoryKeys, HistoryLookup, HistoryFetched,
         HistoryRatcheted, HistoryOpened, HistoryShown, history, store
<1>2. LogTyped' /\ LogStays
  BY <1>1, LogSame DEF TypeInv, LogTyped
<1>3. DeviceOf[t] \in Device /\ KeysTyped /\ TextTyped /\ ViewTyped /\ load[t] \in LoadType
  BY DEF TypeInv, TabsTyped
<1>4. ASSUME UNCHANGED ratchet
      PROVE  KeysTyped' /\ RatchetStays
  BY <1>1, <1>3, <1>4, RatchetSame DEF KeysTyped
<1>5. ASSUME UNCHANGED <<cache, shown, read>>, UNCHANGED faults \/ Fault
      PROVE  TextTyped' /\ ViewTyped'
  BY <1>1, <1>3, <1>5, FaultTyped DEF TextTyped, ViewTyped
<1>6. CASE HistoryRequested(t)
  <2>1. PICK record : /\ record = [IdleLoad EXCEPT !.stage = "keys", !.next = 1,
                                                   !.last = Len(log)]
                      /\ load' = [load EXCEPT ![t] = record]
    BY <1>6 DEF HistoryRequested
  <2>2. /\ record.stage = "keys" /\ record.next = 1 /\ record.last = Len(log)
        /\ record \in LoadType
    <3>1. record = [stage |-> "keys", key |-> Absent, next |-> 1, last |-> Len(log),
                    result |-> [m \in Id |-> "absent"]]
      BY <2>1 DEF IdleLoad
    <3>2. [m \in Id |-> "absent"] \in [Id -> Display]
      BY DEF Display
    <3> QED
      BY <3>1, <3>2, PostedAre DEF LoadType
  <2>3. Len(log) \in Posted
    <3>1. log # <<>> /\ log \in Seq(Message)
      BY <1>6 DEF HistoryRequested, TypeInv, LogTyped
    <3> QED
      BY <3>1 DEF Posted
  <2>4. load' = [load EXCEPT ![t] = load'[t]] /\ load'[t] = record
    BY <2>1, LoadRecordAt
  <2>5. record.next \in 1 .. record.last + 1 /\ record.last \in Posted'
    BY <1>2, <2>2, <2>3, PostedAre DEF LogStays
  <2>6. LoadStep(t)
    BY <2>2, <2>4, <2>5 DEF LoadStep, LoadOK
  <2> QED
    BY <1>1, <1>2, <1>4, <1>5, <1>6, <2>6, TypesCompose
       DEF HistoryRequested, store, history
<1>7. CASE HistoryKeys(t)
  <2>1. LoadStep(t)
    BY <1>2, <1>3, <1>7, LoadStageAt DEF HistoryKeys, LoadType
  <2>2. KeysTyped' /\ RatchetStays
    BY <1>1, <1>3, <1>4, <1>7, StoreTyped DEF HistoryKeys
  <2> QED
    BY <1>1, <1>2, <1>5, <1>7, <2>1, <2>2, TypesCompose DEF HistoryKeys
<1>8. CASE HistoryLookup(t)
  <2>1. /\ load[t].stage # "idle" /\ load[t].next <= load[t].last
        /\ UNCHANGED <<ratchet, cache, shown, read, faults>>
    BY <1>8 DEF HistoryLookup, store, history
  <2>2. PICK key \in Position \cup {Absent} :
            key = ratchet[DeviceOf[t]][log[load[t].next].from]
    BY <1>3, <2>1, LookedAt DEF KeysTyped
  <2>3. CASE Result(t, "text")
    BY <1>2, <2>1, <2>3, ResultAt, <1>1, <1>4, <1>5, TypesCompose DEF Display
  <2>4. CASE Encrypted(load[t].next) /\ HistoryTried(t, load[t].next, key)
    BY <1>1, <1>2, <1>4, <1>5, <2>1, <2>4, HistoryTriedAt, TypesCompose
  <2>5. CASE Encrypted(load[t].next) /\ load' = [load EXCEPT ![t].stage = "fetching"]
    <3>1. LoadStep(t)
      BY <1>2, <1>3, <2>1, <2>5, LoadStageAt DEF LoadType
    <3> QED
      BY <1>1, <1>2, <1>4, <1>5, <2>1, <3>1, TypesCompose
  <2> QED
    BY <1>8, <2>2, <2>3, <2>4, <2>5 DEF HistoryLookup
<1>9. CASE HistoryFetched(t)
  <2>1. /\ load[t].stage # "idle" /\ load[t].next <= load[t].last
        /\ Encrypted(load[t].next)
        /\ UNCHANGED <<cache, shown, read>>
    BY <1>9 DEF HistoryFetched, TypeInv, LoadOK
  <2>2. CASE /\ StoreMissing(DeviceOf[t]) /\ UNCHANGED faults
             /\ HistoryTried(t, load[t].next,
                             ratchet'[DeviceOf[t]][log[load[t].next].from])
    <3>1. KeysTyped' /\ RatchetStays
      BY <1>1, <1>3, <2>2, StoreTyped
    <3>2. PICK key \in Position \cup {Absent} :
              key = ratchet'[DeviceOf[t]][log[load[t].next].from]
      BY <1>3, <2>1, <3>1, LookedAt DEF KeysTyped
    <3>3. LoadStep(t)
      BY <1>2, <2>1, <2>2, <3>2, HistoryTriedAt
    <3> QED
      BY <1>1, <1>2, <1>5, <2>1, <2>2, <3>1, <3>3, TypesCompose
  <2>3. CASE Fault /\ Result(t, "unreadable") /\ UNCHANGED ratchet
    <3>1. LoadStep(t)
      BY <1>2, <2>1, <2>3, ResultAt DEF Display
    <3> QED
      BY <1>1, <1>2, <1>4, <1>5, <2>1, <2>3, <3>1, TypesCompose
  <2> QED
    BY <1>9, <2>2, <2>3 DEF HistoryFetched
<1>10. CASE HistoryRatcheted(t)
  <2>1. /\ load[t].stage # "idle" /\ load[t].next <= load[t].last
        /\ load[t].key \in Position /\ Encrypted(load[t].next)
        /\ SavePosition(DeviceOf[t], load[t].key, load[t].next)
        /\ load' = [load EXCEPT ![t].stage = "opening"]
        /\ UNCHANGED <<cache, shown, read, faults>>
    BY <1>10 DEF HistoryRatcheted, TypeInv, LoadOK, history
  <2>2. load[t].next \in Posted
    BY <2>1, LookedAt
  <2>3. /\ ratchet' \in [Device -> [Device -> Position \cup {Absent}]]
        /\ RatchetStays
    BY <1>3, <2>1, <2>2, SaveAt
  <2>4. KeysTyped'
    BY <1>1, <1>3, <2>3 DEF KeysTyped
  <2>5. LoadStep(t)
    BY <1>2, <2>1, LoadStageAt
  <2> QED
    BY <1>1, <1>2, <1>5, <2>1, <2>3, <2>4, <2>5, TypesCompose
<1>11. CASE HistoryOpened(t)
  <2>1. /\ load[t].stage # "idle" /\ load[t].next <= load[t].last
        /\ UNCHANGED <<ratchet, shown, read>>
        /\ UNCHANGED faults \/ Fault
        /\ Result(t, "text") \/ Result(t, "unreadable")
    BY <1>11 DEF HistoryOpened, TypeInv, LoadOK
  <2>2. cache' \in [Device -> SUBSET Id]
    <3>1. load[t].next \in Id
      BY <2>1, LookedAt
    <3> QED
      BY <1>3, <1>11, <3>1, CacheAt DEF HistoryOpened, TextTyped
  <2>3. TextTyped' /\ ViewTyped'
    BY <1>1, <1>3, <2>1, <2>2, FaultTyped DEF TextTyped, ViewTyped
  <2>4. LoadStep(t)
    BY <1>2, <2>1, ResultAt DEF Display
  <2> QED
    BY <1>1, <1>2, <1>4, <2>1, <2>3, <2>4, TypesCompose
<1>12. CASE HistoryShown(t)
  <2>1. UNCHANGED <<ratchet, cache, faults>> /\ LoadStep(t)
    BY <1>12, LoadIdle DEF HistoryShown, store
  <2>2. shown' \in [Tab -> [Id -> Display]]
    BY <1>3, <1>12 DEF HistoryShown, LoadType, ViewTyped
  <2>3. read' \in [Device -> SUBSET Id]
    BY <1>3, <1>12, PostedAre DEF HistoryShown, ViewTyped
  <2>4. TextTyped' /\ ViewTyped'
    BY <1>1, <1>3, <2>1, <2>2, <2>3 DEF TextTyped, ViewTyped
  <2> QED
    BY <1>1, <1>2, <1>4, <2>1, <2>4, TypesCompose
<1> QED
  BY <1>6, <1>7, <1>8, <1>9, <1>10, <1>11, <1>12 DEF Browse

\* What is left of a tab that is loaded anew.
LEMMA ReloadAt ==
    ASSUME TypeInv, NEW t \in Tab, Reload(t)
    PROVE  /\ send' = [send EXCEPT ![t] = IdleSend] /\ send'[t] = IdleSend
           /\ load' = [load EXCEPT ![t] = IdleLoad] /\ load'[t] = IdleLoad
           /\ \A m \in Id : reader'[t][m] = IdleRead
           /\ \A m \in Id : shown'[t][m] = "absent"
           /\ \A u \in Tab : u # t => /\ send'[u] = send[u] /\ load'[u] = load[u]
                                      /\ reader'[u] = reader[u] /\ shown'[u] = shown[u]
BY DEF Reload, TypeInv, TabsTyped, ViewTyped

LEMMA TypesReload ==
    ASSUME TypeInv, NEW t \in Tab, Reload(t)
    PROVE  TypeInv'
<1> USE SenderKeysAssumption DEF keyHistory
<1>1. UNCHANGED <<serverKey, log, ratchet, cache, keyHistory, read>>
  BY DEF Reload
<1>2. /\ KeysTyped' /\ LogTyped' /\ LogStays /\ RatchetStays
  BY <1>1, LogSame, RatchetSame DEF TypeInv, KeysTyped, LogTyped
<1>3. TextTyped' /\ ViewTyped'
  <2>1. pushed' \in [Tab -> 0 .. MaxMessages]
    BY PostedAre DEF Reload, TypeInv, ViewTyped
  <2>2. shown' \in [Tab -> [Id -> Display]]
    <3>1. [m \in Id |-> "absent"] \in [Id -> Display]
      BY DEF Display
    <3> QED
      BY <3>1 DEF Reload, TypeInv, ViewTyped
  <2>3. faults' \in 0 .. MaxFaults
    BY FaultTyped DEF Reload
  <2>4. /\ puts' \in [Tab -> SUBSET Id]
        /\ unkept' \in [Device -> SUBSET Id]
    BY DEF Reload, TypeInv, TextTyped
  <2> QED
    BY <1>1, <2>1, <2>2, <2>3, <2>4 DEF TypeInv, TextTyped, ViewTyped
<1>4. /\ IdleSend \in SendType /\ IdleSend.stage = "idle"
      /\ IdleRead \in ReadType /\ IdleRead.stage = "idle"
  BY DEF IdleSend, SendType, IdleRead, ReadType
<1>5. TabsTyped'
  <2>1. send' \in [Tab -> SendType]
    BY <1>4 DEF Reload, TypeInv, TabsTyped
  <2>2. load' \in [Tab -> LoadType]
    <3>1. LoadStep(t)
      BY LoadIdle DEF Reload
    <3>2. load'[t] \in LoadType /\ load' = [load EXCEPT ![t] = load'[t]]
      BY <3>1 DEF LoadStep, LoadOK
    <3> QED
      BY <3>2 DEF TypeInv, TabsTyped
  <2>3. reader' \in [Tab -> [Id -> ReadType]]
    <3>1. [m \in Id |-> IdleRead] \in [Id -> ReadType]
      BY <1>4
    <3> QED
      BY <3>1 DEF Reload, TypeInv, TabsTyped
  <2> QED
    BY <2>1, <2>2, <2>3 DEF TabsTyped
<1>6. ASSUME NEW u \in Tab
      PROVE  SendOK(u)' /\ LoadOK(u)' /\ \A m \in Id : ReadOK(u, m)'
  <2>1. CASE u # t
    <3>1. send'[u] = send[u] /\ load'[u] = load[u] /\ reader'[u] = reader[u]
      BY <2>1, ReloadAt
    <3> QED
      BY <1>2, <3>1, StagesStay
  <2>2. CASE u = t
    <3>1. SendOK(t)'
      BY <1>4, ReloadAt DEF SendOK
    <3>2. LoadOK(t)'
      BY LoadIdle DEF Reload, LoadStep
    <3>3. \A m \in Id : ReadOK(t, m)'
      BY <1>4, ReloadAt DEF ReadOK
    <3> QED
      BY <2>2, <3>1, <3>2, <3>3
  <2> QED
    BY <2>1, <2>2
<1> QED
  BY <1>2, <1>3, <1>5, <1>6 DEF TypeInv

LEMMA TypesStep ==
    ASSUME TypeInv, [Next]_vars
    PROVE  TypeInv'
<1>1. ASSUME NEW t \in Tab, Receive(t)
      PROVE  TypeInv'
  BY <1>1, TypesPushed, TypesFetched, TypesRatcheted, TypesOpened DEF Receive
<1>2. CASE UNCHANGED vars
  <2>1. LogStays /\ RatchetStays
    BY <1>2, LogSame, RatchetSame DEF vars, store
  <2>2. KeysTyped' /\ LogTyped' /\ TextTyped' /\ ViewTyped' /\ TabsTyped'
    BY <1>2 DEF TypeInv, KeysTyped, LogTyped, TextTyped, ViewTyped, TabsTyped, vars, store,
                texts, history, keyHistory, textHistory
  <2>3. \A t \in Tab : SendOK(t)' /\ LoadOK(t)' /\ \A m \in Id : ReadOK(t, m)'
    BY <1>2, <2>1, StagesStay DEF vars
  <2> QED
    BY <2>2, <2>3 DEF TypeInv
<1> QED
  BY <1>1, <1>2, TypesSend, TypesKept, TypesBrowse, TypesReload DEF Next

\* Every stage of sending, of decrypting a pushed message and of loading the history
\* has the position and the message its next step works with (encryptForGroup,
\* decryptWithSenderKey, loadMessages).
THEOREM SenderKeysTypeInvariant == Spec => []TypeOK
BY TypesInit, TypesStep, TypeInvTypes, PTL DEF Spec

-----------------------------------------------------------------------------
(***************************************************************************)
(* What was read can be read again.                                        *)
(***************************************************************************)

\* The text of m is in the cache of device d, on the way there, or lost on it.
Kept(d, m) == m \in cache[d] \/ BeingKept(d, m) \/ m \in unkept[d]

Fine(t, m, as) ==
    /\ as # "absent" => m \in Posted
    /\ as = "text" => ~ Encrypted(m) \/ m \in cache[DeviceOf[t]]

OpenedKept == \A t \in Tab, m \in Id : reader[t][m].stage = "opened" => Kept(DeviceOf[t], m)
ResultKnown == \A t \in Tab, m \in Id : Fine(t, m, load[t].result[m])
ReadInv == ReadIsCached /\ OpenedKept /\ ResultKnown

CacheStays == \A d \in Device : cache[d] \subseteq cache'[d]

LEMMA ReadInit == Init => ReadInv
<1>1. Init => ReadIsCached
  BY DEF Init, ReadIsCached
<1>2. Init => OpenedKept
  BY DEF Init, OpenedKept, IdleRead
<1>3. Init => ResultKnown
  BY SMT DEF Init, ResultKnown, Fine, IdleLoad
<1> QED
  BY <1>1, <1>2, <1>3 DEF ReadInv

LEMMA LogStep ==
    ASSUME TypeInv, [Next]_vars
    PROVE  LogStays
<1>1. ASSUME NEW t \in Tab, MessagePosted(t) \/ PlaintextPosted(t)
      PROVE  LogStays
  <2>1. send[t].key \in Position \cup {Absent}
    BY DEF TypeInv, TabsTyped, SendType
  <2> QED
    BY <1>1, <2>1, LogGrows DEF MessagePosted, PlaintextPosted
<1>2. ASSUME NEW t \in Tab, Send(t), ~ (MessagePosted(t) \/ PlaintextPosted(t))
      PROVE  LogStays
  BY ZenonT(60), <1>2, LogSame DEF Send, SendBegins, KeyUploaded, KeySaved, OwnKeyRead,
     OwnKeyRatcheted, SendDone, SendFails, PlaintextDone
<1>3. ASSUME NEW t \in Tab, KeepText(t) \/ Receive(t) \/ Browse(t)
      PROVE  LogStays
  BY <1>3, LogSame DEF KeepText, PutLands, PutFails, Receive, Pushed, PushFetched,
     PushRatcheted, PushOpened, PushShown, Browse, HistoryRequested, HistoryKeys,
     HistoryLookup, HistoryFetched, HistoryRatcheted, HistoryOpened, HistoryShown, Reload
<1>4. CASE UNCHANGED vars
  BY <1>4, LogSame DEF vars
<1> QED
  BY <1>1, <1>2, <1>3, <1>4 DEF Next

\* How a step may move the texts that a device keeps.
LEMMA TextMoves ==
    ASSUME TypeInv, [Next]_vars
    PROVE  \/ UNCHANGED <<cache, puts, unkept>>
           \/ \E t \in Tab, m \in Id : StartPut(t, m) /\ UNCHANGED <<cache, unkept>>
           \/ \E t \in Tab, m \in Id :
                 /\ cache' = [cache EXCEPT ![DeviceOf[t]] = @ \cup {m}]
                 /\ UNCHANGED <<puts, unkept>>
           \/ \E t \in Tab, m \in Id : PutLands(t, m) \/ PutFails(t, m)
           \/ \E t \in Tab : Reload(t)
<1> USE DEF store, texts, history, textHistory
<1>1. ASSUME NEW t \in Tab, SendDone(t)
      PROVE  \E m \in Id : StartPut(t, m) /\ UNCHANGED <<cache, unkept>>
  <2>1. send[t].id \in Id
    BY <1>1, PostedAre DEF SendDone, TypeInv, SendOK
  <2> QED
    BY <1>1, <2>1 DEF SendDone
<1>2. ASSUME NEW t \in Tab, Send(t), ~ SendDone(t)
      PROVE  UNCHANGED <<cache, puts, unkept>>
  BY <1>2 DEF Send, SendBegins, KeyUploaded, KeySaved, OwnKeyRead, OwnKeyRatcheted,
     MessagePosted, SendFails, PlaintextPosted, PlaintextDone
<1>3. ASSUME NEW t \in Tab, NEW m \in Id, PushOpened(t, m)
      PROVE  \/ UNCHANGED <<cache, puts, unkept>>
             \/ StartPut(t, m) /\ UNCHANGED <<cache, unkept>>
  BY <1>3 DEF PushOpened
<1>4. ASSUME NEW t \in Tab, NEW m \in Id,
             \/ Pushed(t, m) \/ PushFetched(t, m)
             \/ PushRatcheted(t, m) \/ PushShown(t, m)
      PROVE  UNCHANGED <<cache, puts, unkept>>
  BY <1>4 DEF Pushed, PushFetched, PushRatcheted, PushShown
<1>5. ASSUME NEW t \in Tab, HistoryOpened(t)
      PROVE  \/ UNCHANGED <<cache, puts, unkept>>
             \/ \E m \in Id : /\ cache' = [cache EXCEPT ![DeviceOf[t]] = @ \cup {m}]
                              /\ UNCHANGED <<puts, unkept>>
  <2>1. load[t].next \in Id
    BY <1>5, LookedAt DEF HistoryOpened, TypeInv, LoadOK
  <2> QED
    BY <1>5, <2>1 DEF HistoryOpened
<1>6. ASSUME NEW t \in Tab, Browse(t), ~ HistoryOpened(t), ~ Reload(t)
      PROVE  UNCHANGED <<cache, puts, unkept>>
  BY <1>6 DEF Browse, HistoryRequested, HistoryKeys, HistoryLookup, HistoryFetched,
     HistoryRatcheted, HistoryShown
<1>7. CASE UNCHANGED vars
  BY <1>7 DEF vars
<1> QED
  BY <1>1, <1>2, <1>3, <1>4, <1>5, <1>6, <1>7 DEF Next, KeepText, Receive

LEMMA CacheGrows ==
    ASSUME TypeInv, [Next]_vars
    PROVE  CacheStays
<1>1. cache \in [Device -> SUBSET Id] /\ DeviceOf \in [Tab -> Device]
  BY SenderKeysAssumption DEF TypeInv, TextTyped
<1>2. ASSUME NEW t \in Tab, NEW m \in Id, PutLands(t, m) \/ PutFails(t, m)
      PROVE  CacheStays
  BY <1>1, <1>2 DEF PutLands, PutFails, CacheStays
<1>3. ASSUME NEW t \in Tab, Reload(t)
      PROVE  CacheStays
  BY <1>3 DEF Reload, CacheStays
<1>4. ASSUME NEW t \in Tab, NEW m \in Id,
             cache' = [cache EXCEPT ![DeviceOf[t]] = @ \cup {m}]
      PROVE  CacheStays
  BY <1>1, <1>4 DEF CacheStays
<1>5. CASE UNCHANGED cache
  BY <1>5 DEF CacheStays
<1> QED
  BY <1>2, <1>3, <1>4, <1>5, TextMoves

LEMMA KeptOn ==
    ASSUME TypeInv, [Next]_vars, NEW d \in Device, NEW m \in Id, Kept(d, m)
    PROVE  Kept(d, m)'
<1>1. /\ puts \in [Tab -> SUBSET Id] /\ unkept \in [Device -> SUBSET Id]
      /\ cache \in [Device -> SUBSET Id] /\ DeviceOf \in [Tab -> Device]
  BY SenderKeysAssumption DEF TypeInv, TextTyped
<1>2. cache[d] \subseteq cache'[d]
  BY CacheGrows DEF CacheStays
<1>3. ASSUME unkept[d] \subseteq unkept'[d], \A u \in Tab : puts[u] \subseteq puts'[u]
      PROVE  Kept(d, m)'
  BY <1>2, <1>3 DEF Kept, BeingKept
<1>4. ASSUME NEW t \in Tab, NEW i \in Id, PutLands(t, i) \/ PutFails(t, i)
      PROVE  Kept(d, m)'
  <2>1. /\ puts' = [puts EXCEPT ![t] = @ \ {i}]
        /\ unkept[d] \subseteq unkept'[d]
        /\ i \in cache'[DeviceOf[t]] \/ i \in unkept'[DeviceOf[t]]
    BY <1>1, <1>4 DEF PutLands, PutFails, history, textHistory
  <2>2. ASSUME NEW u \in Tab, DeviceOf[u] = d, m \in puts[u]
        PROVE  Kept(d, m)'
    BY <1>1, <2>1, <2>2 DEF Kept, BeingKept
  <2> QED
    BY <1>2, <2>1, <2>2 DEF Kept, BeingKept
<1>5. ASSUME NEW t \in Tab, Reload(t)
      PROVE  Kept(d, m)'
  <2>1. /\ puts' = [puts EXCEPT ![t] = {}]
        /\ unkept' = [unkept EXCEPT ![DeviceOf[t]] = @ \cup puts[t]]
    BY <1>5 DEF Reload
  <2>2. ASSUME NEW u \in Tab, DeviceOf[u] = d, m \in puts[u]
        PROVE  Kept(d, m)'
    BY <1>1, <2>1, <2>2 DEF Kept, BeingKept
  <2>3. unkept[d] \subseteq unkept'[d]
    BY <1>1, <2>1
  <2> QED
    BY <1>2, <2>2, <2>3 DEF Kept, BeingKept
<1> QED
  BY <1>3, <1>4, <1>5, TextMoves, PutAt

LEMMA FineStays ==
    ASSUME LogStays, CacheStays, NEW t \in Tab, NEW m \in Id, NEW as, Fine(t, m, as)
    PROVE  Fine(t, m, as)'
BY SenderKeysAssumption DEF LogStays, CacheStays, Fine, Encrypted

\* A tab finds out about at most one message of the history it loads.
LEMMA ResultsStay ==
    ASSUME ResultKnown, LogStays, CacheStays,
           \A u \in Tab, i \in Id :
              \/ load'[u].result[i] = load[u].result[i]
              \/ Fine(u, i, load[u].result[i])'
    PROVE  ResultKnown'
<1> SUFFICES ASSUME NEW u \in Tab, NEW i \in Id
             PROVE  Fine(u, i, load[u].result[i])'
  BY DEF ResultKnown
<1>1. PICK was : was = load[u].result[i]
  OBVIOUS
<1>2. Fine(u, i, was)'
  BY <1>1, FineStays DEF ResultKnown
<1> QED
  BY <1>1, <1>2 DEF Fine

\* Giving up on a message, or finding it in plaintext.
LEMMA FineFound ==
    ASSUME TypeInv, UNCHANGED log, NEW t \in Tab, NEW m \in Posted,
           NEW as \in {"text", "unreadable"},
           as = "text" => ~ Encrypted(m) \/ m \in cache'[DeviceOf[t]]
    PROVE  Fine(t, m, as)'
BY DEF Fine, Encrypted, Posted

LEMMA ResultBrowse ==
    ASSUME TypeInv, ResultKnown, NEW t \in Tab, Browse(t), LogStays, CacheStays
    PROVE  ResultKnown'
<1>1. UNCHANGED log /\ DeviceOf[t] \in Device
  BY SenderKeysAssumption
     DEF Browse, HistoryRequested, HistoryKeys, HistoryLookup, HistoryFetched,
         HistoryRatcheted, HistoryOpened, HistoryShown, Reload
<1>3. ASSUME load[t].stage # "idle", load[t].next <= load[t].last,
             NEW as \in {"text", "unreadable"},
             Result(t, as),
             as = "text" => \/ ~ Encrypted(load[t].next)
                            \/ load[t].next \in cache'[DeviceOf[t]]
      PROVE  ResultKnown'
  <2>1. PICK m \in Posted : m = load[t].next /\ m \in Id
    BY <1>3, LookedAt
  <2>2. /\ load'[t].result = [load[t].result EXCEPT ![m] = as]
        /\ \A u \in Tab : u # t => load'[u] = load[u]
    BY <1>3, <2>1, ResultAt DEF Display
  <2>3. load[t].result \in [Id -> Display]
    BY DEF TypeInv, TabsTyped, LoadType
  <2>4. /\ load'[t].result[m] = as
        /\ \A i \in Id : i # m => load'[t].result[i] = load[t].result[i]
    BY <2>1, <2>2, <2>3
  <2>5. Fine(t, m, as)'
    BY <1>1, <1>3, <2>1, FineFound
  <2>6. Fine(t, m, load[t].result[m])'
    BY <2>4, <2>5 DEF Fine
  <2> QED
    BY <1>3, <2>1, <2>2, <2>4, <2>6, ResultsStay
<1>4. ASSUME \A u \in Tab : u # t => load'[u] = load[u],
             load'[t].result \in {load[t].result, IdleLoad.result}
      PROVE  ResultKnown'
  <2>1. ASSUME NEW u \in Tab, NEW i \in Id
        PROVE  \/ load'[u].result[i] = load[u].result[i]
               \/ Fine(u, i, load[u].result[i])'
    <3>1. IdleLoad.result[i] = "absent"
      BY DEF IdleLoad
    <3> QED
      BY <1>4, <3>1 DEF Fine
  <2> QED
    BY <1>4, <2>1, ResultsStay
<1>5. ASSUME load' = [load EXCEPT ![t] = IdleLoad]
      PROVE  ResultKnown'
  <2>1. load'[t] = IdleLoad /\ \A u \in Tab : u # t => load'[u] = load[u]
    BY <1>5 DEF TypeInv, TabsTyped
  <2> QED
    BY <1>4, <2>1
<1>6. CASE HistoryRequested(t)
  <2>1. PICK record : /\ record.result = IdleLoad.result
                      /\ load' = [load EXCEPT ![t] = record]
    <3> DEFINE record == [IdleLoad EXCEPT !.stage = "keys", !.next = 1, !.last = Len(log)]
    <3>1. record.result = IdleLoad.result
      BY DEF IdleLoad
    <3> QED
      BY <1>6, <3>1 DEF HistoryRequested
  <2>2. load'[t] = record /\ \A u \in Tab : u # t => load'[u] = load[u]
    BY <2>1 DEF TypeInv, TabsTyped
  <2> QED
    BY <1>4, <2>1, <2>2
<1>7. CASE HistoryKeys(t)
  <2>1. /\ load'[t].result = load[t].result
        /\ \A u \in Tab : u # t => load'[u] = load[u]
    <3>1. load \in [Tab -> LoadType] /\ load[t] \in LoadType
      BY DEF TypeInv, TabsTyped
    <3> QED
      BY <1>7, <3>1 DEF HistoryKeys, LoadType
  <2> QED
    BY <1>4, <2>1
<1>8. ASSUME load[t].stage # "idle", load[t].next <= load[t].last,
             NEW key \in Position \cup {Absent},
             Encrypted(load[t].next), HistoryTried(t, load[t].next, key)
      PROVE  ResultKnown'
  <2>2. CASE Result(t, "unreadable")
    BY <1>3, <1>8, <2>2
  <2>3. CASE load' = [load EXCEPT ![t].stage = "ratcheting", ![t].key = key]
    <3>1. load \in [Tab -> LoadType] /\ load[t] \in LoadType
      BY DEF TypeInv, TabsTyped
    <3>2. /\ load'[t].result = load[t].result
          /\ \A u \in Tab : u # t => load'[u] = load[u]
      BY <2>3, <3>1 DEF LoadType
    <3> QED
      BY <1>4, <3>2
  <2> QED
    BY <1>8, <2>2, <2>3 DEF HistoryTried
<1>9. CASE HistoryLookup(t)
  <2>1. /\ load[t].stage # "idle" /\ load[t].next <= load[t].last
        /\ UNCHANGED <<ratchet, cache>>
    BY <1>9 DEF HistoryLookup, store, texts
  <2>2. PICK key \in Position \cup {Absent} :
            key = ratchet[DeviceOf[t]][log[load[t].next].from]
    BY <1>1, <2>1, LookedAt DEF TypeInv, KeysTyped
  <2>3. CASE /\ Result(t, "text")
             /\ ~ Encrypted(load[t].next) \/ load[t].next \in cache[DeviceOf[t]]
    BY <1>3, <2>1, <2>3
  <2>4. CASE Encrypted(load[t].next) /\ HistoryTried(t, load[t].next, key)
    BY <1>8, <2>1, <2>4
  <2>5. CASE load' = [load EXCEPT ![t].stage = "fetching"]
    <3>1. load \in [Tab -> LoadType] /\ load[t] \in LoadType
      BY DEF TypeInv, TabsTyped
    <3>2. /\ load'[t].result = load[t].result
          /\ \A u \in Tab : u # t => load'[u] = load[u]
      BY <2>5, <3>1 DEF LoadType
    <3> QED
      BY <1>4, <3>2
  <2> QED
    BY <1>9, <2>2, <2>3, <2>4, <2>5 DEF HistoryLookup
<1>10. CASE HistoryFetched(t)
  <2>1. /\ load[t].stage # "idle" /\ load[t].next <= load[t].last
        /\ Encrypted(load[t].next)
    BY <1>10 DEF HistoryFetched, TypeInv, LoadOK
  <2>2. CASE Result(t, "unreadable")
    BY <1>3, <2>1, <2>2
  <2>3. CASE /\ StoreMissing(DeviceOf[t])
             /\ HistoryTried(t, load[t].next,
                             ratchet'[DeviceOf[t]][log[load[t].next].from])
    <3>1. KeysTyped
      BY SMTT(30) DEF TypeInv
    <3>2. PICK key \in Position \cup {Absent} :
              key = ratchet'[DeviceOf[t]][log[load[t].next].from]
      BY <1>1, <2>1, <2>3, <3>1, LookedAt, StoreAt
    <3> QED
      BY <1>8, <2>1, <2>3, <3>2
  <2> QED
    BY <1>10, <2>2, <2>3 DEF HistoryFetched
<1>11. CASE HistoryRatcheted(t)
  <2>1. load \in [Tab -> LoadType] /\ load[t] \in LoadType
    BY DEF TypeInv, TabsTyped
  <2>2. /\ load'[t].result = load[t].result
        /\ \A u \in Tab : u # t => load'[u] = load[u]
    BY <1>11, <2>1 DEF HistoryRatcheted, LoadType
  <2> QED
    BY <1>4, <2>2
<1>12. CASE HistoryOpened(t)
  <2>1. /\ load[t].stage # "idle" /\ load[t].next <= load[t].last
        /\ load[t].next \in Id
    BY <1>12, LookedAt DEF HistoryOpened, TypeInv, LoadOK
  <2>2. CASE /\ cache' = [cache EXCEPT ![DeviceOf[t]] = @ \cup {load[t].next}]
             /\ Result(t, "text")
    BY <1>1, <1>3, <2>1, <2>2, CacheAt
  <2>3. CASE Result(t, "unreadable")
    BY <1>3, <2>1, <2>3
  <2> QED
    BY <1>12, <2>2, <2>3 DEF HistoryOpened
<1>13. CASE HistoryShown(t) \/ Reload(t)
  BY <1>5, <1>13 DEF HistoryShown, Reload
<1> QED
  BY <1>6, <1>7, <1>9, <1>10, <1>11, <1>12, <1>13 DEF Browse

LEMMA ResultStep ==
    ASSUME TypeInv, ResultKnown, [Next]_vars
    PROVE  ResultKnown'
<1>1. LogStays /\ CacheStays
  BY LogStep, CacheGrows
<1>2. ASSUME UNCHANGED load
      PROVE  ResultKnown'
  BY <1>1, <1>2, ResultsStay
<1>3. ASSUME NEW t \in Tab, Send(t) \/ KeepText(t) \/ Receive(t)
      PROVE  UNCHANGED load
  BY <1>3 DEF Send, SendBegins, KeyUploaded, KeySaved, OwnKeyRead, OwnKeyRatcheted,
     MessagePosted, SendDone, SendFails, PlaintextPosted, PlaintextDone, KeepText,
     PutLands, PutFails, Receive, Pushed, PushFetched, PushRatcheted, PushOpened, PushShown
<1>4. CASE UNCHANGED vars
  BY <1>2, <1>4 DEF vars
<1> QED
  BY <1>1, <1>2, <1>3, <1>4, ResultBrowse DEF Next

\* A pushed message that is opened is being kept from then on.
LEMMA OpenedStep ==
    ASSUME TypeInv, OpenedKept, [Next]_vars
    PROVE  OpenedKept'
<1> SUFFICES ASSUME NEW u \in Tab, NEW i \in Id, reader'[u][i].stage = "opened"
             PROVE  Kept(DeviceOf[u], i)'
  BY DEF OpenedKept
<1>1. DeviceOf[u] \in Device /\ reader \in [Tab -> [Id -> ReadType]]
  BY SenderKeysAssumption DEF TypeInv, TabsTyped
<1>2. ASSUME reader[u][i].stage = "opened"
      PROVE  Kept(DeviceOf[u], i)'
  BY <1>1, <1>2, KeptOn DEF OpenedKept
<1>3. ASSUME NEW t \in Tab, NEW m \in Id, StartPut(t, m), PushAt(t, m, "opened", Absent)
      PROVE  Kept(DeviceOf[u], i)'
  <2>1. CASE u = t /\ i = m
    BY <1>3, <2>1, PutAt DEF Kept, BeingKept
  <2>2. CASE u # t \/ i # m
    <3>1. PICK record : reader' = [reader EXCEPT ![t][m] = record]
      BY <1>3 DEF PushAt
    <3>2. reader'[u][i] = reader[u][i]
      BY <1>1, <2>2, <3>1
    <3> QED
      BY <1>2, <3>2
  <2> QED
    BY <2>1, <2>2
<1>4. ASSUME NEW t \in Tab, NEW m \in Id, NEW stage, NEW key, stage # "opened",
             reader' = [reader EXCEPT ![t][m] = [stage |-> stage, key |-> key]]
      PROVE  reader[u][i].stage = "opened"
  <2>1. PICK record : /\ record.stage = stage
                      /\ reader' = [reader EXCEPT ![t][m] = record]
    BY <1>4
  <2> QED
    BY <1>1, <1>4, <2>1
<1>5. ASSUME NEW t \in Tab, NEW m \in Id, PushTried(t, m, ratchet[DeviceOf[t]][log[m].from])
             \/ PushTried(t, m, ratchet'[DeviceOf[t]][log[m].from])
             \/ PushAdded(t, m, "unreadable") \/ PushAdded(t, m, "text")
             \/ PushAt(t, m, "fetching", Absent)
             \/ PushAt(t, m, "opening", reader[t][m].key)
      PROVE  Kept(DeviceOf[u], i)'
  BY <1>2, <1>4, <1>5 DEF PushTried, PushAdded, PushAt, IdleRead
<1>6. ASSUME NEW t \in Tab, Receive(t)
      PROVE  Kept(DeviceOf[u], i)'
  BY <1>3, <1>5, <1>6
     DEF Receive, Pushed, PushFetched, PushRatcheted, PushOpened, PushShown
<1>7. ASSUME NEW t \in Tab, Reload(t)
      PROVE  reader[u][i].stage = "opened"
  <2>1. reader'[t][i] = IdleRead /\ \A v \in Tab : v # t => reader'[v] = reader[v]
    BY SMTT(30), <1>7, ReloadAt
  <2> QED
    BY <2>1 DEF IdleRead
<1>8. ASSUME NEW t \in Tab, Send(t) \/ KeepText(t) \/ (Browse(t) /\ ~ Reload(t))
      PROVE  UNCHANGED reader
  BY <1>8 DEF Send, SendBegins, KeyUploaded, KeySaved, OwnKeyRead, OwnKeyRatcheted,
     MessagePosted, SendDone, SendFails, PlaintextPosted, PlaintextDone, KeepText,
     PutLands, PutFails, Browse, HistoryRequested, HistoryKeys, HistoryLookup,
     HistoryFetched, HistoryRatcheted, HistoryOpened, HistoryShown
<1>9. CASE UNCHANGED vars
  BY <1>2, <1>9 DEF vars
<1> QED
  BY <1>2, <1>6, <1>7, <1>8, <1>9 DEF Next

\* A ciphertext newly read was opened from a push, sent, or found in the history.
LEMMA ReadingStep ==
    ASSUME TypeInv, ReadInv, [Next]_vars
    PROVE  ReadIsCached'
<1> SUFFICES ASSUME NEW d \in Device, NEW i \in read'[d]
             PROVE  Kept(d, i)'
  BY DEF ReadIsCached, Kept
<1>1. i \in Id
  BY TypesStep DEF TypeInv, ViewTyped
<1>2. ASSUME i \in read[d]
      PROVE  Kept(d, i)'
  BY <1>1, <1>2, KeptOn DEF ReadInv, ReadIsCached, Kept
<1>3. ASSUME NEW t \in Tab, NEW m \in Id, NEW as \in Display, AddMessage(t, m, as),
             as = "text" /\ Encrypted(m) => Kept(DeviceOf[t], m)'
      PROVE  Kept(d, i)'
  <2>1. \/ i \in read[d]
        \/ d = DeviceOf[t] /\ i = m /\ as = "text" /\ Encrypted(m)
    BY <1>3, AddMessageAt
  <2> QED
    BY <1>2, <1>3, <2>1
<1>4. ASSUME NEW t \in Tab, SendDone(t) \/ PlaintextDone(t)
      PROVE  Kept(d, i)'
  <2>1. PICK m \in Id : m = send[t].id
    BY <1>4, PostedAre DEF SendDone, PlaintextDone, TypeInv, SendOK
  <2>2. AddMessage(t, m, "text")
    BY <1>4, <2>1 DEF SendDone, PlaintextDone
  <2>3. ~ Encrypted(m) \/ StartPut(t, m)
    BY <1>4, <2>1 DEF SendDone, PlaintextDone, TypeInv, SendOK
  <2>4. Encrypted(m) => Kept(DeviceOf[t], m)'
    BY <2>3, PutAt DEF Kept, BeingKept
  <2> QED
    BY <1>3, <2>2, <2>4 DEF Display
<1>5. ASSUME NEW t \in Tab, NEW m \in Id, PushAdded(t, m, "unreadable")
      PROVE  Kept(d, i)'
  BY <1>3, <1>5 DEF PushAdded, Display
<1>6. ASSUME NEW t \in Tab, NEW m \in Id, Pushed(t, m)
      PROVE  Kept(d, i)'
  <2>1. \/ ~ Encrypted(m) /\ AddMessage(t, m, "text")
        \/ PushAdded(t, m, "unreadable")
        \/ UNCHANGED read
    BY <1>6 DEF Pushed, PushTried, PushAdded
  <2> QED
    BY <1>2, <1>3, <1>5, <2>1 DEF Display
<1>7. ASSUME NEW t \in Tab, NEW m \in Id,
             PushFetched(t, m) \/ PushRatcheted(t, m) \/ PushOpened(t, m)
      PROVE  Kept(d, i)'
  <2>1. PushAdded(t, m, "unreadable") \/ UNCHANGED read
    BY <1>7 DEF PushFetched, PushTried, PushRatcheted, PushOpened, history, textHistory
  <2> QED
    BY <1>2, <1>5, <2>1
<1>8. ASSUME NEW t \in Tab, NEW m \in Id, PushShown(t, m)
      PROVE  Kept(d, i)'
  <2>1. Kept(DeviceOf[t], m)'
    <3>1. Kept(DeviceOf[t], m) /\ DeviceOf[t] \in Device
      BY <1>8, SenderKeysAssumption DEF PushShown, ReadInv, OpenedKept
    <3> QED
      BY <3>1, KeptOn
  <2> QED
    BY <1>3, <1>8, <2>1 DEF PushShown, PushAdded, Display
<1>9. ASSUME NEW t \in Tab, HistoryShown(t)
      PROVE  Kept(d, i)'
  <2>1. \/ i \in read[d]
        \/ d = DeviceOf[t] /\ i \in Posted /\ load[t].result[i] = "text" /\ Encrypted(i)
    BY <1>9, SenderKeysAssumption DEF HistoryShown, TypeInv, ViewTyped
  <2>2. ASSUME d = DeviceOf[t], load[t].result[i] = "text", Encrypted(i)
        PROVE  Kept(d, i)'
    BY SMTT(30), <1>1, <2>2, KeptOn DEF ReadInv, ResultKnown, Fine, Kept
  <2> QED
    BY <1>2, <2>1, <2>2
<1>10. ASSUME NEW t \in Tab, \/ Send(t) /\ ~ (SendDone(t) \/ PlaintextDone(t))
                            \/ KeepText(t) \/ (Browse(t) /\ ~ HistoryShown(t))
       PROVE  UNCHANGED read
  BY <1>10 DEF Send, SendBegins, KeyUploaded, KeySaved, OwnKeyRead, OwnKeyRatcheted,
     MessagePosted, SendFails, PlaintextPosted, KeepText, PutLands, PutFails, Browse,
     HistoryRequested, HistoryKeys, HistoryLookup, HistoryFetched, HistoryRatcheted,
     HistoryOpened, Reload, history, textHistory
<1>11. CASE UNCHANGED vars
  BY <1>2, <1>11 DEF vars, history, textHistory
<1> QED
  BY <1>2, <1>4, <1>6, <1>7, <1>8, <1>9, <1>10, <1>11 DEF Next, Receive

LEMMA ReadInvStep ==
    ASSUME TypeInv, ReadInv, [Next]_vars
    PROVE  ReadInv'
BY ReadingStep, OpenedStep, ResultStep DEF ReadInv

\* The text of a ciphertext that a device has ever shown, received, sent or loaded with
\* the history, is in its cache or on the way there (useWebSocket, sendMessage,
\* chatStore.loadMessages; cacheMessagePlaintext) but for the puts that failed or that
\* a reload cut short, also with several tabs to a device.
THEOREM ReadIsAlwaysCached == Spec => []ReadIsCached
<1>1. Init => TypeInv /\ ReadInv
  BY TypesInit, ReadInit
<1>2. TypeInv /\ ReadInv /\ [Next]_vars => (TypeInv /\ ReadInv)'
  BY TypesStep, ReadInvStep
<1>3. ReadInv => ReadIsCached
  BY DEF ReadInv
<1> QED
  BY <1>1, <1>2, <1>3, PTL DEF Spec

-----------------------------------------------------------------------------
(***************************************************************************)
(* A device that uploaded one key has one chain, wherever it is kept.      *)
(***************************************************************************)

Once(e) == e \in Device \ replaced

Agrees(e, key) == Once(e) => key.chain = serverKey[e]

KeptAgree ==
    \A d, e \in Device : ratchet[d][e] # Absent => Agrees(e, ratchet[d][e])

SendAgrees(t) ==
    send[t].stage \in {"uploaded", "encrypting"} => Agrees(DeviceOf[t], send[t].key)

ReadAgrees(t, m) ==
    reader[t][m].stage = "ratcheting" => Agrees(log[m].from, reader[t][m].key)

LoadAgrees(t) ==
    load[t].stage = "ratcheting" => Agrees(log[load[t].next].from, load[t].key)

AgreeInv ==
    /\ KeptAgree
    /\ \A t \in Tab : SendAgrees(t) /\ LoadAgrees(t) /\ \A m \in Id : ReadAgrees(t, m)

LEMMA AgreeInit == Init => AgreeInv
BY DEF Init, AgreeInv, KeptAgree, SendAgrees, ReadAgrees, LoadAgrees, IdleSend, IdleRead,
       IdleLoad

\* The tab that takes a step, and what it does not touch.
LEMMA SendFrame ==
    ASSUME TypeInv, NEW t \in Tab, Send(t)
    PROVE  /\ UNCHANGED <<reader, load>>
           /\ \A u \in Tab : u # t => send'[u] = send[u]
<1>1. send \in [Tab -> SendType]
  BY DEF TypeInv, TabsTyped
<1> QED
  BY <1>1 DEF Send, SendBegins, KeyUploaded, KeySaved, OwnKeyRead, OwnKeyRatcheted,
     MessagePosted, SendDone, SendFails, PlaintextPosted, PlaintextDone

LEMMA KeepFrame ==
    ASSUME NEW t \in Tab, KeepText(t)
    PROVE  UNCHANGED <<serverKey, log, ratchet, send, reader, load, keyHistory>>
BY DEF KeepText, PutLands, PutFails, history, keyHistory

ReceiveStep(t, m) ==
    \/ Pushed(t, m)
    \/ PushFetched(t, m)
    \/ PushRatcheted(t, m)
    \/ PushOpened(t, m)
    \/ PushShown(t, m)

LEMMA PushAtIs ==
    ASSUME TypeInv, NEW t \in Tab, NEW m \in Id, NEW stage, NEW key,
           PushAt(t, m, stage, key)
    PROVE  /\ reader'[t][m].stage = stage /\ reader'[t][m].key = key
           /\ \A u \in Tab, i \in Id : u # t \/ i # m => reader'[u][i] = reader[u][i]
<1>1. PICK record : /\ record.stage = stage /\ record.key = key
                    /\ reader' = [reader EXCEPT ![t][m] = record]
  BY DEF PushAt
<1> QED
  BY <1>1 DEF TypeInv, TabsTyped

LEMMA PushAddedIs ==
    ASSUME TypeInv, NEW t \in Tab, NEW m \in Id, NEW as, PushAdded(t, m, as)
    PROVE  /\ reader'[t][m].stage = "idle"
           /\ \A u \in Tab, i \in Id : u # t \/ i # m => reader'[u][i] = reader[u][i]
<1>1. PICK record : /\ record.stage = "idle"
                    /\ reader' = [reader EXCEPT ![t][m] = record]
  BY DEF PushAdded, IdleRead
<1> QED
  BY <1>1 DEF TypeInv, TabsTyped

LEMMA ReceiveFrame ==
    ASSUME TypeInv, NEW t \in Tab, NEW m \in Id, ReceiveStep(t, m)
    PROVE  /\ UNCHANGED <<serverKey, log, send, load, keyHistory>>
           /\ \A u \in Tab, i \in Id : u # t \/ i # m => reader'[u][i] = reader[u][i]
           /\ m \in Posted
<1>1. \/ \E as : PushAdded(t, m, as)
      \/ \E stage, key : PushAt(t, m, stage, key)
  BY DEF ReceiveStep, Pushed, PushFetched, PushRatcheted, PushTried, PushOpened, PushShown
<1>2. \A u \in Tab, i \in Id : u # t \/ i # m => reader'[u][i] = reader[u][i]
  BY <1>1, PushAtIs, PushAddedIs
<1>3. UNCHANGED <<serverKey, log, send, load, keyHistory>>
  BY DEF ReceiveStep, Pushed, PushFetched, PushRatcheted, PushOpened, PushShown, history
<1>4. m \in Posted
  BY DEF ReceiveStep, Pushed, PushFetched, PushRatcheted, PushOpened, PushShown, TypeInv,
         ReadOK
<1> QED
  BY <1>2, <1>3, <1>4

LEMMA BrowseFrame ==
    ASSUME TypeInv, NEW t \in Tab, Browse(t), ~ Reload(t)
    PROVE  /\ UNCHANGED <<serverKey, log, send, reader, keyHistory>>
           /\ \A u \in Tab : u # t => load'[u] = load[u]
<1>1. load \in [Tab -> LoadType]
  BY SMTT(30) DEF TypeInv, TabsTyped
<1>2. \/ UNCHANGED load
      \/ \E record : load' = [load EXCEPT ![t] = record]
      \/ \E stage : load' = [load EXCEPT ![t].stage = stage]
      \/ \E stage, key : load' = [load EXCEPT ![t].stage = stage, ![t].key = key]
  BY DEF Browse, HistoryRequested, HistoryKeys, HistoryLookup, HistoryFetched,
     HistoryRatcheted, HistoryOpened, HistoryShown, HistoryTried, Result
<1>3. \A u \in Tab : u # t => load'[u] = load[u]
  BY <1>1, <1>2
<1> QED
  BY <1>3 DEF Browse, HistoryRequested, HistoryKeys, HistoryLookup, HistoryFetched,
     HistoryRatcheted, HistoryOpened, HistoryShown, history

\* A second key puts its device among those that replaced one.
LEMMA AgreesStays ==
    ASSUME TypeInv, [Next]_vars, NEW e \in Device, NEW key \in Position, Agrees(e, key)
    PROVE  Agrees(e, key)'
<1>1. key.chain # None
  BY SenderKeysAssumption DEF Position
<1>2. ASSUME NEW t \in Tab, KeyUploaded(t)
      PROVE  Agrees(e, key)'
  <2>1. /\ serverKey' = [serverKey EXCEPT ![DeviceOf[t]] = send[t].key.chain]
        /\ replaced' = IF serverKey[DeviceOf[t]] = None THEN replaced
                                                        ELSE replaced \cup {DeviceOf[t]}
    BY <1>2 DEF KeyUploaded
  <2>2. CASE e = DeviceOf[t]
    BY <1>1, <2>1, <2>2 DEF Agrees, Once
  <2>3. CASE e # DeviceOf[t]
    <3>1. serverKey'[e] = serverKey[e]
      BY <2>1, <2>3 DEF TypeInv, KeysTyped
    <3> QED
      BY <2>1, <2>3, <3>1 DEF Agrees, Once
  <2> QED
    BY <2>2, <2>3
<1>3. ASSUME UNCHANGED <<serverKey, replaced>>
      PROVE  Agrees(e, key)'
  BY SMTT(30), <1>3 DEF Agrees, Once
<1>4. ASSUME NEW t \in Tab, Send(t), ~ KeyUploaded(t)
      PROVE  UNCHANGED <<serverKey, replaced>>
  BY <1>4 DEF Send, SendBegins, KeySaved, OwnKeyRead, OwnKeyRatcheted, MessagePosted,
     SendDone, SendFails, PlaintextPosted, PlaintextDone, history, keyHistory
<1>5. ASSUME NEW t \in Tab, KeepText(t) \/ Receive(t) \/ Browse(t)
      PROVE  UNCHANGED <<serverKey, replaced>>
  BY <1>5, KeepFrame, ReceiveFrame, BrowseFrame
     DEF Receive, ReceiveStep, Reload, keyHistory
<1> QED
  BY <1>2, <1>3, <1>4, <1>5 DEF Next, vars, history, keyHistory

\* What is not touched by a step agrees after it.
LEMMA UntouchedAgree ==
    ASSUME TypeInv, AgreeInv, [Next]_vars, NEW t \in Tab
    PROVE  /\ send'[t] = send[t] => SendAgrees(t)'
           /\ load'[t] = load[t] => LoadAgrees(t)'
           /\ \A m \in Id : reader'[t][m] = reader[t][m] => ReadAgrees(t, m)'
<1> USE SenderKeysAssumption
<1>1. LogStays
  BY LogStep
<1>2. ASSUME send'[t] = send[t]
      PROVE  SendAgrees(t)'
  <2>1. PICK key : key = send[t].key
    OBVIOUS
  <2>2. send[t].stage \in {"uploaded", "encrypting"} =>
            key \in Position /\ Agrees(DeviceOf[t], key)
    BY <2>1 DEF TypeInv, SendOK, AgreeInv, SendAgrees
  <2>3. send[t].stage \in {"uploaded", "encrypting"} => Agrees(DeviceOf[t], key)'
    BY <2>2, AgreesStays
  <2> QED
    BY <1>2, <2>1, <2>3 DEF SendAgrees, Agrees
<1>3. ASSUME load'[t] = load[t]
      PROVE  LoadAgrees(t)'
  <2> SUFFICES ASSUME load[t].stage = "ratcheting"
               PROVE  Agrees(log[load[t].next].from, load[t].key)'
    BY <1>3 DEF LoadAgrees
  <2>1. PICK key : key = load[t].key
    OBVIOUS
  <2>2. load[t].next \in Posted /\ log[load[t].next].from \in Device
    BY LookedAt DEF TypeInv, LoadOK
  <2>3. PICK e \in Device : e = log[load[t].next].from
    BY <2>2
  <2>4. key \in Position /\ Agrees(e, key)
    BY <2>1, <2>3 DEF TypeInv, LoadOK, AgreeInv, LoadAgrees
  <2>5. Agrees(e, key)'
    BY <2>4, AgreesStays
  <2> QED
    BY <1>1, <1>3, <2>1, <2>2, <2>3, <2>5 DEF Agrees, LogStays
<1>4. ASSUME NEW m \in Id, reader'[t][m] = reader[t][m]
      PROVE  ReadAgrees(t, m)'
  <2> SUFFICES ASSUME reader[t][m].stage = "ratcheting"
               PROVE  Agrees(log[m].from, reader[t][m].key)'
    BY <1>4 DEF ReadAgrees
  <2>1. PICK key : key = reader[t][m].key
    OBVIOUS
  <2>2. m \in Posted /\ log[m].from \in Device
    BY PostedAre DEF TypeInv, ReadOK
  <2>3. PICK e \in Device : e = log[m].from
    BY <2>2
  <2>4. key \in Position /\ Agrees(e, key)
    BY <2>1, <2>3 DEF TypeInv, ReadOK, AgreeInv, ReadAgrees
  <2>5. Agrees(e, key)'
    BY <2>4, AgreesStays
  <2> QED
    BY <1>1, <1>4, <2>1, <2>2, <2>3, <2>5 DEF Agrees, LogStays
<1> QED
  BY <1>2, <1>3, <1>4

LEMMA KeptStays ==
    ASSUME TypeInv, AgreeInv, [Next]_vars,
           \A d, e \in Device : \/ ratchet'[d][e] = ratchet[d][e]
                                \/ ratchet'[d][e] # Absent => Agrees(e, ratchet[d][e])'
    PROVE  KeptAgree'
<1> SUFFICES ASSUME NEW d \in Device, NEW e \in Device, ratchet'[d][e] # Absent
             PROVE  Agrees(e, ratchet[d][e])'
  BY DEF KeptAgree, Absent
<1>1. CASE ratchet'[d][e] = ratchet[d][e]
  <2>1. PICK key : key = ratchet[d][e]
    OBVIOUS
  <2>2. key \in Position /\ Agrees(e, key)
    BY <1>1, <2>1 DEF TypeInv, KeysTyped, AgreeInv, KeptAgree
  <2>3. Agrees(e, key)'
    BY <2>2, AgreesStays
  <2> QED
    BY <1>1, <2>1, <2>3 DEF Agrees
<1> QED
  BY <1>1

LEMMA OwnAgree ==
    ASSUME TypeInv, AgreeInv, [Next]_vars, NEW t \in Tab, NEW key \in Position,
           ratchet' = [ratchet EXCEPT ![DeviceOf[t]][DeviceOf[t]] = key],
           Agrees(DeviceOf[t], key)'
    PROVE  KeptAgree'
<1>1. PICK d \in Device : d = DeviceOf[t]
  BY SenderKeysAssumption
<1>2. KeysTyped
  BY DEF TypeInv
<1>3. ratchet'[d][d] = key
  BY <1>1, <1>2, RatchetAt
<1>4. \A f, g \in Device : f # d \/ g # d => ratchet'[f][g] = ratchet[f][g]
  BY <1>1, <1>2, RatchetAt
<1> QED
  BY <1>1, <1>3, <1>4, KeptStays DEF Agrees

LEMMA AgreeSend ==
    ASSUME TypeInv, AgreeInv, [Next]_vars, NEW t \in Tab, Send(t)
    PROVE  AgreeInv'
<1> USE SenderKeysAssumption
<1>1. /\ UNCHANGED <<reader, load>>
      /\ \A u \in Tab : u # t => send'[u] = send[u]
  BY SendFrame
<1>2. ASSUME KeptAgree', SendAgrees(t)'
      PROVE  AgreeInv'
  BY <1>1, <1>2, UntouchedAgree DEF AgreeInv
<1>3. ASSUME UNCHANGED ratchet
      PROVE  KeptAgree'
  BY <1>3, KeptStays
<1>4. SendOK(t) /\ send[t] \in SendType /\ DeviceOf[t] \in Device /\ KeysTyped
  BY DEF TypeInv, TabsTyped
<1>5. CASE KeyUploaded(t)
  <2>1. /\ send'[t].key = send[t].key /\ UNCHANGED ratchet
        /\ serverKey'[DeviceOf[t]] = send[t].key.chain
    <3>1. send'[t] = [send[t] EXCEPT !.stage = "uploaded"]
      BY <1>5, SendStageAt DEF KeyUploaded
    <3> QED
      BY <1>4, <1>5, <3>1 DEF KeyUploaded, KeysTyped, store, SendType
  <2> QED
    BY <1>2, <1>3, <2>1 DEF SendAgrees, Agrees
<1>6. CASE KeySaved(t)
  <2>1. send'[t].stage = "reading"
    <3>1. send'[t] = [send[t] EXCEPT !.stage = "reading"]
      BY <1>6, SendStageAt DEF KeySaved
    <3> QED
      BY <1>4, <3>1 DEF SendType
  <2>2. PICK key \in Position : key = send[t].key
    BY <1>4, <1>6 DEF KeySaved, SendOK
  <2>3. Agrees(DeviceOf[t], key)
    BY <1>6, <2>2 DEF KeySaved, AgreeInv, SendAgrees
  <2>4. Agrees(DeviceOf[t], key)'
    BY <1>4, <2>3, AgreesStays
  <2>5. ratchet' = [ratchet EXCEPT ![DeviceOf[t]][DeviceOf[t]] = key]
    BY <1>6, <2>2 DEF KeySaved
  <2>6. KeptAgree'
    BY <2>4, <2>5, OwnAgree
  <2> QED
    BY <1>2, <2>1, <2>6 DEF SendAgrees
<1>7. CASE OwnKeyRead(t)
  <2>1. send'[t].key = Own(t) /\ UNCHANGED ratchet
    BY <1>4, <1>7 DEF OwnKeyRead, store, TypeInv, TabsTyped, SendType
  <2>2. PICK key \in Position : key = Own(t)
    BY <1>4, <1>7 DEF OwnKeyRead, SendOK
  <2>3. Agrees(DeviceOf[t], key)
    BY <1>4, <2>2, AbsentIsNoPosition DEF AgreeInv, KeptAgree, Own
  <2>4. Agrees(DeviceOf[t], key)'
    BY <1>4, <2>3, AgreesStays
  <2> QED
    BY <1>2, <1>3, <2>1, <2>2, <2>4 DEF SendAgrees, Agrees
<1>8. CASE OwnKeyRatcheted(t)
  <2>1. PICK next : /\ next = [send[t].key EXCEPT !.number = @ + 1]
                    /\ ratchet' = [ratchet EXCEPT ![DeviceOf[t]][DeviceOf[t]] = next]
                    /\ send' = [send EXCEPT ![t].stage = "posting", ![t].key = next]
    BY <1>8 DEF OwnKeyRatcheted
  <2>2. send'[t].stage = "posting"
    BY <1>4, <2>1 DEF TypeInv, TabsTyped, SendType
  <2>3. PICK key \in Position : key = send[t].key
    BY <1>4, <1>8 DEF OwnKeyRatcheted, SendOK
  <2>4. next \in Position /\ next.chain = key.chain
    BY <2>1, <2>3 DEF Position
  <2>5. Agrees(DeviceOf[t], key)
    BY <1>8, <2>3 DEF OwnKeyRatcheted, AgreeInv, SendAgrees
  <2>6. Agrees(DeviceOf[t], key)'
    BY <1>4, <2>5, AgreesStays
  <2>7. Agrees(DeviceOf[t], next)'
    BY <2>4, <2>6 DEF Agrees
  <2>8. KeptAgree'
    BY <2>1, <2>4, <2>7, OwnAgree
  <2> QED
    BY <1>2, <2>2, <2>8 DEF SendAgrees
<1>9. CASE SendBegins(t) \/ MessagePosted(t) \/ SendDone(t) \/ SendFails(t)
           \/ PlaintextPosted(t) \/ PlaintextDone(t)
  <2>1. UNCHANGED ratchet
    BY <1>9 DEF SendBegins, MessagePosted, SendDone, SendFails, PlaintextPosted,
           PlaintextDone, store
  <2>2. send'[t].stage \notin {"uploaded", "encrypting"}
    <3>1. send \in [Tab -> SendType]
      BY DEF TypeInv, TabsTyped
    <3>2. CASE SendBegins(t)
      BY <3>1, <3>2 DEF SendBegins, IdleSend
    <3>3. CASE MessagePosted(t)
      BY <1>4, <3>1, <3>3 DEF MessagePosted, SendType
    <3>4. CASE SendDone(t) \/ PlaintextDone(t) \/ SendFails(t)
      BY <3>1, <3>4 DEF SendDone, PlaintextDone, SendFails, IdleSend
    <3>5. CASE PlaintextPosted(t)
      BY <1>4, <3>1, <3>5 DEF PlaintextPosted, SendType
    <3> QED
      BY <1>9, <3>2, <3>3, <3>4, <3>5
  <2> QED
    BY <1>2, <1>3, <2>1, <2>2 DEF SendAgrees
<1> QED
  BY <1>5, <1>6, <1>7, <1>8, <1>9 DEF Send

\* The server's keys are stored as they are.
LEMMA StoredAgree ==
    ASSUME TypeInv, AgreeInv, [Next]_vars, NEW d \in Device, StoreMissing(d),
           UNCHANGED serverKey
    PROVE  KeptAgree'
<1>1. \A f, g \in Device :
         /\ f # d => ratchet'[f][g] = ratchet[f][g]
         /\ ratchet[f][g] # Absent => ratchet'[f][g] = ratchet[f][g]
         /\ ratchet[f][g] = Absent =>
                \/ ratchet'[f][g] = Absent
                \/ /\ ratchet'[f][g].chain = serverKey[g]
                   /\ ratchet'[f][g].number = 0
                   /\ ratchet'[f][g] \in Position
  BY StoreAt DEF TypeInv
<1>2. \A f, g \in Device : \/ ratchet'[f][g] = ratchet[f][g]
                           \/ ratchet'[f][g] # Absent => Agrees(g, ratchet[f][g])'
  BY <1>1 DEF Agrees
<1> QED
  BY <1>2, KeptStays

\* A position saved for a message is one of the chain that was read for it.
LEMMA SavedAgree ==
    ASSUME TypeInv, AgreeInv, [Next]_vars, NEW d \in Device, NEW m \in Posted,
           NEW key \in Position, Agrees(log[m].from, key), SavePosition(d, key, m)
    PROVE  KeptAgree'
<1>1. PICK e \in Device : e = log[m].from
  BY PostedAre
<1>2. Agrees(e, key)'
  BY <1>1, AgreesStays
<1>3. /\ ratchet'[d][e].chain = key.chain
      /\ \A f, g \in Device : f # d \/ g # e => ratchet'[f][g] = ratchet[f][g]
  BY <1>1, SaveAt
<1> QED
  BY <1>2, <1>3, KeptStays DEF Agrees

LEMMA AgreeReceive ==
    ASSUME TypeInv, AgreeInv, [Next]_vars, NEW t \in Tab, NEW m \in Id, ReceiveStep(t, m)
    PROVE  AgreeInv'
<1> USE SenderKeysAssumption
<1>1. /\ UNCHANGED <<serverKey, log, send, load>>
      /\ \A u \in Tab, i \in Id : u # t \/ i # m => reader'[u][i] = reader[u][i]
      /\ m \in Posted
  BY ReceiveFrame
<1>2. ASSUME KeptAgree', ReadAgrees(t, m)'
      PROVE  AgreeInv'
  <2>1. \A u \in Tab : SendAgrees(u)' /\ LoadAgrees(u)'
    BY <1>1, UntouchedAgree
  <2>2. \A u \in Tab, i \in Id : ReadAgrees(u, i)'
    BY <1>1, <1>2, UntouchedAgree
  <2> QED
    BY <1>2, <2>1, <2>2 DEF AgreeInv
<1>3. ASSUME reader'[t][m].stage # "ratcheting"
      PROVE  ReadAgrees(t, m)'
  BY <1>3 DEF ReadAgrees
<1>4. ASSUME KeptAgree', PushTried(t, m, ratchet'[DeviceOf[t]][log[m].from])
      PROVE  ReadAgrees(t, m)'
  <2>1. PICK e \in Device : e = log[m].from
    BY <1>1, PostedAre
  <2>2. PICK key : key = ratchet'[DeviceOf[t]][e]
    OBVIOUS
  <2>3. Agrees(e, ratchet[DeviceOf[t]][e])'
    BY <1>4, <2>1 DEF KeptAgree, PushTried, Absent
  <2>4. CASE PushAt(t, m, "ratcheting", key)
    BY <1>1, <2>1, <2>2, <2>3, <2>4, PushAtIs DEF ReadAgrees, Agrees
  <2>5. CASE PushAdded(t, m, "unreadable")
    BY <1>3, <2>5, PushAddedIs
  <2> QED
    BY <1>4, <2>1, <2>2, <2>4, <2>5 DEF PushTried
<1>5. CASE Pushed(t, m)
  <2>1. UNCHANGED ratchet
    BY <1>5 DEF Pushed, store
  <2>2. KeptAgree'
    BY <2>1, KeptStays
  <2>3. CASE PushTried(t, m, ratchet[DeviceOf[t]][log[m].from])
    BY <1>2, <1>4, <2>1, <2>2, <2>3
  <2>4. CASE PushAdded(t, m, "text") \/ PushAt(t, m, "fetching", Absent)
    BY <1>2, <1>3, <2>2, <2>4, PushAtIs, PushAddedIs
  <2> QED
    BY <1>5, <2>3, <2>4 DEF Pushed
<1>6. CASE PushFetched(t, m)
  <2>1. CASE /\ StoreMissing(DeviceOf[t])
             /\ PushTried(t, m, ratchet'[DeviceOf[t]][log[m].from])
    <3>1. KeptAgree'
      BY <1>1, <2>1, StoredAgree
    <3> QED
      BY <1>2, <1>4, <2>1, <3>1
  <2>2. CASE UNCHANGED ratchet /\ PushAdded(t, m, "unreadable")
    BY <1>2, <1>3, <2>2, KeptStays, PushAddedIs
  <2> QED
    BY <1>6, <2>1, <2>2 DEF PushFetched
<1>7. CASE PushRatcheted(t, m)
  <2>1. /\ reader[t][m].stage = "ratcheting"
        /\ reader[t][m].key \in Position
        /\ SavePosition(DeviceOf[t], reader[t][m].key, m)
        /\ PushAt(t, m, "opening", reader[t][m].key)
    BY <1>7 DEF PushRatcheted, TypeInv, ReadOK
  <2>2. Agrees(log[m].from, reader[t][m].key)
    BY <2>1 DEF AgreeInv, ReadAgrees
  <2>3. KeptAgree'
    BY <1>1, <2>1, <2>2, SavedAgree
  <2> QED
    BY <1>2, <1>3, <2>1, <2>3, PushAtIs
<1>8. CASE PushOpened(t, m) \/ PushShown(t, m)
  <2>1. UNCHANGED ratchet
    BY <1>8 DEF PushOpened, PushShown, store
  <2>2. reader'[t][m].stage \in {"opened", "idle"}
    BY <1>8, PushAtIs, PushAddedIs DEF PushOpened, PushShown
  <2> QED
    BY <1>2, <1>3, <2>1, <2>2, KeptStays
<1> QED
  BY <1>5, <1>6, <1>7, <1>8 DEF ReceiveStep

LEMMA AgreeBrowse ==
    ASSUME TypeInv, AgreeInv, [Next]_vars, NEW t \in Tab, Browse(t), ~ Reload(t)
    PROVE  AgreeInv'
<1> USE SenderKeysAssumption
<1>1. /\ UNCHANGED <<serverKey, log, send, reader>>
      /\ \A u \in Tab : u # t => load'[u] = load[u]
  BY BrowseFrame
<1>2. ASSUME KeptAgree', LoadAgrees(t)'
      PROVE  AgreeInv'
  BY <1>1, <1>2, UntouchedAgree DEF AgreeInv
<1>3. ASSUME UNCHANGED ratchet
      PROVE  KeptAgree'
  BY <1>3, KeptStays
<1>4. ASSUME load'[t].stage # "ratcheting"
      PROVE  LoadAgrees(t)'
  BY <1>4 DEF LoadAgrees
<1>5. load \in [Tab -> LoadType] /\ load[t] \in LoadType
  BY DEF TypeInv, TabsTyped
<1>6. ASSUME NEW as, Result(t, as)
      PROVE  LoadAgrees(t)'
  BY <1>4, <1>5, <1>6 DEF Result
<1>7. ASSUME KeptAgree', load[t].next <= load[t].last, load[t].stage # "idle", NEW key,
             key = ratchet'[DeviceOf[t]][log[load[t].next].from],
             HistoryTried(t, load[t].next, key)
      PROVE  LoadAgrees(t)'
  <2>1. PICK e \in Device : e = log[load[t].next].from
    BY <1>7, LookedAt
  <2>2. Agrees(e, ratchet[DeviceOf[t]][e])'
    BY SMTT(30), <1>7, <2>1 DEF KeptAgree, HistoryTried, Absent
  <2>3. CASE load' = [load EXCEPT ![t].stage = "ratcheting", ![t].key = key]
    <3>1. load'[t].key = key /\ load'[t].next = load[t].next
      BY <1>5, <2>3 DEF LoadType
    <3> QED
      BY <1>1, <1>7, <2>1, <2>2, <3>1 DEF LoadAgrees, Agrees
  <2> QED
    BY <1>6, <1>7, <2>3 DEF HistoryTried
<1>8. CASE HistoryRequested(t)
  <2>1. UNCHANGED ratchet /\ load'[t].stage = "keys"
    BY <1>5, <1>8 DEF HistoryRequested, store, IdleLoad
  <2> QED
    BY <1>2, <1>3, <1>4, <2>1
<1>9. CASE HistoryKeys(t)
  <2>1. load'[t].stage = "lookup"
    BY <1>5, <1>9 DEF HistoryKeys, LoadType
  <2>2. KeptAgree'
    BY <1>1, <1>3, <1>9, StoredAgree DEF HistoryKeys
  <2> QED
    BY <1>2, <1>4, <2>1, <2>2
<1>10. CASE HistoryLookup(t)
  <2>1. /\ UNCHANGED ratchet /\ load[t].stage # "idle" /\ load[t].next <= load[t].last
    BY <1>10 DEF HistoryLookup, store
  <2>2. KeptAgree'
    BY <1>3, <2>1
  <2>3. CASE Result(t, "text")
    BY <1>2, <1>6, <2>2, <2>3
  <2>4. CASE HistoryTried(t, load[t].next, ratchet[DeviceOf[t]][log[load[t].next].from])
    BY <1>2, <1>7, <2>1, <2>2, <2>4
  <2>5. CASE load' = [load EXCEPT ![t].stage = "fetching"]
    <3>1. load'[t].stage = "fetching"
      BY <1>5, <2>5 DEF LoadType
    <3> QED
      BY <1>2, <1>4, <2>2, <3>1
  <2> QED
    BY <1>10, <2>3, <2>4, <2>5 DEF HistoryLookup
<1>11. CASE HistoryFetched(t)
  <2>1. load[t].stage # "idle" /\ load[t].next <= load[t].last
    BY <1>11 DEF HistoryFetched, TypeInv, LoadOK
  <2>2. CASE /\ StoreMissing(DeviceOf[t])
             /\ HistoryTried(t, load[t].next,
                             ratchet'[DeviceOf[t]][log[load[t].next].from])
    <3>1. KeptAgree'
      BY <1>1, <2>2, StoredAgree
    <3> QED
      BY <1>2, <1>7, <2>1, <2>2, <3>1
  <2>3. CASE UNCHANGED ratchet /\ Result(t, "unreadable")
    BY <1>2, <1>3, <1>6, <2>3
  <2> QED
    BY <1>11, <2>2, <2>3 DEF HistoryFetched
<1>12. CASE HistoryRatcheted(t)
  <2>1. /\ load[t].stage = "ratcheting" /\ load[t].next <= load[t].last
        /\ load[t].key \in Position
        /\ SavePosition(DeviceOf[t], load[t].key, load[t].next)
    BY <1>12 DEF HistoryRatcheted, TypeInv, LoadOK
  <2>2. load[t].next \in Posted
    BY <2>1, LookedAt
  <2>3. Agrees(log[load[t].next].from, load[t].key)
    BY <2>1 DEF AgreeInv, LoadAgrees
  <2>4. KeptAgree'
    BY <2>1, <2>2, <2>3, SavedAgree
  <2>5. load'[t].stage = "opening"
    BY <1>5, <1>12 DEF HistoryRatcheted, LoadType
  <2> QED
    BY <1>2, <1>4, <2>4, <2>5
<1>13. CASE HistoryOpened(t)
  BY <1>2, <1>3, <1>6, <1>13 DEF HistoryOpened
<1>14. CASE HistoryShown(t)
  <2>1. UNCHANGED ratchet /\ load'[t].stage = "idle"
    BY <1>5, <1>14 DEF HistoryShown, store, IdleLoad
  <2> QED
    BY <1>2, <1>3, <1>4, <2>1
<1> QED
  BY <1>8, <1>9, <1>10, <1>11, <1>12, <1>13, <1>14 DEF Browse

LEMMA AgreeReload ==
    ASSUME TypeInv, AgreeInv, [Next]_vars, NEW t \in Tab, Reload(t)
    PROVE  AgreeInv'
<1>1. KeptAgree'
  BY KeptStays DEF Reload, store
<1>2. SendAgrees(t)' /\ LoadAgrees(t)' /\ \A m \in Id : ReadAgrees(t, m)'
  BY ReloadAt DEF SendAgrees, LoadAgrees, ReadAgrees, IdleSend, IdleLoad, IdleRead
<1>3. \A u \in Tab : u # t => /\ SendAgrees(u)' /\ LoadAgrees(u)'
                              /\ \A m \in Id : ReadAgrees(u, m)'
  BY ReloadAt, UntouchedAgree
<1> QED
  BY <1>1, <1>2, <1>3 DEF AgreeInv

LEMMA AgreeStep ==
    ASSUME TypeInv, AgreeInv, [Next]_vars
    PROVE  AgreeInv'
<1>1. CASE UNCHANGED vars
  <2>1. KeptAgree'
    BY <1>1, KeptStays DEF vars, store
  <2> QED
    BY <1>1, <2>1, UntouchedAgree DEF vars, AgreeInv
<1>2. ASSUME NEW t \in Tab, KeepText(t)
      PROVE  AgreeInv'
  <2>1. UNCHANGED <<ratchet, send, reader, load>>
    BY <1>2, KeepFrame
  <2> QED
    BY <2>1, KeptStays, UntouchedAgree DEF AgreeInv
<1> QED
  BY <1>1, <1>2, AgreeSend, AgreeReceive, AgreeBrowse, AgreeReload
     DEF Next, Receive, ReceiveStep

\* Every position kept of a device's chain, on its own device and on the others', is of
\* the chain the server has of it, unless it has uploaded one key over another
\* (distribute_sender_key); also with several tabs to a device.
THEOREM ChainsAlwaysAgree == Spec => []ChainsAgree
<1>1. Init => TypeInv /\ AgreeInv
  BY TypesInit, AgreeInit
<1>2. TypeInv /\ AgreeInv /\ [Next]_vars => (TypeInv /\ AgreeInv)'
  BY TypesStep, AgreeStep
<1>3. AgreeInv => ChainsAgree
  BY DEF AgreeInv, KeptAgree, Agrees, Once, ChainsAgree
<1> QED
  BY <1>1, <1>2, <1>3, PTL DEF Spec

-----------------------------------------------------------------------------
(***************************************************************************)
(* Every copy of a chain is filed under the device that generated it.      *)
(***************************************************************************)

KeptOf(d, c) == \E f \in Device : ratchet[f][d].chain = c

SentOf(d, c) ==
    \/ serverKey[d] = c
    \/ \E t \in Tab : DeviceOf[t] = d /\ send[t].key.chain = c
    \/ \E i \in Posted : log[i].from = d /\ log[i].chain = c

ReadOf(d, c) ==
    \E t \in Tab :
        \/ \E m \in Id : /\ reader[t][m].stage = "ratcheting"
                         /\ log[m].from = d /\ reader[t][m].key.chain = c
        \/ /\ load[t].stage = "ratcheting"
           /\ log[load[t].next].from = d /\ load[t].key.chain = c

Holds(d, c) == KeptOf(d, c) \/ SentOf(d, c) \/ ReadOf(d, c)

ChainsOwned ==
    \A c \in Chain : \A d \in Device :
        Holds(d, c) => c \in chains /\ \A e \in Device : Holds(e, c) => e = d

HoldsStay == \A d \in Device, c \in Chain : Holds(d, c)' => Holds(d, c)

LEMMA OwnedInit == Init => ChainsOwned
<1> SUFFICES ASSUME Init, NEW d \in Device, NEW c \in Chain
             PROVE  ~ Holds(d, c)
  BY DEF ChainsOwned
<1>1. ~ KeptOf(d, c)
  BY SenderKeysAssumption DEF Init, KeptOf, Absent
<1>2. ~ SentOf(d, c)
  BY SenderKeysAssumption DEF Init, SentOf, Absent, IdleSend, Posted
<1>3. ~ ReadOf(d, c)
  BY DEF Init, ReadOf, IdleRead, IdleLoad
<1> QED
  BY <1>1, <1>2, <1>3 DEF Holds

\* Chains keep to their devices while none is generated.
LEMMA OwnedStay ==
    ASSUME ChainsOwned, UNCHANGED chains, HoldsStay
    PROVE  ChainsOwned'
<1> SUFFICES ASSUME NEW c \in Chain, NEW d \in Device, Holds(d, c)'
             PROVE  c \in chains' /\ \A e \in Device : Holds(e, c)' => e = d
  BY DEF ChainsOwned
<1> QED
  BY DEF ChainsOwned, HoldsStay

\* What is read goes on being of the device whose message it is for.
LEMMA ReadOfStays ==
    ASSUME TypeInv, LogStays, UNCHANGED <<reader, load>>, NEW d \in Device, NEW c,
           ReadOf(d, c)'
    PROVE  ReadOf(d, c)
<1>1. ASSUME NEW t \in Tab, NEW m \in Id, reader[t][m].stage = "ratcheting"
      PROVE  log'[m] = log[m]
  BY <1>1 DEF TypeInv, ReadOK, LogStays
<1>2. ASSUME NEW t \in Tab, load[t].stage = "ratcheting"
      PROVE  log'[load[t].next] = log[load[t].next]
  BY <1>2, LookedAt DEF TypeInv, LoadOK, LogStays
<1> QED
  BY <1>1, <1>2 DEF ReadOf

\* A sending tab passes on the chain it works with, which its device holds.
LEMMA HoldsSend ==
    ASSUME TypeInv, LogStays, UNCHANGED <<reader, load>>, NEW t \in Tab,
           \A u \in Tab : u # t => send'[u] = send[u],
           NEW c, c = None \/ Holds(DeviceOf[t], c),
           send'[t].key.chain \in {None, c},
           \A d \in Device : \/ serverKey'[d] = serverKey[d]
                             \/ d = DeviceOf[t] /\ serverKey'[d] = c,
           \A f, d \in Device : \/ ratchet'[f][d].chain = ratchet[f][d].chain
                                \/ d = DeviceOf[t] /\ ratchet'[f][d].chain = c,
           \A i \in Posted' : \/ i \in Posted
                              \/ log'[i].from = DeviceOf[t] /\ log'[i].chain \in {None, c}
    PROVE  HoldsStay
<1> SUFFICES ASSUME NEW d \in Device, NEW b \in Chain, Holds(d, b)'
             PROVE  Holds(d, b)
  BY DEF HoldsStay
<1>1. b # None
  BY SenderKeysAssumption
<1>2. CASE KeptOf(d, b)'
  BY <1>1, <1>2 DEF KeptOf, Holds
<1>3. CASE ReadOf(d, b)'
  BY <1>3, ReadOfStays DEF Holds
<1>4. CASE SentOf(d, b)'
  <2>1. CASE serverKey'[d] = b
    BY <1>1, <2>1 DEF SentOf, Holds
  <2>2. ASSUME NEW u \in Tab, DeviceOf[u] = d, send'[u].key.chain = b
        PROVE  Holds(d, b)
    <3>1. CASE u # t
      BY <2>2, <3>1 DEF SentOf, Holds
    <3>2. CASE u = t
      BY <1>1, <2>2, <3>2
    <3> QED
      BY <3>1, <3>2
  <2>3. ASSUME NEW i \in Posted', log'[i].from = d, log'[i].chain = b
        PROVE  Holds(d, b)
    <3>1. CASE i \in Posted
      BY <2>3, <3>1 DEF SentOf, Holds, LogStays
    <3>2. CASE i \notin Posted
      BY <1>1, <2>3, <3>2
    <3> QED
      BY <3>1, <3>2
  <2> QED
    BY <1>4, <2>1, <2>2, <2>3 DEF SentOf
<1> QED
  BY <1>2, <1>3, <1>4 DEF Holds

\* A reading tab passes on a chain that is held, to where it is filed.
LEMMA HoldsRead ==
    ASSUME TypeInv, UNCHANGED <<serverKey, log, send>>,
           \A f, d \in Device, c \in Chain : ratchet'[f][d].chain = c => Holds(d, c),
           \A t \in Tab, m \in Id :
              reader'[t][m].stage = "ratcheting" =>
                  \/ reader'[t][m] = reader[t][m]
                  \/ \E f \in Device :
                        reader'[t][m].key.chain = ratchet'[f][log[m].from].chain,
           \A t \in Tab :
              load'[t].stage = "ratcheting" =>
                  \/ load'[t] = load[t]
                  \/ \E f \in Device :
                        load'[t].key.chain = ratchet'[f][log[load'[t].next].from].chain
    PROVE  HoldsStay
<1> SUFFICES ASSUME NEW d \in Device, NEW b \in Chain, Holds(d, b)'
             PROVE  Holds(d, b)
  BY DEF HoldsStay
<1>1. CASE KeptOf(d, b)'
  BY <1>1 DEF KeptOf
<1>2. CASE SentOf(d, b)'
  BY <1>2 DEF SentOf, Holds, Posted
<1>3. CASE ReadOf(d, b)'
  <2>1. ASSUME NEW t \in Tab, NEW m \in Id, reader'[t][m].stage = "ratcheting",
               log[m].from = d, reader'[t][m].key.chain = b
        PROVE  Holds(d, b)
    <3>1. CASE reader'[t][m] = reader[t][m]
      BY <2>1, <3>1 DEF ReadOf, Holds
    <3> QED
      BY <2>1, <3>1
  <2>2. ASSUME NEW t \in Tab, load'[t].stage = "ratcheting",
               log[load'[t].next].from = d, load'[t].key.chain = b
        PROVE  Holds(d, b)
    <3>1. CASE load'[t] = load[t]
      BY <2>2, <3>1 DEF ReadOf, Holds
    <3> QED
      BY <2>2, <3>1
  <2> QED
    BY <1>3, <2>1, <2>2 DEF ReadOf
<1> QED
  BY <1>1, <1>2, <1>3 DEF Holds

\* Only an unused chain is generated.
LEMMA OwnedBegin ==
    ASSUME TypeInv, ChainsOwned, NEW t \in Tab, SendBegins(t)
    PROVE  ChainsOwned'
<1> USE SenderKeysAssumption
<1>1. /\ UNCHANGED <<serverKey, log, ratchet, reader, load>>
      /\ \A u \in Tab : u # t => send'[u] = send[u]
  BY SendFrame DEF SendBegins, store, Send
<1>2. LogStays
  BY <1>1, LogSame
<1>3. ASSUME UNCHANGED chains, NEW next, next = [IdleSend EXCEPT !.stage = "reading"],
             send' = [send EXCEPT ![t] = next]
      PROVE  ChainsOwned'
  <2>1. send'[t] = next /\ next.key.chain = None
    BY <1>3 DEF TypeInv, TabsTyped, IdleSend, Absent
  <2>2. \A i \in Posted' : i \in Posted
    BY <1>1 DEF Posted
  <2> QED
    BY <1>1, <1>2, <1>3, <2>1, <2>2, HoldsSend, OwnedStay
<1>4. ASSUME NEW c \in Chain \ chains, chains' = chains \cup {c},
             NEW next, next = [IdleSend EXCEPT !.stage = "uploading",
                                               !.key = [chain |-> c, number |-> 0]],
             send' = [send EXCEPT ![t] = next]
      PROVE  ChainsOwned'
  <2>1. send'[t] = next /\ next.key.chain = c
    BY <1>4 DEF TypeInv, TabsTyped, IdleSend
  <2> SUFFICES ASSUME NEW b \in Chain, NEW d \in Device, Holds(d, b)'
               PROVE  b \in chains' /\ \A e \in Device : Holds(e, b)' => e = d
    BY DEF ChainsOwned
  <2>2. \A e \in Device, a \in Chain :
           Holds(e, a)' => Holds(e, a) \/ (e = DeviceOf[t] /\ a = c)
    <3> SUFFICES ASSUME NEW e \in Device, NEW a \in Chain, Holds(e, a)', ~ Holds(e, a)
                 PROVE  e = DeviceOf[t] /\ a = c
      OBVIOUS
    <3>1. ~ KeptOf(e, a)' /\ ~ ReadOf(e, a)'
      BY <1>1, <1>2, ReadOfStays DEF Holds, KeptOf
    <3>2. SentOf(e, a)' /\ ~ SentOf(e, a)
      BY <3>1 DEF Holds
    <3>3. PICK u \in Tab : DeviceOf[u] = e /\ send'[u].key.chain = a
      BY <1>1, <3>2 DEF SentOf, Posted
    <3>4. u = t
      BY <1>1, <3>2, <3>3 DEF SentOf
    <3> QED
      BY <2>1, <3>3, <3>4
  <2>3. \A e \in Device : ~ Holds(e, c)
    BY DEF ChainsOwned
  <2>4. CASE b = c
    BY <1>4, <2>2, <2>3, <2>4
  <2>5. CASE b # c
    <3>1. \A e \in Device : Holds(e, b)' => Holds(e, b)
      BY <2>2, <2>5
    <3> QED
      BY <1>4, <3>1 DEF ChainsOwned
  <2> QED
    BY <2>4, <2>5
<1> QED
  BY <1>3, <1>4 DEF SendBegins

LEMMA OwnedSend ==
    ASSUME TypeInv, ChainsOwned, NEW t \in Tab, Send(t), ~ SendBegins(t), LogStays
    PROVE  ChainsOwned'
<1> USE SenderKeysAssumption
<1>1. /\ UNCHANGED <<reader, load, chains>>
      /\ \A u \in Tab : u # t => send'[u] = send[u]
  BY SendFrame DEF Send, KeyUploaded, KeySaved, OwnKeyRead, OwnKeyRatcheted,
     MessagePosted, SendDone, SendFails, PlaintextPosted, PlaintextDone, history, keyHistory
<1>2. send \in [Tab -> SendType] /\ send[t] \in SendType /\ SendOK(t) /\ KeysTyped
  BY DEF TypeInv, TabsTyped
<1>3. PICK d \in Device : d = DeviceOf[t]
  OBVIOUS
<1>4. PICK c : c = send[t].key.chain
  OBVIOUS
<1>5. Holds(d, c)
  BY <1>3, <1>4 DEF Holds, SentOf
<1>6. ASSUME UNCHANGED log
      PROVE  \A i \in Posted' : i \in Posted
  BY <1>6 DEF Posted
<1>7. CASE KeyUploaded(t)
  <2>1. /\ send'[t].key = send[t].key /\ UNCHANGED <<log, ratchet>>
        /\ serverKey' = [serverKey EXCEPT ![d] = c]
    BY <1>2, <1>3, <1>4, <1>7 DEF KeyUploaded, SendType, store
  <2>2. \A e \in Device : \/ serverKey'[e] = serverKey[e]
                          \/ e = d /\ serverKey'[e] = c
    BY <1>2, <2>1 DEF KeysTyped
  <2> QED
    BY <1>1, <1>3, <1>4, <1>5, <1>6, <2>1, <2>2, HoldsSend, OwnedStay
<1>8. ASSUME UNCHANGED <<serverKey, log>>, NEW p \in Position, p.chain = c,
             ratchet' = [ratchet EXCEPT ![d][d] = p], send'[t].key.chain = c
      PROVE  ChainsOwned'
  <2>1. \A f, e \in Device : \/ ratchet'[f][e].chain = ratchet[f][e].chain
                             \/ e = d /\ ratchet'[f][e].chain = c
    BY <1>2, <1>8, RatchetAt
  <2> QED
    BY <1>1, <1>3, <1>5, <1>6, <1>8, <2>1, HoldsSend, OwnedStay
<1>9. CASE KeySaved(t)
  <2>1. PICK p \in Position : p = send[t].key
    BY <1>2, <1>9 DEF KeySaved, SendOK
  <2>2. send'[t].key = p
    BY <1>2, <1>9, <2>1 DEF KeySaved, SendType
  <2> QED
    BY <1>3, <1>4, <1>8, <1>9, <2>1, <2>2 DEF KeySaved
<1>10. CASE OwnKeyRead(t)
  <2>1. send'[t].key = Own(t) /\ UNCHANGED <<serverKey, log, ratchet>>
    BY <1>2, <1>10 DEF OwnKeyRead, SendType, store
  <2>2. Holds(d, Own(t).chain)
    BY <1>3 DEF Holds, KeptOf, Own
  <2> QED
    BY <1>1, <1>3, <1>6, <2>1, <2>2, HoldsSend, OwnedStay
<1>11. CASE OwnKeyRatcheted(t)
  <2>1. PICK p : /\ p = [send[t].key EXCEPT !.number = @ + 1]
                 /\ ratchet' = [ratchet EXCEPT ![d][d] = p]
                 /\ send' = [send EXCEPT ![t].stage = "posting", ![t].key = p]
    BY <1>3, <1>11 DEF OwnKeyRatcheted
  <2>2. p \in Position /\ p.chain = c
    <3>1. PICK key \in Position : key = send[t].key
      BY <1>2, <1>11 DEF OwnKeyRatcheted, SendOK
    <3> QED
      BY <1>4, <2>1, <3>1 DEF Position
  <2>3. send'[t].key.chain = c
    BY <1>2, <2>1, <2>2 DEF SendType
  <2> QED
    BY <1>8, <1>11, <2>1, <2>2, <2>3 DEF OwnKeyRatcheted
<1>12. ASSUME NEW key \in Position \cup {Absent}, Post(t, key), key.chain \in {None, c},
              UNCHANGED <<serverKey, ratchet>>, send'[t].key = send[t].key
       PROVE  ChainsOwned'
  <2>1. \A i \in Posted' : \/ i \in Posted
                           \/ log'[i].from = d /\ log'[i].chain \in {None, c}
    BY <1>3, <1>12, LogGrows
  <2> QED
    BY <1>1, <1>3, <1>4, <1>5, <1>12, <2>1, HoldsSend, OwnedStay
<1>13. CASE MessagePosted(t) \/ PlaintextPosted(t)
  <2>1. UNCHANGED <<serverKey, ratchet>>
    BY <1>13 DEF MessagePosted, PlaintextPosted, store
  <2>2. send'[t].key = send[t].key
    <3>1. \E stage : \E i : send' = [send EXCEPT ![t].stage = stage, ![t].id = i]
      BY <1>13 DEF MessagePosted, PlaintextPosted
    <3> QED
      BY <1>2, <3>1 DEF SendType
  <2>3. PICK key \in Position \cup {Absent} : Post(t, key) /\ key.chain \in {None, c}
    BY <1>2, <1>4, <1>13 DEF MessagePosted, PlaintextPosted, SendType, Absent
  <2> QED
    BY <1>12, <2>1, <2>2, <2>3
<1>14. CASE SendDone(t) \/ PlaintextDone(t) \/ SendFails(t)
  <2>1. UNCHANGED <<serverKey, log, ratchet>>
    BY <1>14 DEF SendDone, PlaintextDone, SendFails, store
  <2>2. send'[t].key.chain = None
    BY <1>2, <1>14 DEF SendDone, PlaintextDone, SendFails, IdleSend, Absent
  <2> QED
    BY <1>1, <1>3, <1>4, <1>5, <1>6, <2>1, <2>2, HoldsSend, OwnedStay
<1> QED
  BY SMTT(30), <1>7, <1>9, <1>10, <1>11, <1>13, <1>14 DEF Send

\* The positions after the server's keys are stored, or one is saved for a message.
LEMMA StoredHeld ==
    ASSUME TypeInv, NEW d \in Device, StoreMissing(d)
    PROVE  \A f, g \in Device, c \in Chain : ratchet'[f][g].chain = c => Holds(g, c)
<1>1. \A f, g \in Device :
         /\ f # d => ratchet'[f][g] = ratchet[f][g]
         /\ ratchet[f][g] # Absent => ratchet'[f][g] = ratchet[f][g]
         /\ ratchet[f][g] = Absent =>
                \/ ratchet'[f][g] = Absent
                \/ /\ ratchet'[f][g].chain = serverKey[g]
                   /\ ratchet'[f][g].number = 0
                   /\ ratchet'[f][g] \in Position
  BY StoreAt DEF TypeInv
<1> QED
  BY <1>1, SenderKeysAssumption DEF Holds, KeptOf, SentOf, Absent

LEMMA SavedHeld ==
    ASSUME TypeInv, NEW d \in Device, NEW m \in Posted, NEW key \in Position,
           SavePosition(d, key, m), ReadOf(log[m].from, key.chain)
    PROVE  \A f, g \in Device, c \in Chain : ratchet'[f][g].chain = c => Holds(g, c)
<1>1. /\ ratchet'[d][log[m].from].chain = key.chain
      /\ \A f, g \in Device : f # d \/ g # log[m].from => ratchet'[f][g] = ratchet[f][g]
  BY SaveAt
<1> QED
  BY <1>1 DEF Holds, KeptOf

LEMMA SameHeld ==
    ASSUME UNCHANGED ratchet
    PROVE  \A f, g \in Device, c \in Chain : ratchet'[f][g].chain = c => Holds(g, c)
BY DEF Holds, KeptOf

LEMMA OwnedReceive ==
    ASSUME TypeInv, ChainsOwned, NEW t \in Tab, NEW m \in Id, ReceiveStep(t, m)
    PROVE  ChainsOwned'
<1>1. /\ UNCHANGED <<serverKey, log, send, load, chains>>
      /\ \A u \in Tab, i \in Id : u # t \/ i # m => reader'[u][i] = reader[u][i]
      /\ m \in Posted /\ DeviceOf[t] \in Device
  BY ReceiveFrame, SenderKeysAssumption DEF keyHistory
<1>2. \A f, g \in Device, c \in Chain : ratchet'[f][g].chain = c => Holds(g, c)
  <2>1. CASE PushRatcheted(t, m)
    <3>1. PICK key \in Position : key = reader[t][m].key
      BY <2>1 DEF PushRatcheted, TypeInv, ReadOK
    <3>2. SavePosition(DeviceOf[t], key, m) /\ ReadOf(log[m].from, key.chain)
      BY <2>1, <3>1 DEF PushRatcheted, ReadOf
    <3> QED
      BY <1>1, <3>2, SavedHeld
  <2>2. CASE StoreMissing(DeviceOf[t])
    BY <1>1, <2>2, StoredHeld
  <2>3. CASE UNCHANGED ratchet
    BY <2>3, SameHeld
  <2> QED
    BY <2>1, <2>2, <2>3
       DEF ReceiveStep, Pushed, PushFetched, PushOpened, PushShown, store
<1>3. reader'[t][m].stage = "ratcheting" =>
          reader'[t][m].key.chain = ratchet'[DeviceOf[t]][log[m].from].chain
  <2>1. ASSUME PushTried(t, m, ratchet'[DeviceOf[t]][log[m].from]),
               reader'[t][m].stage = "ratcheting"
        PROVE  reader'[t][m].key = ratchet'[DeviceOf[t]][log[m].from]
    BY <2>1, PushAtIs, PushAddedIs DEF PushTried
  <2>2. CASE Pushed(t, m)
    <3>1. UNCHANGED ratchet
      BY <2>2 DEF Pushed, store
    <3>2. \/ PushTried(t, m, ratchet'[DeviceOf[t]][log[m].from])
          \/ PushAdded(t, m, "text") \/ PushAt(t, m, "fetching", Absent)
      BY <2>2, <3>1 DEF Pushed
    <3> QED
      BY <2>1, <3>2, PushAtIs, PushAddedIs
  <2>3. CASE PushFetched(t, m)
    BY <2>1, <2>3, PushAddedIs DEF PushFetched
  <2>4. CASE PushRatcheted(t, m) \/ PushOpened(t, m) \/ PushShown(t, m)
    BY <2>4, PushAtIs, PushAddedIs DEF PushRatcheted, PushOpened, PushShown
  <2> QED
    BY <2>2, <2>3, <2>4 DEF ReceiveStep
<1> QED
  BY <1>1, <1>2, <1>3, HoldsRead, OwnedStay

LEMMA OwnedBrowse ==
    ASSUME TypeInv, ChainsOwned, NEW t \in Tab, Browse(t), ~ Reload(t)
    PROVE  ChainsOwned'
<1>1. /\ UNCHANGED <<serverKey, log, send, reader, chains>>
      /\ \A u \in Tab : u # t => load'[u] = load[u]
      /\ DeviceOf[t] \in Device
  BY BrowseFrame, SenderKeysAssumption DEF keyHistory
<1>2. \A f, g \in Device, c \in Chain : ratchet'[f][g].chain = c => Holds(g, c)
  <2>1. CASE HistoryRatcheted(t)
    <3>1. PICK key \in Position : key = load[t].key
      BY <2>1 DEF HistoryRatcheted, TypeInv, LoadOK
    <3>2. PICK m \in Posted : m = load[t].next
      BY <2>1, LookedAt DEF HistoryRatcheted, TypeInv, LoadOK
    <3>3. SavePosition(DeviceOf[t], key, m) /\ ReadOf(log[m].from, key.chain)
      BY <2>1, <3>1, <3>2 DEF HistoryRatcheted, ReadOf
    <3> QED
      BY <1>1, <3>3, SavedHeld
  <2>2. CASE StoreMissing(DeviceOf[t])
    BY <1>1, <2>2, StoredHeld
  <2>3. CASE UNCHANGED ratchet
    BY <2>3, SameHeld
  <2> QED
    BY <2>1, <2>2, <2>3 DEF Browse, HistoryRequested, HistoryKeys, HistoryLookup,
       HistoryFetched, HistoryOpened, HistoryShown, store
<1>3. load \in [Tab -> LoadType] /\ load[t] \in LoadType
  BY DEF TypeInv, TabsTyped
<1>4. load'[t].stage = "ratcheting" =>
          load'[t].key.chain = ratchet'[DeviceOf[t]][log[load'[t].next].from].chain
  <2>1. ASSUME NEW as, Result(t, as)
        PROVE  load'[t].stage # "ratcheting"
    BY <1>3, <2>1 DEF Result
  <2>2. ASSUME NEW key, key = ratchet'[DeviceOf[t]][log[load[t].next].from],
               HistoryTried(t, load[t].next, key), load'[t].stage = "ratcheting"
        PROVE  load'[t].key.chain = ratchet'[DeviceOf[t]][log[load'[t].next].from].chain
    <3>1. load' = [load EXCEPT ![t].stage = "ratcheting", ![t].key = key]
      BY <2>1, <2>2 DEF HistoryTried
    <3>2. load'[t].key = key /\ load'[t].next = load[t].next
      BY SMTT(30), <1>3, <3>1 DEF LoadType
    <3> QED
      BY <2>2, <3>2
  <2>3. CASE HistoryLookup(t)
    <3>1. UNCHANGED ratchet
      BY <2>3 DEF HistoryLookup, store
    <3>2. CASE load' = [load EXCEPT ![t].stage = "fetching"]
      BY SMTT(30), <1>3, <3>2 DEF LoadType
    <3> QED
      BY <2>1, <2>2, <2>3, <3>1, <3>2 DEF HistoryLookup
  <2>4. CASE HistoryFetched(t)
    BY <2>1, <2>2, <2>4 DEF HistoryFetched
  <2>5. CASE HistoryRequested(t) \/ HistoryKeys(t) \/ HistoryRatcheted(t) \/ HistoryShown(t)
    <3>1. \/ \E stage \in {"lookup", "opening"} : load' = [load EXCEPT ![t].stage = stage]
          \/ \E record : record.stage # "ratcheting" /\ load' = [load EXCEPT ![t] = record]
      BY <2>5 DEF HistoryRequested, HistoryKeys, HistoryRatcheted, HistoryShown, IdleLoad
    <3> QED
      BY <1>3, <3>1 DEF LoadType
  <2>6. CASE HistoryOpened(t)
    BY <2>1, <2>6 DEF HistoryOpened
  <2> QED
    BY <2>3, <2>4, <2>5, <2>6 DEF Browse
<1> QED
  BY SMTT(30), <1>1, <1>2, <1>4, HoldsRead, OwnedStay

LEMMA OwnedReload ==
    ASSUME TypeInv, ChainsOwned, NEW t \in Tab, Reload(t)
    PROVE  ChainsOwned'
<1>1. UNCHANGED <<serverKey, log, ratchet, chains>>
  BY DEF Reload, keyHistory
<1>2. \A u \in Tab : u # t => /\ send'[u] = send[u] /\ load'[u] = load[u]
                              /\ reader'[u] = reader[u]
  BY ReloadAt
<1>3. /\ send'[t].key.chain = None /\ load'[t].stage = "idle"
      /\ \A m \in Id : reader'[t][m].stage = "idle"
  BY ReloadAt DEF IdleSend, IdleLoad, IdleRead, Absent
<1>4. ASSUME NEW d \in Device, NEW c \in Chain, Holds(d, c)'
      PROVE  Holds(d, c)
  <2>1. KeptOf(d, c)' => KeptOf(d, c)
    BY <1>1 DEF KeptOf
  <2>2. SentOf(d, c)' => SentOf(d, c)
    BY <1>1, <1>2, <1>3, SenderKeysAssumption DEF SentOf, Posted
  <2>3. ReadOf(d, c)' => ReadOf(d, c)
    BY <1>1, <1>2, <1>3 DEF ReadOf
  <2> QED
    BY <1>4, <2>1, <2>2, <2>3 DEF Holds
<1> QED
  BY <1>1, <1>4, OwnedStay DEF HoldsStay

LEMMA OwnedStep ==
    ASSUME TypeInv, ChainsOwned, [Next]_vars
    PROVE  ChainsOwned'
<1>1. ASSUME UNCHANGED <<serverKey, log, ratchet, send, reader, load, chains>>
      PROVE  ChainsOwned'
  BY <1>1 DEF ChainsOwned, Holds, KeptOf, SentOf, ReadOf, Posted
<1>2. ASSUME NEW t \in Tab, KeepText(t)
      PROVE  ChainsOwned'
  BY <1>1, <1>2, KeepFrame DEF keyHistory
<1>3. CASE UNCHANGED vars
  BY <1>1, <1>3 DEF vars, store, history, keyHistory
<1>4. ASSUME NEW t \in Tab, Send(t)
      PROVE  ChainsOwned'
  BY <1>4, LogStep, OwnedBegin, OwnedSend
<1> QED
  BY <1>2, <1>3, <1>4, OwnedReceive, OwnedBrowse, OwnedReload
     DEF Next, Receive, ReceiveStep

-----------------------------------------------------------------------------
(***************************************************************************)
(* The position of a device in its own chain, while its tabs take turns.   *)
(***************************************************************************)

Alone(d) == d \notin overlapped

OneTurn ==
    \A t, u \in Tab :
        t # u /\ DeviceOf[t] = DeviceOf[u] /\ Alone(DeviceOf[t]) =>
            send[t].stage \notin Turn \/ send[u].stage \notin Turn

\* A chain is generated by a device that has used none.
Unused(d) ==
    /\ ratchet[d][d].number = 0
    /\ \A i \in Posted : Encrypted(i) => log[i].from # d

OwnKnown ==
    \A t \in Tab :
        Alone(DeviceOf[t]) =>
            /\ send[t].stage \in {"uploading", "uploaded"} => Unused(DeviceOf[t])
            /\ send[t].stage \in {"encrypting", "posting"} => send[t].key = Own(t)

\* The messages of a device are in its chain, up to its position; the one about to be
\* posted is the first there.
Sent(i) ==
    LET own == ratchet[log[i].from][log[i].from]
    IN /\ log[i].chain = own.chain
       /\ log[i].number <= own.number
       /\ \A t \in Tab : DeviceOf[t] = log[i].from /\ send[t].stage = "posting" =>
             log[i].number < own.number

LogKnown == \A i \in Posted : Encrypted(i) /\ Alone(log[i].from) => Sent(i)

Behind ==
    \A d, e \in Device : Alone(e) => ratchet[d][e].number <= ratchet[e][e].number

\* Nobody ratchets for a message of its own device.
OthersRead ==
    \A t \in Tab :
        Alone(DeviceOf[t]) =>
            /\ \A m \in Id :
                  reader[t][m].stage = "ratcheting" => log[m].from # DeviceOf[t]
            /\ load[t].stage = "ratcheting" => log[load[t].next].from # DeviceOf[t]

KeysInv ==
    /\ OneTurn
    /\ OwnKnown
    /\ LogKnown
    /\ ReuseHasCause
    /\ Behind
    /\ OthersRead

LEMMA KeysInit == Init => KeysInv
<1> SUFFICES ASSUME Init
             PROVE  KeysInv
  OBVIOUS
<1>1. Posted = {} /\ \A t \in Tab : send[t] = IdleSend /\ load[t] = IdleLoad
  BY DEF Init, Posted
<1>2. \A d, e \in Device : ratchet[d][e] = Absent
  BY DEF Init
<1>3. OneTurn /\ OwnKnown
  BY <1>1 DEF OneTurn, Turn, OwnKnown, IdleSend
<1>4. LogKnown /\ ReuseHasCause
  BY <1>1 DEF LogKnown, ReuseHasCause
<1>5. Behind
  BY <1>2, SenderKeysAssumption DEF Behind, Absent
<1>6. OthersRead
  BY <1>1 DEF Init, OthersRead, IdleRead, IdleLoad
<1> QED
  BY <1>3, <1>4, <1>5, <1>6 DEF KeysInv

\* A tab that begins no turn leaves the others theirs.
LEMMA OneTurnStays ==
    ASSUME OneTurn, UNCHANGED overlapped, NEW t \in Tab,
           \A u \in Tab : u # t => send'[u] = send[u],
           send'[t].stage \in Turn => send[t].stage \in Turn
    PROVE  OneTurn'
<1>1. \A u \in Tab : send'[u].stage \in Turn => send[u].stage \in Turn
  OBVIOUS
<1> QED
  BY <1>1 DEF OneTurn, Alone

\* In its turn a tab is the only one of its device, until two overlapped.
LEMMA TurnTaken ==
    ASSUME OneTurn, NEW t \in Tab, NEW u \in Tab, t # u, DeviceOf[u] = DeviceOf[t],
           Alone(DeviceOf[t]), send[t].stage \in Turn
    PROVE  send[u].stage \notin {"uploading", "uploaded", "encrypting", "posting"}
BY DEF OneTurn, Turn

\* What a tab has under way for messages of others stays so.
LEMMA OthersStay ==
    ASSUME TypeInv, OthersRead, LogStays, NEW t \in Tab, Alone(DeviceOf[t])
    PROVE  /\ load'[t] = load[t] /\ load'[t].stage = "ratcheting" =>
                  log'[load'[t].next].from # DeviceOf[t]
           /\ \A m \in Id :
                 reader'[t][m] = reader[t][m] /\ reader'[t][m].stage = "ratcheting" =>
                     log'[m].from # DeviceOf[t]
<1>1. ASSUME load'[t] = load[t], load[t].stage = "ratcheting"
      PROVE  log'[load'[t].next].from # DeviceOf[t]
  <2>1. load[t].next \in Posted
    BY <1>1, LookedAt DEF TypeInv, LoadOK
  <2> QED
    BY <1>1, <2>1 DEF OthersRead, LogStays
<1>2. ASSUME NEW m \in Id, reader'[t][m] = reader[t][m], reader[t][m].stage = "ratcheting"
      PROVE  log'[m].from # DeviceOf[t]
  <2>1. m \in Posted
    BY <1>2 DEF TypeInv, ReadOK
  <2> QED
    BY <1>2, <2>1 DEF OthersRead, LogStays
<1> QED
  BY <1>1, <1>2

\* Reading moves positions in the chains of others, and one's own only by fetching it.
ReadersMove ==
    \A d, e \in Device :
        Alone(e) =>
            \/ ratchet'[d][e] = ratchet[d][e]
            \/ d # e /\ ratchet'[d][e].number <= ratchet[e][e].number
            \/ /\ ratchet[d][e] = Absent
               /\ ratchet'[d][e].number = 0 /\ ratchet'[d][e].chain = serverKey[e]

LEMMA KeysRead ==
    ASSUME TypeInv, TypeInv', KeysInv, ReadersMove,
           UNCHANGED <<serverKey, log, send, overlapped>>
    PROVE  OneTurn' /\ OwnKnown' /\ LogKnown' /\ ReuseHasCause' /\ Behind'
<1> USE SenderKeysAssumption
<1>1. ASSUME NEW e \in Device, Alone(e)
      PROVE  /\ ratchet[e][e].number \in Nat
             /\ ratchet'[e][e].number = ratchet[e][e].number
             /\ \/ ratchet'[e][e] = ratchet[e][e]
                \/ ratchet[e][e] = Absent /\ ratchet'[e][e].chain = serverKey[e]
  <2>1. ratchet[e][e] \in Position \cup {Absent}
    BY DEF TypeInv, KeysTyped
  <2>2. ratchet[e][e].number \in Nat
    BY <2>1 DEF Position, Absent
  <2> QED
    BY <1>1, <2>2 DEF ReadersMove, Absent
<1>2. OneTurn'
  BY DEF KeysInv, OneTurn, Alone
<1>3. OwnKnown'
  <2> SUFFICES ASSUME NEW t \in Tab, Alone(DeviceOf[t])
               PROVE  /\ send[t].stage \in {"uploading", "uploaded"} => Unused(DeviceOf[t])'
                      /\ send[t].stage \in {"encrypting", "posting"} =>
                             send[t].key = Own(t)'
    BY DEF OwnKnown, Alone
  <2>1. send[t].stage \in {"uploading", "uploaded"} => Unused(DeviceOf[t])'
    BY <1>1 DEF KeysInv, OwnKnown, Unused, Posted, Encrypted
  <2>2. ASSUME send[t].stage \in {"encrypting", "posting"}
        PROVE  send[t].key = Own(t)'
    <3>1. Own(t) \in Position
      BY <2>2 DEF TypeInv, SendOK
    <3>2. Own(t)' = Own(t)
      BY <1>1, <3>1, AbsentIsNoPosition DEF Own
    <3> QED
      BY <2>2, <3>2 DEF KeysInv, OwnKnown
  <2> QED
    BY <2>1, <2>2
<1>4. LogKnown'
  <2> SUFFICES ASSUME NEW i \in Posted, Encrypted(i), Alone(log[i].from)
               PROVE  Sent(i)'
    BY DEF LogKnown, Posted, Encrypted, Alone
  <2>1. PICK e \in Device : e = log[i].from
    BY PostedAre
  <2>2. Sent(i)
    BY DEF KeysInv, LogKnown
  <2>3. ratchet[e][e] # Absent
    BY <2>1, <2>2 DEF Sent, Absent, Encrypted
  <2> QED
    BY <1>1, <2>1, <2>2, <2>3 DEF Sent
<1>5. ReuseHasCause'
  BY DEF KeysInv, ReuseHasCause, SameKey, Posted, Encrypted
<1>6. Behind'
  <2> SUFFICES ASSUME NEW d \in Device, NEW e \in Device, Alone(e)
               PROVE  ratchet'[d][e].number <= ratchet'[e][e].number
    BY DEF Behind, Alone
  <2>1. ratchet[d][e].number <= ratchet[e][e].number
    BY DEF KeysInv, Behind
  <2> QED
    BY <1>1, <2>1 DEF ReadersMove
<1> QED
  BY <1>2, <1>3, <1>4, <1>5, <1>6

LEMMA StoreMoves ==
    ASSUME TypeInv, NEW d \in Device, StoreMissing(d)
    PROVE  ReadersMove
<1>1. \A f, g \in Device :
         /\ f # d => ratchet'[f][g] = ratchet[f][g]
         /\ ratchet[f][g] # Absent => ratchet'[f][g] = ratchet[f][g]
         /\ ratchet[f][g] = Absent =>
                \/ ratchet'[f][g] = Absent
                \/ /\ ratchet'[f][g].chain = serverKey[g]
                   /\ ratchet'[f][g].number = 0
                   /\ ratchet'[f][g] \in Position
  BY StoreAt DEF TypeInv
<1> QED
  BY <1>1 DEF ReadersMove

LEMMA SaveMoves ==
    ASSUME TypeInv, KeysInv, NEW d \in Device, NEW m \in Posted, Encrypted(m),
           NEW key \in Position, SavePosition(d, key, m), Alone(d) => log[m].from # d
    PROVE  ReadersMove
<1>1. PICK e \in Device : e = log[m].from
  BY PostedAre
<1>2. /\ ratchet'[d][e].number = log[m].number
      /\ \A f, g \in Device : f # d \/ g # e => ratchet'[f][g] = ratchet[f][g]
  BY <1>1, SaveAt
<1>3. Alone(e) => log[m].number <= ratchet[e][e].number
  BY <1>1 DEF KeysInv, LogKnown, Sent
<1> QED
  BY <1>1, <1>2, <1>3 DEF ReadersMove

LEMMA NothingMoves ==
    ASSUME UNCHANGED ratchet
    PROVE  ReadersMove
BY DEF ReadersMove

\* A device is past all its messages, so it never ratchets for one of them.
LEMMA OwnIsNotAhead ==
    ASSUME TypeInv, LogKnown', NEW d \in Device, NEW m \in Posted, Encrypted(m), Alone(d),
           TypeInv', UNCHANGED <<log, overlapped>>, Ahead(ratchet'[d][log[m].from], m)
    PROVE  log[m].from # d
<1> SUFFICES ASSUME log[m].from = d
             PROVE  FALSE
  OBVIOUS
<1>1. m \in Posted' /\ Encrypted(m)' /\ log'[m] = log[m] /\ Alone(d)'
  BY DEF Posted, Encrypted, Alone
<1>2. log[m].number <= ratchet'[d][d].number
  BY <1>1 DEF LogKnown, Sent
<1>3. ratchet'[d][d].number < log[m].number
  BY DEF Ahead
<1>4. log[m].number \in Nat
  BY PostedAre
<1>5. ratchet'[d][d].number \in Nat
  BY DEF TypeInv, KeysTyped, Position, Absent
<1> QED
  BY <1>2, <1>3, <1>4, <1>5

LEMMA KeysReceive ==
    ASSUME TypeInv, TypeInv', KeysInv, NEW t \in Tab, NEW m \in Id, ReceiveStep(t, m)
    PROVE  KeysInv'
<1> USE SenderKeysAssumption
<1>1. /\ UNCHANGED <<serverKey, log, send, load, overlapped>>
      /\ \A u \in Tab, i \in Id : u # t \/ i # m => reader'[u][i] = reader[u][i]
      /\ m \in Posted /\ DeviceOf[t] \in Device /\ LogStays
  BY ReceiveFrame, LogSame DEF keyHistory
<1>2. ASSUME ReadersMove,
             LogKnown' /\ Alone(DeviceOf[t]) /\ reader'[t][m].stage = "ratcheting" =>
                 log[m].from # DeviceOf[t]
      PROVE  KeysInv'
  <2>1. OneTurn' /\ OwnKnown' /\ LogKnown' /\ ReuseHasCause' /\ Behind'
    BY <1>1, <1>2, KeysRead
  <2>2. ASSUME NEW u \in Tab, Alone(DeviceOf[u])
        PROVE  /\ load'[u].stage = "ratcheting" => log'[load'[u].next].from # DeviceOf[u]
               /\ \A i \in Id : reader'[u][i].stage = "ratcheting" =>
                                    log'[i].from # DeviceOf[u]
    BY <1>1, <1>2, <2>1, <2>2, OthersStay DEF KeysInv
  <2>3. OthersRead'
    BY <1>1, <2>2 DEF OthersRead, Alone
  <2> QED
    BY <2>1, <2>3 DEF KeysInv
<1>3. ASSUME ReadersMove, Encrypted(m),
             PushTried(t, m, ratchet'[DeviceOf[t]][log[m].from])
      PROVE  KeysInv'
  <2>1. CASE Ahead(ratchet'[DeviceOf[t]][log[m].from], m)
    BY <1>1, <1>2, <1>3, <2>1, OwnIsNotAhead
  <2>2. CASE PushAdded(t, m, "unreadable")
    BY <1>2, <1>3, <2>2, PushAddedIs
  <2> QED
    BY <1>3, <2>1, <2>2 DEF PushTried
<1>4. CASE Pushed(t, m)
  <2>1. ReadersMove /\ UNCHANGED ratchet
    BY <1>4, NothingMoves DEF Pushed, store
  <2>2. CASE PushAdded(t, m, "text")
    BY <1>2, <2>1, <2>2, PushAddedIs
  <2>3. CASE Encrypted(m) /\ PushTried(t, m, ratchet[DeviceOf[t]][log[m].from])
    BY <1>3, <2>1, <2>3
  <2>4. CASE PushAt(t, m, "fetching", Absent)
    BY <1>2, <2>1, <2>4, PushAtIs
  <2> QED
    BY <1>4, <2>2, <2>3, <2>4 DEF Pushed
<1>5. CASE PushFetched(t, m)
  <2>1. Encrypted(m)
    BY <1>5 DEF PushFetched, TypeInv, ReadOK
  <2>2. CASE /\ StoreMissing(DeviceOf[t])
             /\ PushTried(t, m, ratchet'[DeviceOf[t]][log[m].from])
    BY <1>1, <1>3, <2>1, <2>2, StoreMoves
  <2>3. CASE UNCHANGED ratchet /\ PushAdded(t, m, "unreadable")
    BY <1>2, <2>3, NothingMoves, PushAddedIs
  <2> QED
    BY <1>5, <2>2, <2>3 DEF PushFetched
<1>6. CASE PushRatcheted(t, m)
  <2>1. PICK key \in Position :
            /\ key = reader[t][m].key
            /\ reader[t][m].stage = "ratcheting" /\ Encrypted(m)
            /\ SavePosition(DeviceOf[t], key, m) /\ PushAt(t, m, "opening", key)
    BY <1>6 DEF PushRatcheted, TypeInv, ReadOK
  <2>2. Alone(DeviceOf[t]) => log[m].from # DeviceOf[t]
    BY <2>1 DEF KeysInv, OthersRead
  <2>3. ReadersMove
    BY <1>1, <2>1, <2>2, SaveMoves
  <2> QED
    BY <1>2, <2>1, <2>3, PushAtIs
<1>7. CASE PushOpened(t, m) \/ PushShown(t, m)
  <2>1. ReadersMove
    BY <1>7, NothingMoves DEF PushOpened, PushShown, store
  <2>2. reader'[t][m].stage # "ratcheting"
    BY <1>7, PushAtIs, PushAddedIs DEF PushOpened, PushShown
  <2> QED
    BY <1>2, <2>1, <2>2
<1> QED
  BY <1>4, <1>5, <1>6, <1>7 DEF ReceiveStep

LEMMA KeysBrowse ==
    ASSUME TypeInv, TypeInv', KeysInv, NEW t \in Tab, Browse(t), ~ Reload(t)
    PROVE  KeysInv'
<1> USE SenderKeysAssumption
<1>1. /\ UNCHANGED <<serverKey, log, send, reader, overlapped>>
      /\ \A u \in Tab : u # t => load'[u] = load[u]
  BY BrowseFrame DEF keyHistory
<1>2. LogStays /\ DeviceOf[t] \in Device
  BY <1>1, LogSame
<1>3. ASSUME ReadersMove,
             LogKnown' /\ Alone(DeviceOf[t]) /\ load'[t].stage = "ratcheting" =>
                 log[load'[t].next].from # DeviceOf[t]
      PROVE  KeysInv'
  <2>1. OneTurn' /\ OwnKnown' /\ LogKnown' /\ ReuseHasCause' /\ Behind'
    BY <1>1, <1>3, KeysRead
  <2>2. ASSUME NEW u \in Tab, Alone(DeviceOf[u])
        PROVE  /\ load'[u].stage = "ratcheting" => log'[load'[u].next].from # DeviceOf[u]
               /\ \A i \in Id : reader'[u][i].stage = "ratcheting" =>
                                    log'[i].from # DeviceOf[u]
    BY <1>1, <1>2, <1>3, <2>1, <2>2, OthersStay DEF KeysInv
  <2>3. OthersRead'
    BY <1>1, <2>2 DEF OthersRead, Alone
  <2> QED
    BY <2>1, <2>3 DEF KeysInv
<1>4. load \in [Tab -> LoadType] /\ load[t] \in LoadType
  BY DEF TypeInv, TabsTyped
<1>5. ASSUME NEW as, Result(t, as)
      PROVE  load'[t].stage # "ratcheting"
  BY <1>4, <1>5 DEF Result
<1>6. ASSUME ReadersMove, load[t].stage # "idle", load[t].next <= load[t].last,
             Encrypted(load[t].next),
             HistoryTried(t, load[t].next, ratchet'[DeviceOf[t]][log[load[t].next].from])
      PROVE  KeysInv'
  <2>1. PICK m \in Posted : m = load[t].next
    BY SMTT(30), <1>6, LookedAt
  <2>2. CASE /\ Ahead(ratchet'[DeviceOf[t]][log[m].from], m)
             /\ load'[t].next = m
    BY <1>1, <1>2, <1>3, <1>6, <2>1, <2>2, OwnIsNotAhead
  <2>3. CASE Result(t, "unreadable")
    BY <1>3, <1>5, <1>6, <2>3
  <2>4. ASSUME NEW key, load' = [load EXCEPT ![t].stage = "ratcheting", ![t].key = key]
        PROVE  load'[t].next = load[t].next
    BY <1>4, <2>4 DEF LoadType
  <2> QED
    BY <1>6, <2>1, <2>2, <2>3, <2>4 DEF HistoryTried
<1>7. CASE HistoryRequested(t) \/ HistoryOpened(t) \/ HistoryShown(t)
  <2>1. UNCHANGED ratchet
    BY <1>7 DEF HistoryRequested, HistoryOpened, HistoryShown, store
  <2>2. load'[t].stage # "ratcheting"
    <3>1. CASE HistoryRequested(t)
      BY <1>4, <3>1 DEF HistoryRequested, IdleLoad
    <3>2. CASE HistoryOpened(t)
      BY <1>5, <3>2 DEF HistoryOpened
    <3>3. CASE HistoryShown(t)
      BY <1>4, <3>3 DEF HistoryShown, IdleLoad
    <3> QED
      BY <1>7, <3>1, <3>2, <3>3
  <2> QED
    BY <1>3, <2>1, <2>2, NothingMoves
<1>8. CASE HistoryKeys(t)
  <2>1. load'[t].stage = "lookup"
    BY <1>4, <1>8 DEF HistoryKeys, LoadType
  <2> QED
    BY <1>2, <1>3, <1>8, <2>1, NothingMoves, StoreMoves DEF HistoryKeys
<1>9. CASE HistoryLookup(t)
  <2>1. /\ UNCHANGED ratchet /\ load[t].stage # "idle" /\ load[t].next <= load[t].last
        /\ ReadersMove
    BY <1>9, NothingMoves DEF HistoryLookup, store
  <2>2. CASE Result(t, "text")
    BY <1>3, <1>5, <2>1, <2>2
  <2>3. CASE /\ Encrypted(load[t].next)
             /\ HistoryTried(t, load[t].next, ratchet[DeviceOf[t]][log[load[t].next].from])
    BY <1>6, <2>1, <2>3
  <2>4. CASE load' = [load EXCEPT ![t].stage = "fetching"]
    <3>1. load'[t].stage = "fetching"
      BY <1>4, <2>4 DEF LoadType
    <3> QED
      BY <1>3, <2>1, <3>1
  <2> QED
    BY <1>9, <2>2, <2>3, <2>4 DEF HistoryLookup
<1>10. CASE HistoryFetched(t)
  <2>1. /\ load[t].stage # "idle" /\ load[t].next <= load[t].last
        /\ Encrypted(load[t].next)
    BY <1>10 DEF HistoryFetched, TypeInv, LoadOK
  <2>2. CASE /\ StoreMissing(DeviceOf[t])
             /\ HistoryTried(t, load[t].next,
                             ratchet'[DeviceOf[t]][log[load[t].next].from])
    BY <1>2, <1>6, <2>1, <2>2, StoreMoves
  <2>3. CASE UNCHANGED ratchet /\ Result(t, "unreadable")
    BY <1>3, <1>5, <2>3, NothingMoves
  <2> QED
    BY <1>10, <2>2, <2>3 DEF HistoryFetched
<1>11. CASE HistoryRatcheted(t)
  <2>1. /\ load[t].stage = "ratcheting" /\ load[t].next <= load[t].last
        /\ load[t].key \in Position /\ Encrypted(load[t].next)
        /\ SavePosition(DeviceOf[t], load[t].key, load[t].next)
    BY <1>11 DEF HistoryRatcheted, TypeInv, LoadOK
  <2>2. /\ load[t].next \in Posted
        /\ Alone(DeviceOf[t]) => log[load[t].next].from # DeviceOf[t]
    BY <2>1, LookedAt DEF KeysInv, OthersRead
  <2>3. ReadersMove
    BY <1>2, <2>1, <2>2, SaveMoves
  <2>4. load'[t].stage = "opening"
    BY <1>4, <1>11 DEF HistoryRatcheted, LoadType
  <2> QED
    BY <1>3, <2>3, <2>4
<1> QED
  BY <1>7, <1>8, <1>9, <1>10, <1>11 DEF Browse

\* A step of a tab's sending that changes no position and posts nothing.
LEMMA KeysKept ==
    ASSUME TypeInv, KeysInv, NEW t \in Tab, UNCHANGED <<log, ratchet>>,
           OneTurn', OthersRead', overlapped \subseteq overlapped',
           \A u \in Tab : u # t => send'[u] = send[u],
           Alone(DeviceOf[t]) =>
               /\ send'[t].stage \in {"uploading", "uploaded"} => Unused(DeviceOf[t])
               /\ send'[t].stage \in {"encrypting", "posting"} => send'[t].key = Own(t),
           send'[t].stage = "posting" => send[t].stage = "posting"
    PROVE  KeysInv'
<1>1. /\ Posted' = Posted /\ \A i : Encrypted(i)' = Encrypted(i)
      /\ \A d : Alone(d)' => Alone(d)
  BY DEF Posted, Encrypted, Alone
<1>2. OwnKnown'
  <2> SUFFICES ASSUME NEW u \in Tab, Alone(DeviceOf[u])
               PROVE  /\ send'[u].stage \in {"uploading", "uploaded"} => Unused(DeviceOf[u])'
                      /\ send'[u].stage \in {"encrypting", "posting"} =>
                             send'[u].key = Own(u)'
    BY <1>1 DEF OwnKnown
  <2>1. /\ send'[u].stage \in {"uploading", "uploaded"} => Unused(DeviceOf[u])
        /\ send'[u].stage \in {"encrypting", "posting"} => send'[u].key = Own(u)
    BY DEF KeysInv, OwnKnown
  <2> QED
    BY <2>1 DEF Unused, Own, Posted, Encrypted
<1>3. LogKnown'
  <2> SUFFICES ASSUME NEW i \in Posted, Encrypted(i), Alone(log[i].from)
               PROVE  Sent(i)'
    BY <1>1 DEF LogKnown
  <2>1. Sent(i)
    BY DEF KeysInv, LogKnown
  <2> QED
    BY <2>1 DEF Sent
<1>4. ReuseHasCause' /\ Behind'
  BY <1>1 DEF KeysInv, ReuseHasCause, SameKey, Behind, Alone
<1> QED
  BY <1>2, <1>3, <1>4 DEF KeysInv

LEMMA KeysReload ==
    ASSUME TypeInv, KeysInv, NEW t \in Tab, Reload(t)
    PROVE  KeysInv'
<1> USE SenderKeysAssumption
<1>1. UNCHANGED <<log, ratchet, overlapped>> /\ LogStays
  BY LogSame DEF Reload, keyHistory
<1>2. \A u \in Tab : u # t => /\ send'[u] = send[u] /\ load'[u] = load[u]
                              /\ reader'[u] = reader[u]
  BY ReloadAt
<1>3. /\ send'[t] = IdleSend /\ load'[t] = IdleLoad
      /\ \A m \in Id : reader'[t][m] = IdleRead
  BY ReloadAt
<1>4. OneTurn'
  BY <1>1, <1>2, <1>3, OneTurnStays DEF KeysInv, IdleSend, Turn
<1>5. OthersRead'
  <2> SUFFICES ASSUME NEW u \in Tab, Alone(DeviceOf[u])
               PROVE  /\ load'[u].stage = "ratcheting" =>
                             log'[load'[u].next].from # DeviceOf[u]
                      /\ \A m \in Id : reader'[u][m].stage = "ratcheting" =>
                             log'[m].from # DeviceOf[u]
    BY <1>1 DEF OthersRead, Alone
  <2>1. CASE u = t
    BY <1>3, <2>1 DEF IdleLoad, IdleRead
  <2>2. CASE u # t
    BY <1>1, <1>2, <2>2, OthersStay DEF KeysInv
  <2> QED
    BY <2>1, <2>2
<1> QED
  BY <1>1, <1>2, <1>3, <1>4, <1>5, KeysKept DEF IdleSend

LEMMA OthersReadStays ==
    ASSUME TypeInv, KeysInv, LogStays, UNCHANGED <<reader, load>>,
           overlapped \subseteq overlapped'
    PROVE  OthersRead'
<1> SUFFICES ASSUME NEW u \in Tab, Alone(DeviceOf[u])
             PROVE  /\ load'[u].stage = "ratcheting" => log'[load'[u].next].from # DeviceOf[u]
                    /\ \A m \in Id : reader'[u][m].stage = "ratcheting" =>
                           log'[m].from # DeviceOf[u]
  BY DEF OthersRead, Alone
<1> QED
  BY OthersStay DEF KeysInv

\* A step that puts a device further in its own chain leaves its readers behind.
LEMMA BehindStays ==
    ASSUME TypeInv, KeysInv, NEW e \in Device, NEW p \in Position, UNCHANGED overlapped,
           ratchet' = [ratchet EXCEPT ![e][e] = p],
           Alone(e) => ratchet[e][e].number <= p.number
    PROVE  Behind'
<1> SUFFICES ASSUME NEW d \in Device, NEW f \in Device, Alone(f)
             PROVE  ratchet'[d][f].number <= ratchet'[f][f].number
  BY DEF Behind, Alone
<1>1. KeysTyped
  BY DEF TypeInv
<1>2. /\ ratchet'[e][e] = p
      /\ \A g, h \in Device : g # e \/ h # e => ratchet'[g][h] = ratchet[g][h]
  BY ZenonT(60), <1>1, RatchetAt
<1>3. ratchet[d][f].number <= ratchet[f][f].number
  BY DEF KeysInv, Behind
<1>4. ratchet[d][f].number \in Nat /\ ratchet[e][e].number \in Nat /\ p.number \in Nat
  <2>1. /\ ratchet[d][f] \in Position \cup {Absent}
        /\ ratchet[e][e] \in Position \cup {Absent}
    BY <1>1 DEF KeysTyped
  <2> QED
    BY <2>1 DEF Position, Absent
<1>5. CASE f = e
  <2>1. ratchet'[f][f] = p
    BY <1>2, <1>5
  <2>2. CASE d = e
    BY <1>4, <1>5, <2>1, <2>2
  <2>3. CASE d # e
    <3>1. ratchet'[d][f] = ratchet[d][f]
      BY <1>2, <2>3
    <3> QED
      BY <1>3, <1>4, <1>5, <2>1, <3>1
  <2> QED
    BY <2>2, <2>3
<1>6. CASE f # e
  BY <1>2, <1>3, <1>6
<1> QED
  BY <1>5, <1>6

LEMMA KeysBegin ==
    ASSUME TypeInv, KeysInv, NEW t \in Tab, SendBegins(t)
    PROVE  KeysInv'
<1> USE SenderKeysAssumption
<1>1. /\ UNCHANGED <<log, ratchet, reader, load>>
      /\ \A u \in Tab : u # t => send'[u] = send[u]
  BY SendFrame DEF SendBegins, store, Send
<1>2. overlapped \subseteq overlapped'
  BY DEF SendBegins
<1>3. OthersRead'
  BY <1>1, <1>2, LogSame, OthersReadStays
<1>4. OneTurn'
  <2> SUFFICES ASSUME NEW u \in Tab, NEW v \in Tab, u # v, DeviceOf[u] = DeviceOf[v],
                      send'[u].stage \in Turn, send'[v].stage \in Turn
               PROVE  ~ Alone(DeviceOf[u])'
    BY DEF OneTurn
  <2>1. ASSUME NEW w \in Tab, w # t, DeviceOf[w] = DeviceOf[t], send[w].stage \in Turn
        PROVE  ~ Alone(DeviceOf[t])'
    <3>1. TurnElsewhere(t)
      BY <2>1 DEF TurnElsewhere
    <3> QED
      BY <3>1 DEF SendBegins, Alone
  <2>2. CASE u = t
    BY <1>1, <2>1, <2>2
  <2>3. CASE v = t
    BY <1>1, <2>1, <2>3
  <2>4. CASE u # t /\ v # t
    BY <1>1, <1>2, <2>4 DEF KeysInv, OneTurn, Alone
  <2> QED
    BY <2>2, <2>3, <2>4
<1>5. \/ send'[t].stage = "reading"
      \/ send'[t].stage = "uploading" /\ Own(t) = Absent
  <2>1. \/ \E next : next.stage = "reading" /\ send' = [send EXCEPT ![t] = next]
        \/ /\ Own(t) = Absent
           /\ \E next : next.stage = "uploading" /\ send' = [send EXCEPT ![t] = next]
    BY DEF SendBegins, IdleSend
  <2> QED
    BY <2>1 DEF TypeInv, TabsTyped
<1>6. ASSUME Alone(DeviceOf[t]), send'[t].stage = "uploading"
      PROVE  Unused(DeviceOf[t])
  <2>1. ratchet[DeviceOf[t]][DeviceOf[t]] = Absent
    BY <1>5, <1>6 DEF Own
  <2>2. ASSUME NEW i \in Posted, Encrypted(i), log[i].from = DeviceOf[t]
        PROVE  FALSE
    <3>1. log[i].chain = ratchet[DeviceOf[t]][DeviceOf[t]].chain
      BY <1>6, <2>2 DEF KeysInv, LogKnown, Sent
    <3> QED
      BY <2>1, <2>2, <3>1 DEF Encrypted, Absent
  <2> QED
    BY <2>1, <2>2 DEF Unused, Absent
<1> QED
  BY <1>1, <1>2, <1>3, <1>4, <1>5, <1>6, KeysKept

LEMMA KeysIdle ==
    ASSUME TypeInv, KeysInv, NEW t \in Tab,
           \/ KeyUploaded(t) \/ OwnKeyRead(t) \/ SendDone(t) \/ PlaintextDone(t)
           \/ SendFails(t)
    PROVE  KeysInv'
<1> USE SenderKeysAssumption
<1>1. /\ UNCHANGED <<log, ratchet, reader, load, overlapped>>
      /\ \A u \in Tab : u # t => send'[u] = send[u]
  BY SendFrame DEF KeyUploaded, OwnKeyRead, SendDone, PlaintextDone, SendFails, store,
     history, keyHistory, Send
<1>2. OthersRead'
  BY <1>1, LogSame, OthersReadStays
<1>3. send \in [Tab -> SendType] /\ send[t] \in SendType
  BY DEF TypeInv, TabsTyped
<1>4. CASE KeyUploaded(t)
  <2>1. send'[t].stage = "uploaded" /\ send[t].stage = "uploading"
    BY <1>3, <1>4 DEF KeyUploaded, SendType
  <2>2. Alone(DeviceOf[t]) => Unused(DeviceOf[t])
    BY <2>1 DEF KeysInv, OwnKnown
  <2>3. OneTurn'
    BY <1>1, <2>1, OneTurnStays DEF KeysInv, Turn
  <2> QED
    BY <1>1, <1>2, <2>1, <2>2, <2>3, KeysKept
<1>5. CASE OwnKeyRead(t)
  <2>1. send'[t].stage = "encrypting" /\ send'[t].key = Own(t) /\ send[t].stage = "reading"
    BY <1>3, <1>5 DEF OwnKeyRead, SendType
  <2>2. OneTurn'
    BY <1>1, <2>1, OneTurnStays DEF KeysInv, Turn
  <2> QED
    BY <1>1, <1>2, <2>1, <2>2, KeysKept
<1>6. CASE SendDone(t) \/ PlaintextDone(t) \/ SendFails(t)
  <2>1. send'[t].stage \in {"idle", "fallback"}
    <3>1. \/ send' = [send EXCEPT ![t] = IdleSend]
          \/ send' = [send EXCEPT ![t] = [IdleSend EXCEPT !.stage = "fallback"]]
      BY <1>6 DEF SendDone, PlaintextDone, SendFails
    <3> QED
      BY <1>3, <3>1 DEF IdleSend
  <2>2. OneTurn'
    BY <1>1, <2>1, OneTurnStays DEF KeysInv, Turn
  <2> QED
    BY <1>1, <1>2, <2>1, <2>2, KeysKept
<1> QED
  BY <1>4, <1>5, <1>6

\* The tabs of other devices, and those whose turn it is not, keep what they know.
LEMMA OwnKnownStays ==
    ASSUME TypeInv, KeysInv, NEW t \in Tab, send[t].stage \in Turn, UNCHANGED overlapped,
           \A u \in Tab : u # t => send'[u] = send[u],
           \A e \in Device : e # DeviceOf[t] =>
               ratchet'[e][e] = ratchet[e][e] /\ (Unused(e) => Unused(e)'),
           Alone(DeviceOf[t]) =>
               /\ send'[t].stage \notin {"uploading", "uploaded"}
               /\ send'[t].stage \in {"encrypting", "posting"} => send'[t].key = Own(t)'
    PROVE  OwnKnown'
<1> USE SenderKeysAssumption
<1> SUFFICES ASSUME NEW u \in Tab, Alone(DeviceOf[u])
             PROVE  /\ send'[u].stage \in {"uploading", "uploaded"} => Unused(DeviceOf[u])'
                    /\ send'[u].stage \in {"encrypting", "posting"} =>
                           send'[u].key = Own(u)'
  BY DEF OwnKnown, Alone
<1>1. CASE u = t
  BY <1>1
<1>2. CASE u # t /\ DeviceOf[u] = DeviceOf[t]
  BY <1>2, TurnTaken DEF KeysInv
<1>3. CASE DeviceOf[u] # DeviceOf[t]
  <2>1. PICK e \in Device : e = DeviceOf[u]
    OBVIOUS
  <2>2. /\ send[u].stage \in {"uploading", "uploaded"} => Unused(e)
        /\ send[u].stage \in {"encrypting", "posting"} => send[u].key = ratchet[e][e]
    BY <2>1 DEF KeysInv, OwnKnown, Own
  <2>3. send'[u] = send[u]
    BY <1>3
  <2> QED
    BY <1>3, <2>1, <2>2, <2>3 DEF Own
<1> QED
  BY <1>1, <1>2, <1>3

LEMMA KeysSaved ==
    ASSUME TypeInv, KeysInv, NEW t \in Tab, KeySaved(t)
    PROVE  KeysInv'
<1> USE SenderKeysAssumption
<1>1. /\ UNCHANGED <<log, reader, load, overlapped>>
      /\ \A u \in Tab : u # t => send'[u] = send[u]
  BY SendFrame DEF KeySaved, history, keyHistory, Send
<1>2. OthersRead'
  BY <1>1, LogSame, OthersReadStays
<1>3. PICK d \in Device : d = DeviceOf[t]
  OBVIOUS
<1>4. PICK p \in Position : p = send[t].key
  BY DEF KeySaved, TypeInv, SendOK
<1>5. send[t].stage = "uploaded" /\ ratchet' = [ratchet EXCEPT ![d][d] = p]
  BY <1>3, <1>4 DEF KeySaved
<1>6. send'[t].stage = "reading" /\ KeysTyped
  BY DEF KeySaved, TypeInv, TabsTyped, SendType
<1>7. ratchet'[d][d] = p /\ \A e \in Device : e # d => ratchet'[e][e] = ratchet[e][e]
  BY ZenonT(60), <1>5, <1>6, RatchetAt
<1>8. Alone(d) => Unused(d)
  BY <1>3, <1>5 DEF KeysInv, OwnKnown
<1>9. OneTurn'
  BY <1>1, <1>5, <1>6, OneTurnStays DEF KeysInv, Turn
<1>10. Behind'
  <2>1. Alone(d) => ratchet[d][d].number <= p.number
    BY <1>8 DEF Unused, Position
  <2> QED
    BY <1>1, <1>5, <2>1, BehindStays
<1>11. ReuseHasCause'
  BY <1>1 DEF KeysInv, ReuseHasCause, SameKey, Posted, Encrypted
<1>12. OwnKnown'
  <2>1. send[t].stage \in Turn
    BY <1>5 DEF Turn
  <2>2. \A e \in Device : e # d => (Unused(e) => Unused(e)')
    BY <1>1, <1>7 DEF Unused, Posted, Encrypted
  <2> QED
    BY <1>1, <1>3, <1>6, <1>7, <2>1, <2>2, OwnKnownStays
<1>13. LogKnown'
  <2> SUFFICES ASSUME NEW i \in Posted, Encrypted(i), Alone(log[i].from)
               PROVE  Sent(i)'
    BY <1>1 DEF LogKnown, Posted, Encrypted, Alone
  <2>1. PICK e \in Device : e = log[i].from
    BY PostedAre
  <2>2. e # d
    BY <1>8, <2>1 DEF Unused
  <2>3. Sent(i)
    BY DEF KeysInv, LogKnown
  <2> QED
    BY <1>1, <1>6, <1>7, <2>1, <2>2, <2>3 DEF Sent
<1> QED
  BY <1>2, <1>9, <1>10, <1>11, <1>12, <1>13 DEF KeysInv

LEMMA KeysRatcheted ==
    ASSUME TypeInv, KeysInv, NEW t \in Tab, OwnKeyRatcheted(t)
    PROVE  KeysInv'
<1> USE SenderKeysAssumption
<1>1. /\ UNCHANGED <<log, reader, load, overlapped>> /\ send[t].stage = "encrypting"
      /\ \A u \in Tab : u # t => send'[u] = send[u]
  BY SendFrame DEF OwnKeyRatcheted, history, keyHistory, Send
<1>2. OthersRead'
  BY <1>1, LogSame, OthersReadStays
<1>3. PICK d \in Device : d = DeviceOf[t]
  OBVIOUS
<1>4. PICK key \in Position : key = send[t].key /\ (Alone(d) => key = ratchet[d][d])
  BY <1>1, <1>3 DEF TypeInv, SendOK, KeysInv, OwnKnown, Own
<1>5. PICK p : /\ p = [send[t].key EXCEPT !.number = @ + 1]
               /\ ratchet' = [ratchet EXCEPT ![d][d] = p]
               /\ send' = [send EXCEPT ![t].stage = "posting", ![t].key = p]
  BY <1>3 DEF OwnKeyRatcheted
<1>6. p \in Position /\ p.chain = key.chain /\ p.number = key.number + 1
  <2>1. p = [key EXCEPT !.number = @ + 1]
    BY <1>4, <1>5
  <2> QED
    BY <2>1 DEF Position
<1>7. send'[t].stage = "posting" /\ send'[t].key = p
  BY <1>5 DEF TypeInv, TabsTyped, SendType
<1>8. KeysTyped /\ key.number \in Nat
  BY DEF TypeInv, Position
<1>9. ratchet'[d][d] = p /\ \A e \in Device : e # d => ratchet'[e][e] = ratchet[e][e]
  BY ZenonT(60), <1>5, <1>6, <1>8, RatchetAt
<1>10. send[t].stage \in Turn /\ OneTurn'
  BY <1>1, OneTurnStays DEF KeysInv, Turn
<1>11. Behind'
  <2>1. Alone(d) => ratchet[d][d].number <= p.number
    BY <1>4, <1>6, <1>8
  <2> QED
    BY <1>1, <1>5, <1>6, <2>1, BehindStays
<1>12. ReuseHasCause'
  BY <1>1 DEF KeysInv, ReuseHasCause, SameKey, Posted, Encrypted
<1>13. OwnKnown'
  <2>1. \A e \in Device : e # d => (Unused(e) => Unused(e)')
    BY <1>1, <1>9 DEF Unused, Posted, Encrypted
  <2>2. send'[t].key = Own(t)'
    BY <1>3, <1>7, <1>9 DEF Own
  <2> QED
    BY <1>1, <1>3, <1>7, <1>9, <1>10, <2>1, <2>2, OwnKnownStays
<1>14. LogKnown'
  <2> SUFFICES ASSUME NEW i \in Posted, Encrypted(i), Alone(log[i].from)
               PROVE  Sent(i)'
    BY <1>1 DEF LogKnown, Posted, Encrypted, Alone
  <2>1. PICK e \in Device : e = log[i].from
    BY PostedAre
  <2>2. log[i].number \in Nat
    BY PostedAre
  <2>3. Sent(i)
    BY DEF KeysInv, LogKnown
  <2>4. CASE e = d
    <3>1. log[i].chain = key.chain /\ log[i].number <= key.number
      BY <1>4, <2>1, <2>3, <2>4 DEF Sent
    <3>2. log[i].number < p.number /\ log[i].number <= p.number
      BY <1>6, <1>8, <2>2, <3>1
    <3> QED
      BY <1>1, <1>6, <1>9, <2>1, <2>4, <3>1, <3>2 DEF Sent
  <2>5. CASE e # d
    BY <1>1, <1>3, <1>9, <2>1, <2>3, <2>5 DEF Sent
  <2> QED
    BY <2>4, <2>5
<1> QED
  BY <1>2, <1>10, <1>11, <1>12, <1>13, <1>14 DEF KeysInv

LEMMA KeysPosted ==
    ASSUME TypeInv, ChainsOwned, KeysInv, NEW t \in Tab,
           MessagePosted(t) \/ PlaintextPosted(t)
    PROVE  KeysInv'
<1> USE SenderKeysAssumption
<1>1. /\ UNCHANGED <<ratchet, reader, load, overlapped>>
      /\ \A u \in Tab : u # t => send'[u] = send[u]
  BY SendFrame DEF MessagePosted, PlaintextPosted, store, history, keyHistory, Send
<1>2. PICK key \in Position \cup {Absent} :
          /\ Post(t, key)
          /\ \/ send[t].stage = "posting" /\ key = send[t].key
             \/ key = Absent
  BY DEF MessagePosted, PlaintextPosted, TypeInv, TabsTyped, SendType
<1>3. PICK d \in Device : d = DeviceOf[t]
  OBVIOUS
<1>4. PICK id : id = Len(log')
  OBVIOUS
<1>5. /\ LogStays /\ id \in Posted'
      /\ Posted' = Posted \cup {id} /\ id \notin Posted
      /\ log'[id].from = d /\ log'[id].chain = key.chain /\ log'[id].number = key.number
  BY <1>2, <1>3, <1>4, LogGrows
<1>6. OthersRead'
  BY <1>1, <1>5, OthersReadStays
<1>7. send'[t].stage \in {"posted", "sent"}
  <2>1. \E stage \in {"posted", "sent"} : \E i :
            send' = [send EXCEPT ![t].stage = stage, ![t].id = i]
    BY DEF MessagePosted, PlaintextPosted
  <2> QED
    BY <2>1 DEF TypeInv, TabsTyped, SendType
<1>8. OneTurn'
  BY <1>1, <1>7, OneTurnStays DEF KeysInv, Turn
<1>9. Behind'
  BY <1>1 DEF KeysInv, Behind, Alone
<1>10. \A i \in Posted : Encrypted(i)' <=> Encrypted(i)
  BY <1>5 DEF Encrypted, LogStays
<1>11. ASSUME Encrypted(id)'
       PROVE  /\ key = send[t].key /\ send[t].stage = "posting" /\ key.chain \in Chain
              /\ key \in Position /\ (Alone(d) => key = ratchet[d][d])
  <2>1. key # Absent
    BY <1>5, <1>11 DEF Encrypted, Absent
  <2> QED
    BY <1>2, <1>3, <2>1 DEF Position, KeysInv, OwnKnown, Own
<1>12. ASSUME NEW i \in Posted, Encrypted(i), Encrypted(id)', log[i].chain = key.chain,
              Alone(d) \/ Alone(log[i].from)
       PROVE  log[i].number # key.number
  <2>1. PICK e \in Device : e = log[i].from
    BY PostedAre
  <2>2. PICK c \in Chain : c = key.chain
    BY <1>11, <1>12
  <2>3. Holds(d, c)
    BY <1>3, <1>11, <1>12, <2>2 DEF Holds, SentOf
  <2>4. Holds(e, c)
    BY <1>12, <2>1, <2>2 DEF Holds, SentOf
  <2>5. e = d
    BY <2>3, <2>4 DEF ChainsOwned
  <2>6. Sent(i) /\ key = ratchet[d][d]
    BY <1>11, <1>12, <2>1, <2>5 DEF KeysInv, LogKnown
  <2>7. log[i].number < key.number
    BY <1>3, <1>11, <1>12, <2>1, <2>5, <2>6 DEF Sent
  <2>8. log[i].number \in Nat
    BY PostedAre
  <2> QED
    BY <2>7, <2>8
<1>13. ReuseHasCause'
  <2> SUFFICES ASSUME NEW i \in Posted', NEW j \in Posted', Encrypted(i)', i # j,
                      log'[i].chain = log'[j].chain, log'[i].number = log'[j].number,
                      Alone(log'[i].from)
               PROVE  FALSE
    BY <1>1 DEF ReuseHasCause, SameKey, Alone
  <2>1. Encrypted(j)'
    BY DEF Encrypted
  <2>2. CASE i \in Posted /\ j \in Posted
    <3>1. SameKey(i, j) /\ log'[i] = log[i]
      BY <1>5, <1>10, <2>2 DEF SameKey, LogStays
    <3> QED
      BY <2>2, <3>1 DEF KeysInv, ReuseHasCause, Alone
  <2>3. CASE i \in Posted /\ j = id
    BY <1>5, <1>10, <1>12, <2>1, <2>3 DEF LogStays
  <2>4. CASE i = id /\ j \in Posted
    BY <1>5, <1>10, <1>12, <2>1, <2>4 DEF LogStays
  <2> QED
    BY <1>5, <2>2, <2>3, <2>4
<1>14. OwnKnown'
  <2>1. ASSUME NEW e \in Device, Unused(e), e # d \/ ~ Encrypted(id)'
        PROVE  Unused(e)'
    BY <1>1, <1>5, <1>10, <2>1 DEF Unused, LogStays
  <2>2. CASE send[t].stage \in Turn
    BY <1>1, <1>3, <1>7, <2>1, <2>2, OwnKnownStays
  <2>3. CASE send[t].stage \notin Turn
    <3>1. ~ Encrypted(id)'
      BY <1>11, <2>3 DEF Turn
    <3> SUFFICES ASSUME NEW u \in Tab, u # t, Alone(DeviceOf[u])
                 PROVE  /\ send[u].stage \in {"uploading", "uploaded"} =>
                               Unused(DeviceOf[u])'
                        /\ send[u].stage \in {"encrypting", "posting"} =>
                               send[u].key = Own(u)'
      BY <1>1, <1>7 DEF OwnKnown, Alone
    <3> QED
      BY <1>1, <2>1, <3>1 DEF KeysInv, OwnKnown, Own
  <2> QED
    BY <2>2, <2>3
<1>15. LogKnown'
  <2> SUFFICES ASSUME NEW i \in Posted', Encrypted(i)', Alone(log'[i].from)
               PROVE  Sent(i)'
    BY <1>1 DEF LogKnown, Alone
  <2>1. CASE i = id
    <3>1. key = ratchet[d][d] /\ key \in Position /\ send[t].stage = "posting"
      BY <1>5, <1>11, <2>1
    <3>2. key.number <= key.number
      BY <3>1 DEF Position
    <3>3. ASSUME NEW u \in Tab, DeviceOf[u] = d
          PROVE  send'[u].stage # "posting"
      <4>1. CASE u = t
        BY <1>7, <4>1
      <4>2. CASE u # t
        <5>1. send[t].stage \in Turn /\ Alone(DeviceOf[t])
          BY <1>3, <1>5, <2>1, <3>1 DEF Turn
        <5>2. send[u].stage # "posting"
          BY <1>3, <3>3, <4>2, <5>1, TurnTaken DEF KeysInv
        <5> QED
          BY <1>1, <4>2, <5>2
      <4> QED
        BY <4>1, <4>2
    <3> QED
      BY <1>1, <1>5, <2>1, <3>1, <3>2, <3>3 DEF Sent
  <2>2. CASE i \in Posted
    <3>1. Encrypted(i) /\ log'[i] = log[i]
      BY <1>5, <1>10, <2>2 DEF LogStays
    <3>2. \A u \in Tab : send'[u].stage = "posting" => send[u].stage = "posting"
      BY <1>1, <1>7
    <3>3. Sent(i)
      BY <2>2, <3>1 DEF KeysInv, LogKnown
    <3> QED
      BY <1>1, <3>1, <3>2, <3>3 DEF Sent
  <2> QED
    BY <1>5, <2>1, <2>2
<1> QED
  BY <1>6, <1>8, <1>9, <1>13, <1>14, <1>15 DEF KeysInv

LEMMA KeysStep ==
    ASSUME TypeInv, TypeInv', ChainsOwned, KeysInv, [Next]_vars
    PROVE  KeysInv'
<1>1. ASSUME NEW t \in Tab, Send(t)
      PROVE  KeysInv'
  BY <1>1, KeysBegin, KeysIdle, KeysSaved, KeysRatcheted, KeysPosted DEF Send
<1>2. ASSUME UNCHANGED <<serverKey, log, ratchet, send, reader, load, overlapped>>
      PROVE  KeysInv'
  <2>1. OneTurn' /\ OwnKnown' /\ LogKnown' /\ ReuseHasCause' /\ Behind'
    BY <1>2, NothingMoves, KeysRead
  <2>2. OthersRead'
    BY <1>2, LogSame, OthersReadStays
  <2> QED
    BY <2>1, <2>2 DEF KeysInv
<1>3. CASE UNCHANGED vars
  BY <1>2, <1>3 DEF vars, store, history, keyHistory
<1>4. ASSUME NEW t \in Tab, KeepText(t)
      PROVE  KeysInv'
  BY <1>2, <1>4, KeepFrame DEF keyHistory
<1> QED
  BY <1>1, <1>3, <1>4, KeysReceive, KeysBrowse, KeysReload DEF Next, Receive, ReceiveStep

LEMMA KeysAlways == Spec => [](TypeInv /\ ChainsOwned /\ KeysInv)
<1>1. Init => TypeInv /\ ChainsOwned /\ KeysInv
  BY TypesInit, OwnedInit, KeysInit
<1>2. TypeInv /\ ChainsOwned /\ KeysInv /\ [Next]_vars =>
          (TypeInv /\ ChainsOwned /\ KeysInv)'
  BY TypesStep, OwnedStep, KeysStep
<1> QED
  BY <1>1, <1>2, PTL DEF Spec

\* "Chain key ratchets forward after each message": two messages are encrypted with the
\* same message key only by a device two of whose tabs were sending at the same time,
\* whatever fails and whatever is loaded anew between reading the key, saving it and
\* posting (encryptForGroup, encryptWithSenderKey).
THEOREM ReuseAlwaysHasCause == Spec => []ReuseHasCause
<1>1. KeysInv => ReuseHasCause
  BY DEF KeysInv
<1> QED
  BY <1>1, KeysAlways, PTL

\* No reader is past the position of a device in its own chain, whose next message every
\* reader can still read, unless two tabs of the device were sending at the same time
\* (decryptWithSenderKey).
THEOREM ReadersAlwaysNeverAhead == Spec => []ReadersNeverAhead
<1>1. KeysInv => ReadersNeverAhead
  BY DEF KeysInv, Behind, Alone, ReadersNeverAhead
<1> QED
  BY <1>1, KeysAlways, PTL
=============================================================================
